\* Every join type over joined tables of one to three rows (three rows hit
\* kMaxInMemoryRows), with an equi-join condition and a WHERE clause.
CONSTANTS
  Vals <- MC_Vals
  Null = Null
  InputMap <- MC_InputMap
  JoinCond <- MC_JoinCond
  HasWhere = TRUE
  WhereCond <- MC_WhereCond
  BaseTables <- MC_BaseTables
  JoinedTables <- MC_NonEmptyJoinedTables
  MaxInMemoryRows = 3
SPECIFICATION Spec
INVARIANTS TypeOK JoinResultCorrect
CHECK_DEADLOCK FALSE
