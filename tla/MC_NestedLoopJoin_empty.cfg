\* A LEFT JOIN whose joined table is empty: the NULL-padded row must still
\* carry the base row's columns.
CONSTANTS
  Vals <- MC_Vals
  Null = Null
  InputMap <- MC_InputMap
  JoinCond <- MC_JoinCond
  HasWhere = TRUE
  WhereCond <- MC_WhereCond
  BaseTables <- MC_BaseTables
  JoinedTables <- MC_AllJoinedTables
  MaxInMemoryRows = 3
SPECIFICATION Spec
INVARIANTS JoinResultCorrect
CHECK_DEADLOCK FALSE
