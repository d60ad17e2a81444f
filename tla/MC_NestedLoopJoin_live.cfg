\* Every cursor, driven by a consumer that keeps calling next(), returns
\* false or raises, and every step lowers its rank: joined tables of one to
\* three rows, every join type.
CONSTANTS
  Vals <- MC_Vals
  Null = Null
  InputMap <- MC_InputMap
  JoinCond <- MC_JoinCond
  HasWhere = TRUE
  WhereCond <- MC_WhereCond
  BaseTables <- MC_BaseTables
  JoinedTables <- MC_NonEmptyJoinedTables
  MaxInMemoryRows = 3
SPECIFICATION FairSpec
PROPERTIES CursorTerminates CursorProgress
CHECK_DEADLOCK FALSE
