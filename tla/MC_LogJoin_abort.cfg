\* An aborted flush transaction restores the store but not the index.
CONSTANTS
  Uids <- MC_DisjointUids
  Shard <- MC_DisjointShard
  EvTypes <- MC_EvTypes
  Customers <- MC_Customers
  Times <- MC_Times
  StreamTimes <- MC_StreamTimes
  MicrosPerSecond = 2
  IdleSeconds = 1
  DryRun = FALSE
  FlushTxnMayAbort = TRUE
  MaxLines = 3
  NoUid = NoUid
  BadEvType = BadEvType
  NoCust = NoCust
  None = None
SPECIFICATION Spec
INVARIANTS RecordsHaveDeadline
