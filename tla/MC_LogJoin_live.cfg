\* Every flush commits, dry run on: every record has a deadline and, under the driver's fairness, is flushed.
CONSTANTS
  Uids <- MC_DisjointUids
  Shard <- MC_DisjointShard
  EvTypes <- MC_EvTypes
  Customers <- MC_Customers
  Times <- MC_Times
  StreamTimes <- MC_StreamTimes
  MicrosPerSecond = 2
  IdleSeconds = 1
  DryRun = TRUE
  FlushTxnMayAbort = FALSE
  MaxLines = 3
  NoUid = NoUid
  BadEvType = BadEvType
  NoCust = NoCust
  None = None
SPECIFICATION FairSpec
INVARIANTS RecordsHaveDeadline
PROPERTIES EventuallyFlushed
