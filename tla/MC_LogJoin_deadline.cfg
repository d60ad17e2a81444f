\* Later events of a uid must extend its deadline (spec 4.4); uids prefix-free.
CONSTANTS
  Uids <- MC_DisjointUids
  Shard <- MC_DisjointShard
  EvTypes <- MC_EvTypes
  Customers <- MC_Customers
  Times <- MC_Times
  StreamTimes <- MC_StreamTimes
  MicrosPerSecond = 2
  IdleSeconds = 1
  DryRun = FALSE
  FlushTxnMayAbort = FALSE
  MaxLines = 3
  NoUid = NoUid
  BadEvType = BadEvType
  NoCust = NoCust
  None = None
SPECIFICATION Spec
PROPERTIES NoPrematureFlush
