\* joined_sessions must not count a session whose join failed (spec 7).
CONSTANTS
  Uids <- MC_DisjointUids
  Shard <- MC_DisjointShard
  EvTypes <- MC_EvTypes
  Customers <- MC_Customers
  Times <- MC_Times
  StreamTimes <- MC_StreamTimes
  MicrosPerSecond = 2
  IdleSeconds = 1
  DryRun = FALSE
  FlushTxnMayAbort = FALSE
  MaxLines = 3
  NoUid = NoUid
  BadEvType = BadEvType
  NoCust = NoCust
  None = None
SPECIFICATION Spec
PROPERTIES JoinedOnlyOnEnvelope
