\* flushSession("u1") must not take the records of "u10".
CONSTANTS
  Uids <- MC_PrefixUids
  Shard <- MC_PrefixShard
  EvTypes <- MC_EvTypes
  Customers <- MC_Customers
  Times <- MC_Times
  StreamTimes <- MC_StreamTimes
  MicrosPerSecond = 2
  IdleSeconds = 1
  DryRun = FALSE
  FlushTxnMayAbort = FALSE
  MaxLines = 3
  NoUid = NoUid
  BadEvType = BadEvType
  NoCust = NoCust
  None = None
SPECIFICATION Spec
INVARIANTS EnvelopeOwnEvents
