\* Prefix uids and a uid "_" reaching the envelopes, aborting flushes: the store invariants.
CONSTANTS
  Uids <- MC_MixedUids
  Shard <- MC_MixedUids
  EvTypes <- MC_EvTypes
  Customers <- MC_OneCustomer
  Times <- MC_Times
  StreamTimes <- MC_StreamTimes
  MicrosPerSecond = 2
  IdleSeconds = 1
  DryRun = FALSE
  FlushTxnMayAbort = TRUE
  MaxLines = 3
  NoUid = NoUid
  BadEvType = BadEvType
  NoCust = NoCust
  None = None
SPECIFICATION Spec
INVARIANTS TypeOK SessionRecordsPaired AtMostOnceDelivery
