\* A uid "_" is a byte prefix of "__sessionq-": flushing it drains envelopes.
CONSTANTS
  Uids <- MC_ScoreUids
  Shard <- MC_ScoreShard
  EvTypes <- MC_EvTypes
  Customers <- MC_Customers
  Times <- MC_Times
  StreamTimes <- MC_StreamTimes
  MicrosPerSecond = 2
  IdleSeconds = 1
  DryRun = FALSE
  FlushTxnMayAbort = FALSE
  MaxLines = 3
  NoUid = NoUid
  BadEvType = BadEvType
  NoCust = NoCust
  None = None
SPECIFICATION Spec
PROPERTIES EnvelopesNotDrained
