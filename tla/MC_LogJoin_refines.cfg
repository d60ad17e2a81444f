\* Uids that are not byte prefixes of each other or of the envelope keys:
\* LogJoin refines Sessionizer, envelopes carry their own user's events and
\* stay until pickup.
CONSTANTS
  Uids <- MC_DisjointUids
  Shard <- MC_DisjointShard
  EvTypes <- MC_EvTypes
  Customers <- MC_Customers
  Times <- MC_Times
  StreamTimes <- MC_StreamTimes
  MicrosPerSecond = 2
  IdleSeconds = 1
  DryRun = FALSE
  FlushTxnMayAbort = TRUE
  MaxLines = 3
  NoUid = NoUid
  BadEvType = BadEvType
  NoCust = NoCust
  None = None
SPECIFICATION Spec
INVARIANTS EnvelopeOwnEvents
PROPERTIES ImplementsSessionizer EnvelopesNotDrained
