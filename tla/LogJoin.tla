------------------------------- MODULE LogJoin -------------------------------
(***************************************************************************)
(* The LogJoin sessionizer of src/src/logjoin/LogJoin.cc.                  *)
(*                                                                         *)
(* State kept by the code and how it is represented here:                  *)
(*   - the embedded ordered KV store, split by key layout:                 *)
(*       events    the "<uid>~<evtype>~<hex64>" records,                   *)
(*       cust      the "<uid>~cust" records (NoCust: key absent),          *)
(*       queue     the "__sessionq-<hex128>" envelopes;                    *)
(*   - sessions_flush_times_ as deadlines (None: no entry);                *)
(*   - the counters stat_loglines_total_, stat_loglines_invalid_,          *)
(*     stat_joined_sessions_;                                              *)
(*   - the progress of the caller's driver: whether importTimeoutList has  *)
(*     run since the process started (booted), and the stream time of the  *)
(*     flush in progress (flushAt) with the store as it was when its       *)
(*     transaction began (txnBase).                                        *)
(*                                                                         *)
(* A uid is a sequence of byte values, so that StringUtil::beginsWith and  *)
(* the lexicographic order of the store's keys are what they are in the    *)
(* code.  An event record keeps what flushSession reads back from it: its  *)
(* uid and event type (from the key), its timestamp in whole seconds (the  *)
(* varint of the value) and an identity (standing for the random hex64     *)
(* suffix; a 2^-64 collision is not modelled).                             *)
(***************************************************************************)
EXTENDS Naturals, Sequences, FiniteSets

CONSTANTS
  Uids,             \* uids that log lines carry: non-empty byte sequences
  Shard,            \* the uids LogJoinShard::testUID accepts
  EvTypes,          \* the accepted event type bytes 'c', 'q', 'u', 'v'
  Customers,        \* customer keys of the pipe wrapper ("" included)
  Times,            \* log line timestamps, in micros
  StreamTimes,      \* stream times passed to flush, in micros
  MicrosPerSecond,  \* stx::kMicrosPerSecond
  IdleSeconds,      \* kSessionIdleTimeoutSeconds
  DryRun,           \* dry_run_
  FlushTxnMayAbort, \* whether the caller's flush transaction can abort
  MaxLines,         \* bound on the number of insertLogline calls
  NoUid,            \* a "c" parameter that is missing or malformed
  BadEvType,        \* an "e" parameter that is missing or not accepted
  NoCust,           \* no "<uid>~cust" key in the store
  None              \* no entry in sessions_flush_times_ / no flush running

(* The byte '~' that separates the parts of a key. *)
Tilde == 126

(* The empty string: session.customer_key before the scan sets it. *)
EmptyKey == ""

(* "__sessionq-": the prefix of the envelope keys onSession writes. *)
QueueKeyPrefix == <<95, 95, 115, 101, 115, 115, 105, 111, 110, 113, 45>>

(* "__": the keys importTimeoutList skips. *)
ReservedPrefix == <<95, 95>>

ASSUME UidsAssumption ==
  /\ Uids \subseteq Seq(Nat) \ {<<>>}
  /\ \A u \in Uids : \A i \in 1..Len(u) : u[i] # Tilde
ASSUME ShardAssumption == Shard \subseteq Uids
ASSUME EvTypesAssumption == EvTypes \subseteq Nat
ASSUME TimesAssumption == Times \subseteq Nat /\ StreamTimes \subseteq Nat
ASSUME MicrosAssumption == MicrosPerSecond \in Nat \ {0}
ASSUME IdleAssumption == IdleSeconds \in Nat
ASSUME FlagsAssumption == DryRun \in BOOLEAN /\ FlushTxnMayAbort \in BOOLEAN
ASSUME MaxLinesAssumption == MaxLines \in Nat
ASSUME NoneAssumption == None \notin Nat /\ NoCust \notin Customers

VARIABLES
  events,       \* the event records of the store
  cust,         \* cust[u]: the value of "<u>~cust", or NoCust
  queue,        \* the session envelopes of the store
  deadlines,    \* deadlines[u]: sessions_flush_times_[u] in micros, or None
  total,        \* stat_loglines_total_
  invalid,      \* stat_loglines_invalid_
  joined,       \* stat_joined_sessions_
  booted,       \* importTimeoutList has run since the process started
  flushAt,      \* stream time of the flush in progress, or None
  txnBase,      \* the store when the flush transaction began
  lines         \* insertLogline calls so far (never reset; bounds the model)

vars == <<events, cust, queue, deadlines, total, invalid, joined, booted,
          flushAt, txnBase, lines>>

store == <<events, cust, queue>>

-----------------------------------------------------------------------------
(* Data *)

EventRec == [id : Nat, uid : Uids, type : EvTypes, time : Nat]

Envelope == [customer : Customers, session_id : Uids, time : Nat,
             events : SUBSET EventRec]

(* StringUtil::beginsWith(s, p). *)
BeginsWith(s, p) ==
  Len(p) <= Len(s) /\ \A i \in 1..Len(p) : s[i] = p[i]

(* The byte order of the store's keys: s sorts before t. *)
KeyLess(s, t) ==
  \/ Len(s) < Len(t) /\ BeginsWith(t, s)
  \/ \E i \in 1..Len(s) :
       /\ i <= Len(t)
       /\ \A j \in 1..(i - 1) : s[j] = t[j]
       /\ s[i] < t[i]

(* The bytes of "<u>~cust" that decide its place among other such keys. *)
CustKey(u) == u \o <<Tilde>>

(* The uid an event key belongs to: its bytes up to the first '~'. *)
EventsOf(u) == {e \in events : e.uid = u}

-----------------------------------------------------------------------------
(* Operations *)

(* Mutant: the test without its "no entry" half, so a uid seen for the    *)
(* first time never gets a deadline.                                       *)
TouchDeadlineNoInsert(d, u, flush_at) ==
  IF d[u] # None /\ d[u] < flush_at THEN [d EXCEPT ![u] = flush_at] ELSE d

(* appendToSession, lines 186-193: the deadline touch.  The code tests     *)
(* "no entry or an earlier one" and then calls emplace, which leaves an    *)
(* existing entry as it is.                                                *)
TouchDeadline(d, u, flush_at) ==
  IF d[u] = None \/ d[u] < flush_at
  THEN IF d[u] = None THEN [d EXCEPT ![u] = flush_at] ELSE d
  ELSE d

(* Mutant: the switch on the event type lost its default case. *)
RejectedNoEvType(uid, evtype) == uid = NoUid

(* The kParseError raises of insertLogline: "c" missing or malformed, or, *)
(* for a uid of this shard, "e" missing or not one of q, v, c, u.         *)
Rejected(uid, evtype) ==
  uid = NoUid \/ (uid \in Shard /\ evtype = BadEvType)

(* insertLogline(customer_key, time, log_line, txn) with the parse of     *)
(* log_line summarised by uid (NoUid when "c" is missing or malformed),   *)
(* evtype (BadEvType when "e" is missing or not one of q, v, c, u) and    *)
(* paramsOk (every stored parameter name is a registered pixel param).    *)
InsertLogline(customer, time, uid, evtype, paramsOk) ==
  /\ booted
  /\ flushAt = None
  /\ lines < MaxLines
  /\ lines' = lines + 1
  /\ total' = total + 1
  /\ IF Rejected(uid, evtype)
     THEN \* kParseError: counted invalid, nothing stored
          /\ invalid' = invalid + 1
          /\ UNCHANGED <<events, cust, deadlines>>
     ELSE IF uid \notin Shard
     THEN \* not my shard: dropped silently
          UNCHANGED <<invalid, events, cust, deadlines>>
     ELSE \* appendToSession: the deadline is touched first ...
          /\ deadlines' = TouchDeadline(deadlines, uid,
                             time + IdleSeconds * MicrosPerSecond)
          /\ IF paramsOk
             THEN /\ events' = events \cup
                       {[id |-> lines, uid |-> uid, type |-> evtype,
                         time |-> time \div MicrosPerSecond]}
                  /\ cust' = [cust EXCEPT ![uid] = customer]
                  /\ UNCHANGED invalid
             ELSE \* ... then getPixelParamID raises kIndexError
                  /\ invalid' = invalid + 1
                  /\ UNCHANGED <<events, cust>>
  /\ UNCHANGED <<queue, joined, booted, flushAt, txnBase>>

(* flush(txn, stream_time): the start of the walk over                    *)
(* sessions_flush_times_, inside the caller's transaction.                 *)
FlushBegin(t) ==
  /\ booted
  /\ flushAt = None
  /\ flushAt' = t
  /\ txnBase' = store
  /\ UNCHANGED <<events, cust, queue, deadlines, total, invalid, joined,
                 booted, lines>>

(* Mutant: the deadline in micros compared with the stream time in       *)
(* seconds.                                                                *)
DueSeconds(u) ==
  deadlines[u] # None /\ deadlines[u] < flushAt \div MicrosPerSecond

(* A uid the running flush evicts: its deadline is before stream time. *)
Due(u) == deadlines[u] # None /\ deadlines[u] < flushAt

(* Mutant of Scanned: the scan loop lost its beginsWith test and reads on  *)
(* from u's first key to the end of the store.                             *)
ScannedNoStop(u) == {e \in events : e.uid = u \/ KeyLess(u, e.uid)}

(* The session flushSession(u) builds: every event and cust record whose   *)
(* key begins with the bytes of u, the last cust key in key order giving   *)
(* the customer key ("" when there is none).                               *)
Scanned(u) == {e \in events : BeginsWith(e.uid, u)}

ScannedCust(u) == {v \in Uids : cust[v] # NoCust /\ BeginsWith(v, u)}

(* The customer key the scan leaves in session.customer_key: the value of *)
(* the last "~cust" key it meets, "" when it meets none.                   *)
IsSessionCustomer(u, c) ==
  IF ScannedCust(u) = {} THEN c = EmptyKey
  ELSE \E v \in ScannedCust(u) :
         /\ c = cust[v]
         /\ \A w \in ScannedCust(u) \ {v} : KeyLess(CustKey(w), CustKey(v))

(* Mutant of EmitSession: the envelope key lost its random hex suffix, so  *)
(* every txn->update of "__sessionq-" overwrites the envelope before it.   *)
EmitSessionFixedKey(q, u, S, customer, targetOk) ==
  IF customer = EmptyKey
  THEN queue' = q /\ UNCHANGED joined
  ELSE /\ joined' = joined + 1
       /\ IF targetOk /\ ~DryRun /\ S # {}
          THEN \E first \in {e.time * MicrosPerSecond : e \in S} :
                 /\ \A e \in S : first <= e.time * MicrosPerSecond
                 /\ queue' = {[customer |-> customer, session_id |-> u,
                               time |-> first, events |-> S]}
          ELSE queue' = q

(* The end of flushSession (lines 282-294) with onSession: no customer    *)
(* key drops the session; otherwise the session is counted, and its        *)
(* envelope is written unless joinSession throws, dry run is on, or the    *)
(* session has no event (firstSeenTime().get() on an empty Option throws). *)
(* The envelope's time is TrackedSession::firstSeenTime, the earliest      *)
(* event time; its session_data is the session's events.                   *)
EmitSession(q, u, S, customer, targetOk) ==
  IF customer = EmptyKey
  THEN queue' = q /\ UNCHANGED joined
  ELSE /\ joined' = joined + 1
       /\ IF targetOk /\ ~DryRun /\ S # {}
          THEN \E first \in {e.time * MicrosPerSecond : e \in S} :
                 /\ \A e \in S : first <= e.time * MicrosPerSecond
                 /\ queue' = q \cup
                      {[customer |-> customer, session_id |-> u,
                        time |-> first, events |-> S]}
          ELSE queue' = q

(* The "__sessionq-" envelope keys the scan from u reaches: all of them    *)
(* when u is a prefix of "__sessionq-", those whose random hex suffix      *)
(* begins with the rest of u when u extends it, none otherwise.            *)
DrainedSets(u) ==
  IF BeginsWith(QueueKeyPrefix, u) THEN {queue}
  ELSE IF BeginsWith(u, QueueKeyPrefix) THEN SUBSET queue
  ELSE {{}}

(* Mutant: only the flushed uid's own "~cust" key is deleted. *)
FlushSessionOwnCust(u, targetOk) ==
  /\ flushAt # None
  /\ Due(u)
  /\ \E customer \in Customers \cup {EmptyKey} :
       /\ IsSessionCustomer(u, customer)
       /\ events' = events \ Scanned(u)
       /\ cust' = [cust EXCEPT ![u] = NoCust]
       /\ EmitSession(queue, u, Scanned(u), customer, targetOk)
  /\ deadlines' = [deadlines EXCEPT ![u] = None]
  /\ UNCHANGED <<total, invalid, booted, flushAt, txnBase, lines>>

(* Mutant of FlushSession: the scanned keys are read but never deleted    *)
(* (cursor->del() left out).                                               *)
FlushSessionNoDelete(u, targetOk) ==
  /\ flushAt # None
  /\ Due(u)
  /\ \E customer \in Customers \cup {EmptyKey} :
       /\ IsSessionCustomer(u, customer)
       /\ events' = events
       /\ cust' = cust
       /\ EmitSession(queue, u, Scanned(u), customer, targetOk)
  /\ deadlines' = [deadlines EXCEPT ![u] = None]
  /\ UNCHANGED <<total, invalid, booted, flushAt, txnBase, lines>>

(* One iteration of flush's loop: flushSession(u), which deletes every    *)
(* key it scans, then the erase of u.  targetOk: joinSession returns.     *)
(* Envelope keys the scan reaches (D) are deleted too; their values are   *)
(* not event records, yet the reads of lines 258-260 outside the try     *)
(* succeed on them: a SessionEnvelope starts with its non-empty customer  *)
(* field, read as tag, length and bytes.  The parameter decode inside the *)
(* try fails for k of them (counted invalid).                             *)
(* The junk they add to the session is not modelled.                      *)
FlushSession(u, targetOk) ==
  /\ flushAt # None
  /\ Due(u)
  /\ \E D \in DrainedSets(u) : \E k \in 0 .. Cardinality(D) :
     \E customer \in Customers \cup {EmptyKey} :
       /\ IsSessionCustomer(u, customer)
       /\ events' = events \ Scanned(u)
       /\ cust' = [v \in Uids |-> IF BeginsWith(v, u) THEN NoCust
                                  ELSE cust[v]]
       /\ invalid' = invalid + k
       /\ EmitSession(queue \ D, u, Scanned(u), customer, targetOk)
  /\ deadlines' = [deadlines EXCEPT ![u] = None]
  /\ UNCHANGED <<total, booted, flushAt, txnBase, lines>>

(* flush returns once no due uid is left; the caller commits. *)
FlushEnd ==
  /\ flushAt # None
  /\ \A u \in Uids : ~Due(u)
  /\ flushAt' = None
  /\ UNCHANGED <<events, cust, queue, deadlines, total, invalid, joined,
                 booted, txnBase, lines>>

(* The caller's flush transaction aborts (a store RuntimeError): the      *)
(* store returns to txnBase, the in-memory erasures stay.                  *)
FlushAbort ==
  /\ FlushTxnMayAbort
  /\ flushAt # None
  /\ events' = txnBase[1]
  /\ cust' = txnBase[2]
  /\ queue' = txnBase[3]
  /\ flushAt' = None
  /\ UNCHANGED <<deadlines, total, invalid, joined, booted, txnBase, lines>>

(* The process stops between two calls and starts again: the committed    *)
(* store survives, every in-memory structure starts empty.                 *)
Restart ==
  /\ flushAt = None
  /\ deadlines' = [u \in Uids |-> None]
  /\ total' = 0
  /\ invalid' = 0
  /\ joined' = 0
  /\ booted' = FALSE
  /\ UNCHANGED <<events, cust, queue, flushAt, txnBase, lines>>

(* The event of uid u that importTimeoutList's walk meets first: keys of  *)
(* u sort by event type byte, then by the random suffix.                   *)
FirstInKeyOrder(u) ==
  {e \in EventsOf(u) : \A f \in EventsOf(u) : e.type <= f.type}

(* The event records of u the walk does not skip: an event key begins     *)
(* with "__" exactly when its uid does.                                    *)
Imported(u) == IF BeginsWith(u, ReservedPrefix) THEN {} ELSE EventsOf(u)

(* importTimeoutList: every event key not beginning with "__" touches its  *)
(* uid with (seconds + idle) * micros, by the same test-then-emplace as    *)
(* the append.                                                             *)
ImportTimeoutList ==
  /\ ~booted
  /\ \E first \in [Uids -> events \cup {None}] :
       /\ \A u \in Uids :
            IF Imported(u) = {} THEN first[u] = None
            ELSE first[u] \in FirstInKeyOrder(u)
       /\ deadlines' =
            [u \in Uids |->
               IF Imported(u) = {} THEN deadlines[u]
               ELSE TouchDeadline(deadlines, u,
                      (first[u].time + IdleSeconds) * MicrosPerSecond)[u]]
  /\ booted' = TRUE
  /\ UNCHANGED <<events, cust, queue, total, invalid, joined, flushAt,
                 txnBase, lines>>

-----------------------------------------------------------------------------

Init ==
  /\ events = {}
  /\ cust = [u \in Uids |-> NoCust]
  /\ queue = {}
  /\ deadlines = [u \in Uids |-> None]
  /\ total = 0
  /\ invalid = 0
  /\ joined = 0
  /\ booted = FALSE
  /\ flushAt = None
  /\ txnBase = <<{}, [u \in Uids |-> NoCust], {}>>
  /\ lines = 0

Next ==
  \/ \E c \in Customers, t \in Times, u \in Uids \cup {NoUid},
        ev \in EvTypes \cup {BadEvType}, ok \in BOOLEAN :
       InsertLogline(c, t, u, ev, ok)
  \/ \E t \in StreamTimes : FlushBegin(t)
  \/ \E u \in Uids, ok \in BOOLEAN : FlushSession(u, ok)
  \/ FlushEnd
  \/ FlushAbort
  \/ Restart
  \/ ImportTimeoutList

Spec == Init /\ [][Next]_vars

(* A flush whose stream time is past every deadline of the index. *)
LateFlushBegin ==
  \E t \in StreamTimes :
    /\ \A u \in Uids : deadlines[u] # None => deadlines[u] < t
    /\ FlushBegin(t)

(* One iteration of flush's loop. *)
FlushStep == \E u \in Uids, ok \in BOOLEAN : FlushSession(u, ok)

(* The single driver thread (spec 5) runs importTimeoutList at start and  *)
(* finishes each flush loop it enters; production passes the wall clock   *)
(* as stream time, so flushes late enough to pass every deadline keep      *)
(* being possible and one of them eventually runs.                         *)
FairSpec ==
  /\ Spec
  /\ WF_vars(ImportTimeoutList)
  /\ SF_vars(LateFlushBegin)
  /\ WF_vars(FlushStep)
  /\ WF_vars(FlushEnd)

-----------------------------------------------------------------------------
(* Properties *)

(* Every variable holds a value of the kind the code keeps there. *)
TypeOK ==
  /\ events \subseteq EventRec
  /\ cust \in [Uids -> Customers \cup {NoCust}]
  /\ queue \subseteq Envelope
  /\ deadlines \in [Uids -> Nat \cup {None}]
  /\ total \in Nat /\ invalid \in Nat /\ joined \in Nat
  /\ booted \in BOOLEAN
  /\ flushAt \in StreamTimes \cup {None}
  /\ txnBase[1] \subseteq EventRec
  /\ txnBase[2] \in [Uids -> Customers \cup {NoCust}]
  /\ txnBase[3] \subseteq Envelope
  /\ lines \in Nat

(* Once importTimeoutList has run, every event record in the store has an  *)
(* entry in sessions_flush_times_, so some later flush will read it back:  *)
(* appendToSession, flushSession, the erase in flush and the bootstrap     *)
(* walk must keep the in-memory index and the store in step (spec 3).      *)
RecordsHaveDeadline ==
  booted => \A e \in events : deadlines[e.uid] # None

(* A uid has a "<uid>~cust" record exactly when it has event records:      *)
(* appendToSession writes both, flushSession deletes both, so a flush      *)
(* never meets events without the customer key that lets them be emitted. *)
SessionRecordsPaired ==
  \A u \in Uids : (cust[u] # NoCust) <=> (EventsOf(u) # {})

(* An event is delivered at most once: no event is in two envelopes, and   *)
(* no event that is in an envelope is still in the store to be flushed     *)
(* again (flushSession deletes what it joins, in the same transaction).    *)
AtMostOnceDelivery ==
  /\ \A x, y \in queue : x # y => x.events \cap y.events = {}
  /\ \A x \in queue : x.events \cap events = {}

(* An envelope for uid u carries only events logged for u (spec 3: a      *)
(* user's records form the contiguous key range "<uid>~"), although        *)
(* flushSession scans while the key begins with the bytes of u.            *)
EnvelopeOwnEvents ==
  \A x \in queue : \A e \in x.events : e.uid = x.session_id

(* An event leaves the store only when its session has been idle for the  *)
(* idle timeout before the flush's stream time (spec 4.4: the deadline is  *)
(* max(old, time + idle)); appendToSession's emplace keeps the old one.    *)
NoPrematureFlush ==
  [][flushAt # None =>
       \A e \in events \ events' :
         e.time * MicrosPerSecond + IdleSeconds * MicrosPerSecond < flushAt]_vars

(* An envelope leaves the store only when the flush transaction that      *)
(* wrote it rolls back: envelopes wait under "__sessionq-" for downstream  *)
(* pickup (spec 2), and importTimeoutList skips "__" keys, but             *)
(* flushSession's scan from a uid such as "_" deletes them.                *)
EnvelopesNotDrained ==
  [][\A x \in queue \ queue' : x \notin txnBase[3] /\ flushAt' = None]_vars

(* Every event a shard user logs eventually leaves the store: its uid's    *)
(* deadline passes, a flush evicts it and flushSession deletes its records *)
(* (spec 4.4: events live until their owning user's flushSession).         *)
EventuallyFlushed ==
  \A u \in Uids : EventsOf(u) # {} ~> EventsOf(u) = {}

(* stat_joined_sessions_ counts the sessions written to the queue: a       *)
(* JoinTarget failure leaves it unchanged (spec 7).                        *)
JoinedOnlyOnEnvelope ==
  [][joined' > joined => queue' # queue \/ DryRun]_vars

-----------------------------------------------------------------------------
(* Refinement *)

(* What a reader of the store sees: while a flush runs, the store as its  *)
(* transaction found it; the flush's writes appear at once when flush      *)
(* returns and the caller commits, and never if the transaction aborts.    *)
Abs == INSTANCE Sessionizer WITH
  pending <- IF flushAt = None THEN events ELSE txnBase[1],
  sent <- IF flushAt = None THEN queue ELSE txnBase[3],
  EventIds <- 0 .. MaxLines,
  Seconds <- {t \div MicrosPerSecond : t \in Times}

(* LogJoin implements the Sessionizer: each insertLogline that stores an  *)
(* event ingests it, and each committed flush closes the sessions of the   *)
(* uids it evicted, each sent envelope carrying exactly its user's events  *)
(* and starting at the first of them (flushSession's prefix scan and its   *)
(* emission through onSession, spec 4.4 and 6).                            *)
ImplementsSessionizer == Abs!Spec

=============================================================================
