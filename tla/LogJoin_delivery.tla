--------------------------- MODULE LogJoin_delivery ---------------------------
(***************************************************************************)
(* Proofs of the store invariants LogJoin's store run checks, for every    *)
(* value of the constants, prefix uids and aborting flushes included.      *)
(*                                                                         *)
(*   RecordsPaired: a uid has a "~cust" record exactly when it has event   *)
(*     records.                                                            *)
(*   DeliveredOnce: no event is in two envelopes, or in an envelope and    *)
(*     still in the store.                                                 *)
(***************************************************************************)
EXTENDS LogJoin_refinement

(* The pairing of SessionRecordsPaired, for given event and cust records. *)
PairedIn(E, C) ==
  \A u \in Uids : (C[u] # NoCust) <=> ({e \in E : e.uid = u} # {})

(* The two halves of AtMostOnceDelivery, for given events and envelopes. *)
OnceIn(E, Q) ==
  /\ \A x, y \in Q : x # y => x.events \cap y.events = {}
  /\ \A x \in Q : x.events \cap E = {}

(* Every event of E and of the envelopes Q was logged by an earlier        *)
(* insertLogline call: its identity is below the count of calls.           *)
IdsBelow(E, Q) ==
  /\ \A e \in E : e.id < lines
  /\ \A x \in Q : \A e \in x.events : e.id < lines

(* SessionRecordsPaired, strengthened by the same pairing in the store a   *)
(* rollback restores.                                                      *)
PInv ==
  /\ TypeOK
  /\ PairedIn(events, cust)
  /\ PairedIn(txnBase[1], txnBase[2])

(* AtMostOnceDelivery, strengthened by the same in the store a rollback    *)
(* restores, and by the freshness of the identity the next line gets.      *)
DInv ==
  /\ TypeOK
  /\ OnceIn(events, queue)
  /\ OnceIn(txnBase[1], txnBase[3])
  /\ IdsBelow(events, queue)
  /\ IdsBelow(txnBase[1], txnBase[3])

(* The events of every envelope of Q belong to the envelope's user. *)
OwnIn(Q) == \A x \in Q : \A e \in x.events : e.uid = x.session_id

(* EnvelopeOwnEvents, strengthened by the same of the queue a rollback    *)
(* restores.                                                               *)
OInv == TypeOK /\ OwnIn(queue) /\ OwnIn(txnBase[3])

-----------------------------------------------------------------------------
(* What the actions do to the store *)

(* flushSession(u) deletes every event and cust record whose key begins   *)
(* with the bytes of u.                                                    *)
LEMMA FlushSessionStore ==
  ASSUME NEW u \in Uids, NEW ok \in BOOLEAN, FlushSession(u, ok)
  PROVE  /\ events' = events \ Scanned(u)
         /\ cust' = [v \in Uids |-> IF BeginsWith(v, u) THEN NoCust
                                    ELSE cust[v]]
BY DEF FlushSession

(* ... and writes at most one envelope, carrying what the scan read.     *)
LEMMA FlushSessionQueue ==
  ASSUME NEW u \in Uids, NEW ok \in BOOLEAN, FlushSession(u, ok)
  PROVE  \E n : /\ n.events = Scanned(u) /\ n.session_id = u
               /\ queue' \subseteq queue \cup {n}
<1>1. PICK D \in DrainedSets(u) :
        \E k \in 0 .. Cardinality(D) : \E c \in Customers \cup {EmptyKey} :
          EmitSession(queue \ D, u, Scanned(u), c, ok)
  BY DEF FlushSession
<1>2. PICK c \in Customers \cup {EmptyKey} :
        EmitSession(queue \ D, u, Scanned(u), c, ok)
  BY <1>1
<1>3. CASE c # EmptyKey /\ ok /\ ~DryRun /\ Scanned(u) # {}
  <2>1. PICK first \in {e.time * MicrosPerSecond : e \in Scanned(u)} :
          queue' = (queue \ D) \cup
                   {[customer |-> c, session_id |-> u,
                     time |-> first, events |-> Scanned(u)]}
    BY <1>2, <1>3 DEF EmitSession
  <2>2. QED
    BY <2>1
<1>4. CASE ~(c # EmptyKey /\ ok /\ ~DryRun /\ Scanned(u) # {})
  <2>1. queue' = queue \ D
    BY <1>2, <1>4 DEF EmitSession
  <2>2. /\ [events |-> Scanned(u), session_id |-> u].events = Scanned(u)
        /\ [events |-> Scanned(u), session_id |-> u].session_id = u
    OBVIOUS
  <2>3. QED
    BY <2>1, <2>2
<1>5. QED
  BY <1>3, <1>4

(* When the caller's flush transaction aborts, the rollback puts        *)
(* back the store the flush began from.                                    *)
LEMMA RollbackStore ==
  ASSUME FlushAbort
  PROVE  /\ events' = txnBase[1] /\ cust' = txnBase[2] /\ queue' = txnBase[3]
         /\ txnBase' = txnBase /\ lines' = lines
BY DEF FlushAbort

-----------------------------------------------------------------------------
(* The customer record and the event records of a uid come and go together *)

LEMMA InitPInv == Init => PInv
BY InitTypeOK DEF Init, PInv, PairedIn

LEMMA InsertPInv ==
  ASSUME PInv,
         NEW c \in Customers, NEW t \in Times, NEW u \in Uids \cup {NoUid},
         NEW ev \in EvTypes \cup {BadEvType}, NEW ok \in BOOLEAN,
         InsertLogline(c, t, u, ev, ok)
  PROVE  PairedIn(events, cust)'
<1>1. CASE Rejected(u, ev) \/ u \notin Shard \/ ~ok
  BY <1>1 DEF InsertLogline, PInv, PairedIn
<1>2. CASE ~Rejected(u, ev) /\ u \in Shard /\ ok
  <2>1. /\ events' = events \cup
               {[id |-> lines, uid |-> u, type |-> ev,
                 time |-> t \div MicrosPerSecond]}
        /\ cust' = [cust EXCEPT ![u] = c]
    BY <1>2 DEF InsertLogline
  <2>2. ASSUME NEW v \in Uids
        PROVE  (cust'[v] # NoCust) <=> ({e \in events' : e.uid = v} # {})
    <3>1. CASE v = u
      <4>1. cust'[v] = c
        BY <2>1, <3>1, <1>2 DEF PInv, TypeOK
      <4>2. c # NoCust
        BY NoneAssumption
      <4>3. \E e \in events' : e.uid = v
        <5> DEFINE r == [id |-> lines, uid |-> u, type |-> ev,
                         time |-> t \div MicrosPerSecond]
        <5>1. r \in events' /\ r.uid = v
          BY <2>1, <3>1
        <5>2. QED
          BY <5>1
      <4>4. QED
        BY <4>1, <4>2, <4>3
    <3>2. CASE v # u
      BY <2>1, <3>2 DEF PInv, TypeOK, PairedIn
    <3>3. QED
      BY <3>1, <3>2
  <2>3. QED
    BY <2>2 DEF PairedIn
<1>3. QED
  BY <1>1, <1>2

LEMMA FlushSessionPInv ==
  ASSUME PInv, NEW u \in Uids, NEW ok \in BOOLEAN, FlushSession(u, ok)
  PROVE  PairedIn(events, cust)'
<1>1. ASSUME NEW v \in Uids
      PROVE  (cust'[v] # NoCust) <=> ({e \in events' : e.uid = v} # {})
  <2>1. CASE BeginsWith(v, u)
    BY <2>1, FlushSessionStore DEF Scanned
  <2>2. CASE ~BeginsWith(v, u)
    <3>1. {e \in events' : e.uid = v} = {e \in events : e.uid = v}
      BY <2>2, FlushSessionStore DEF Scanned
    <3>2. QED
      BY <2>2, <3>1, FlushSessionStore DEF PInv, PairedIn
  <2>3. QED
    BY <2>1, <2>2
<1>2. QED
  BY <1>1 DEF PairedIn

LEMMA NextPInv == PInv /\ [Next]_vars => PInv'
<1> SUFFICES ASSUME PInv, [Next]_vars PROVE PInv'
  OBVIOUS
<1>1. TypeOK'
  BY NextTypeOK DEF PInv
<1>2. CASE \E c \in Customers, t \in Times, u \in Uids \cup {NoUid},
             ev \in EvTypes \cup {BadEvType}, ok \in BOOLEAN :
             InsertLogline(c, t, u, ev, ok)
  BY <1>1, <1>2, InsertPInv DEF InsertLogline, PInv
<1>3. CASE \E t \in StreamTimes : FlushBegin(t)
  BY <1>1, <1>3 DEF FlushBegin, store, PInv
<1>4. CASE \E u \in Uids, ok \in BOOLEAN : FlushSession(u, ok)
  BY <1>1, <1>4, FlushSessionPInv DEF FlushSession, PInv
<1>5. CASE FlushAbort
  BY <1>1, <1>5, RollbackStore DEF PInv
<1>6. CASE FlushEnd \/ Restart \/ ImportTimeoutList \/ UNCHANGED vars
  BY <1>1, <1>6 DEF FlushEnd, Restart, ImportTimeoutList, vars, PInv
<1>7. QED
  BY <1>2, <1>3, <1>4, <1>5, <1>6 DEF Next

(* Every reachable state pairs each uid's "~cust" record with its event    *)
(* records: appendToSession writes both, flushSession's prefix scan        *)
(* deletes both for every uid it reaches, and a rolled-back flush          *)
(* restores a store that paired them.  No hypothesis on the uids or on     *)
(* aborts is needed.                                                       *)
THEOREM RecordsPaired == Spec => []SessionRecordsPaired
<1>1. Init => PInv
  BY InitPInv
<1>2. PInv /\ [Next]_vars => PInv'
  BY NextPInv
<1>3. PInv => SessionRecordsPaired
  BY DEF PInv, PairedIn, SessionRecordsPaired, EventsOf
<1>4. QED
  BY <1>1, <1>2, <1>3, PTL DEF Spec

-----------------------------------------------------------------------------
(* Each event is delivered at most once *)

LEMMA InitDInv == Init => DInv
BY InitTypeOK DEF Init, DInv, OnceIn, IdsBelow

LEMMA InsertDInv ==
  ASSUME DInv,
         NEW c \in Customers, NEW t \in Times, NEW u \in Uids \cup {NoUid},
         NEW ev \in EvTypes \cup {BadEvType}, NEW ok \in BOOLEAN,
         InsertLogline(c, t, u, ev, ok)
  PROVE  DInv'
<1>1. /\ lines' = lines + 1 /\ lines \in Nat
      /\ queue' = queue /\ txnBase' = txnBase
  BY DEF InsertLogline, DInv, TypeOK
<1>2. TypeOK'
  BY NextTypeOK DEF DInv, Next
<1>3. IdsBelow(txnBase[1], txnBase[3])' /\ OnceIn(txnBase[1], txnBase[3])'
  BY <1>1 DEF DInv, IdsBelow, OnceIn, TypeOK, EventRec, Envelope
<1>4. CASE events' = events
  BY <1>1, <1>2, <1>3, <1>4 DEF DInv, IdsBelow, OnceIn, TypeOK, EventRec,
                                 Envelope
<1>5. CASE events' # events
  <2>1. events' = events \cup
          {[id |-> lines, uid |-> u, type |-> ev,
            time |-> t \div MicrosPerSecond]}
    BY <1>5 DEF InsertLogline
  <2>2. \A e \in events' : e \in events \/ e.id = lines
    BY <2>1
  <2>3. \A x \in queue : \A e \in x.events : e.id < lines
    BY DEF DInv, IdsBelow
  <2>4. OnceIn(events, queue)'
    BY <1>1, <2>2, <2>3 DEF DInv, OnceIn
  <2>5. IdsBelow(events, queue)'
    BY <1>1, <2>2 DEF DInv, IdsBelow, TypeOK, EventRec, Envelope
  <2>6. QED
    BY <1>2, <1>3, <2>4, <2>5 DEF DInv
<1>6. QED
  BY <1>4, <1>5

LEMMA FlushSessionDInv ==
  ASSUME DInv, NEW u \in Uids, NEW ok \in BOOLEAN, FlushSession(u, ok)
  PROVE  OnceIn(events, queue)' /\ IdsBelow(events, queue)'
<1>1. PICK n : n.events = Scanned(u) /\ queue' \subseteq queue \cup {n}
  BY FlushSessionQueue
<1>2. events' = events \ Scanned(u) /\ Scanned(u) \subseteq events
  BY FlushSessionStore DEF Scanned
<1>3. lines' = lines
  BY DEF FlushSession
<1>4. \A x, y \in queue' : x # y => x.events \cap y.events = {}
  BY <1>1, <1>2 DEF DInv, OnceIn
<1>5. \A x \in queue' : x.events \cap events' = {}
  BY <1>1, <1>2 DEF DInv, OnceIn
<1>6. IdsBelow(events, queue)'
  BY <1>1, <1>2, <1>3 DEF DInv, IdsBelow
<1>7. QED
  BY <1>4, <1>5, <1>6 DEF OnceIn

LEMMA NextDInv == DInv /\ [Next]_vars => DInv'
<1> SUFFICES ASSUME DInv, [Next]_vars PROVE DInv'
  OBVIOUS
<1>1. TypeOK'
  BY NextTypeOK DEF DInv
<1>2. CASE \E c \in Customers, t \in Times, u \in Uids \cup {NoUid},
             ev \in EvTypes \cup {BadEvType}, ok \in BOOLEAN :
             InsertLogline(c, t, u, ev, ok)
  BY <1>2, InsertDInv
<1>3. CASE \E t \in StreamTimes : FlushBegin(t)
  BY <1>1, <1>3 DEF FlushBegin, store, DInv, OnceIn, IdsBelow
<1>4. CASE \E u \in Uids, ok \in BOOLEAN : FlushSession(u, ok)
  <2>1. PICK u \in Uids, ok \in BOOLEAN : FlushSession(u, ok)
    BY <1>4
  <2>2. txnBase' = txnBase /\ lines' = lines
    BY <2>1 DEF FlushSession
  <2>3. OnceIn(txnBase[1], txnBase[3])' /\ IdsBelow(txnBase[1], txnBase[3])'
    BY <2>2 DEF DInv, OnceIn, IdsBelow
  <2>4. QED
    BY <1>1, <2>1, <2>3, FlushSessionDInv DEF DInv
<1>5. CASE FlushAbort
  BY <1>1, <1>5, RollbackStore DEF DInv, OnceIn, IdsBelow
<1>6. CASE FlushEnd \/ Restart \/ ImportTimeoutList \/ UNCHANGED vars
  BY <1>1, <1>6 DEF FlushEnd, Restart, ImportTimeoutList, vars, DInv,
                    OnceIn, IdsBelow
<1>7. QED
  BY <1>2, <1>3, <1>4, <1>5, <1>6 DEF Next

(* Every reachable state delivers each event at most once: flushSession   *)
(* deletes in the same step the records it puts in its one envelope, a     *)
(* rolled-back flush restores a store and a queue that were disjoint, and  *)
(* insertLogline's record is fresh (its identity is the count of calls).   *)
(* No hypothesis on the uids or on aborts is needed: a prefix scan takes   *)
(* another uid's events, and a "_" scan drains envelopes, but neither      *)
(* duplicates an event.                                                    *)
THEOREM DeliveredOnce == Spec => []AtMostOnceDelivery
<1>1. Init => DInv
  BY InitDInv
<1>2. DInv /\ [Next]_vars => DInv'
  BY NextDInv
<1>3. DInv => AtMostOnceDelivery
  BY DEF DInv, OnceIn, AtMostOnceDelivery
<1>4. QED
  BY <1>1, <1>2, <1>3, PTL DEF Spec

-----------------------------------------------------------------------------
(* Envelopes carry their own user's events *)

LEMMA NextOInv ==
  ASSUME DisjointUids PROVE OInv /\ [Next]_vars => OInv'
<1> SUFFICES ASSUME OInv, [Next]_vars PROVE OInv'
  OBVIOUS
<1>1. TypeOK'
  BY NextTypeOK DEF OInv
<1>2. CASE \E c \in Customers, t \in Times, u \in Uids \cup {NoUid},
             ev \in EvTypes \cup {BadEvType}, ok \in BOOLEAN :
             InsertLogline(c, t, u, ev, ok)
  BY <1>1, <1>2 DEF InsertLogline, OInv
<1>3. CASE \E t \in StreamTimes : FlushBegin(t)
  BY <1>1, <1>3 DEF FlushBegin, store, OInv
<1>4. CASE \E u \in Uids, ok \in BOOLEAN : FlushSession(u, ok)
  <2>1. PICK u \in Uids, ok \in BOOLEAN : FlushSession(u, ok)
    BY <1>4
  <2>2. PICK n : /\ n.events = Scanned(u) /\ n.session_id = u
                 /\ queue' \subseteq queue \cup {n}
    BY <2>1, FlushSessionQueue
  <2>3. n.events = EventsOf(u)
    BY <2>2, ScannedIsOwn DEF OInv
  <2>4. OwnIn(queue)'
    BY <2>2, <2>3 DEF OInv, OwnIn, EventsOf
  <2>5. txnBase' = txnBase
    BY <2>1 DEF FlushSession
  <2>6. QED
    BY <1>1, <2>4, <2>5 DEF OInv, OwnIn
<1>5. CASE FlushAbort
  BY <1>1, <1>5, RollbackStore DEF OInv, OwnIn
<1>6. CASE FlushEnd \/ Restart \/ ImportTimeoutList \/ UNCHANGED vars
  BY <1>1, <1>6 DEF FlushEnd, Restart, ImportTimeoutList, vars, OInv
<1>7. QED
  BY <1>2, <1>3, <1>4, <1>5, <1>6 DEF Next

(* When no uid is a byte prefix of another, every envelope carries only   *)
(* events logged for its own user: flushSession's beginsWith scan then     *)
(* meets exactly the "<uid>~" range of spec 3.  The run MC_LogJoin_prefix *)
(* shows "u1" and "u10" break it; nothing else does, aborts and a "_"     *)
(* uid's drained envelopes included.                                       *)
THEOREM OwnEnvelopes ==
  ASSUME DisjointUids PROVE Spec => []EnvelopeOwnEvents
<1>1. Init => OInv
  BY InitTypeOK DEF Init, OInv, OwnIn
<1>2. OInv /\ [Next]_vars => OInv'
  BY NextOInv
<1>3. OInv => EnvelopeOwnEvents
  BY DEF OInv, OwnIn, EnvelopeOwnEvents
<1>4. QED
  BY <1>1, <1>2, <1>3, PTL DEF Spec

-----------------------------------------------------------------------------
(* Envelopes stay until downstream pickup *)

(* A scan that reaches no envelope key keeps every envelope. *)
LEMMA UndrainedKeeps ==
  ASSUME UndrainedUids, NEW u \in Uids, NEW ok \in BOOLEAN, FlushSession(u, ok)
  PROVE  queue \subseteq queue'
<1>1. DrainedSets(u) = {{}}
  BY DEF UndrainedUids, DrainedSets
<1>2. PICK c \in Customers \cup {EmptyKey} :
        EmitSession(queue \ {}, u, Scanned(u), c, ok)
  BY <1>1 DEF FlushSession
<1>3. CASE c # EmptyKey /\ ok /\ ~DryRun /\ Scanned(u) # {}
  <2>1. PICK first \in {e.time * MicrosPerSecond : e \in Scanned(u)} :
          queue' = (queue \ {}) \cup
                   {[customer |-> c, session_id |-> u,
                     time |-> first, events |-> Scanned(u)]}
    BY <1>2, <1>3 DEF EmitSession
  <2>2. QED
    BY <2>1
<1>4. CASE ~(c # EmptyKey /\ ok /\ ~DryRun /\ Scanned(u) # {})
  BY <1>2, <1>4 DEF EmitSession
<1>5. QED
  BY <1>3, <1>4

(* When no uid's scan reaches the "__sessionq-" keys, an envelope leaves   *)
(* the store only with the rollback of the flush that wrote it: envelopes  *)
(* wait for downstream pickup (spec 2).  The run MC_LogJoin_drain shows    *)
(* the uid "_" breaking it, and nothing else does, aborts included.        *)
THEOREM NoDrain ==
  ASSUME UndrainedUids PROVE Spec => EnvelopesNotDrained
<1> DEFINE Kept == \A x \in queue \ queue' : x \notin txnBase[3] /\ flushAt' = None
<1>1. ASSUME [Next]_vars PROVE [Kept]_vars
  <2>1. CASE \E c \in Customers, t \in Times, u \in Uids \cup {NoUid},
               ev \in EvTypes \cup {BadEvType}, ok \in BOOLEAN :
               InsertLogline(c, t, u, ev, ok)
    BY <2>1 DEF InsertLogline, Kept
  <2>2. CASE \E t \in StreamTimes : FlushBegin(t)
    BY <2>2 DEF FlushBegin, Kept
  <2>3. CASE \E u \in Uids, ok \in BOOLEAN : FlushSession(u, ok)
    BY <2>3, UndrainedKeeps DEF Kept
  <2>4. CASE FlushAbort
    <3>1. queue' = txnBase[3] /\ flushAt' = None
      BY <2>4 DEF FlushAbort
    <3>2. QED
      BY <3>1 DEF Kept
  <2>5. CASE FlushEnd \/ Restart \/ ImportTimeoutList \/ UNCHANGED vars
    BY <2>5 DEF FlushEnd, Restart, ImportTimeoutList, vars, Kept
  <2>6. QED
    BY <1>1, <2>1, <2>2, <2>3, <2>4, <2>5 DEF Next
<1>2. QED
  BY <1>1, PTL DEF Spec, EnvelopesNotDrained, Kept

=============================================================================
