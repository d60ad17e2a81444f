--------------------------- MODULE LogJoin_refinement ---------------------------
(***************************************************************************)
(* Proof that LogJoin implements the Sessionizer (LogJoin!Abs) for every   *)
(* value of the constants, when no uid is a byte prefix of another and no  *)
(* uid's scan reaches the "__sessionq-" envelope keys.                     *)
(*                                                                         *)
(* A flush is one abstract step: while it runs the mapping shows the       *)
(* transaction's base, and FlushEnd shows its result at once.  What has to *)
(* be carried through the flush is that its partial result is always a     *)
(* Close of the base: the store is the base minus whole users, and every   *)
(* envelope written so far is one of those users' sessions, written once.  *)
(***************************************************************************)
EXTENDS LogJoin_proofs

(* No uid is a byte prefix of another: flushSession's scan from u meets   *)
(* only u's own records.                                                   *)
DisjointUids == \A u, v \in Uids : BeginsWith(v, u) => u = v

(* No uid's scan reaches an envelope key. *)
UndrainedUids ==
  \A u \in Uids : ~BeginsWith(QueueKeyPrefix, u) /\ ~BeginsWith(u, QueueKeyPrefix)

(* The events of u when the flush transaction began. *)
BaseOf(u) == {e \in txnBase[1] : e.uid = u}

(* Only events of shard users are ever stored. *)
ShardEvents ==
  /\ \A e \in events : e.uid \in Shard
  /\ \A e \in txnBase[1] : e.uid \in Shard

(* An envelope the running flush wrote: the whole base session of a user  *)
(* whose records are gone and whose deadline is erased.                    *)
FlushedSession(x) ==
  /\ x.session_id \in Shard
  /\ x.events = BaseOf(x.session_id)
  /\ x.events # {}
  /\ x.time = Abs!FirstSeen(x.events)
  /\ x.customer \in Customers
  /\ EventsOf(x.session_id) = {}
  /\ deadlines[x.session_id] = None

(* The partial result of a running flush is a Close of its base. *)
FlushPartial ==
  flushAt # None =>
    /\ events \subseteq txnBase[1]
    /\ \A e \in txnBase[1] \ events : EventsOf(e.uid) = {}
    /\ txnBase[3] \subseteq queue
    /\ \A x \in queue \ txnBase[3] : FlushedSession(x)
    /\ \A x, y \in queue \ txnBase[3] : x.session_id = y.session_id => x = y

(* A flush runs only after importTimeoutList has. *)
FlushAfterBoot == flushAt # None => booted

RInv == TypeOK /\ ShardEvents /\ FlushAfterBoot /\ FlushPartial

USE UidsAssumption, ShardAssumption, EvTypesAssumption, TimesAssumption,
    MicrosAssumption, IdleAssumption, FlagsAssumption, MaxLinesAssumption,
    NoneAssumption

-----------------------------------------------------------------------------
(* Lemmas *)

(* The time EmitSession picks for an envelope is the Sessionizer's        *)
(* FirstSeen of its events.                                                *)
LEMMA FirstSeenIsMin ==
  ASSUME NEW S, \A e \in S : e.time \in Nat,
         NEW first \in {e.time * MicrosPerSecond : e \in S},
         \A e \in S : first <= e.time * MicrosPerSecond
  PROVE  first = Abs!FirstSeen(S)
<1>1. /\ Abs!FirstSeen(S) \in {e.time * MicrosPerSecond : e \in S}
      /\ \A e \in S : Abs!FirstSeen(S) <= e.time * MicrosPerSecond
  BY DEF Abs!FirstSeen
<1>2. PICK a \in S : first = a.time * MicrosPerSecond
  OBVIOUS
<1>3. PICK b \in S : Abs!FirstSeen(S) = b.time * MicrosPerSecond
  BY <1>1
<1>4. QED
  BY <1>1, <1>2, <1>3

(* Under DisjointUids the scan from u reads exactly u's events. *)
LEMMA ScannedIsOwn ==
  ASSUME TypeOK, DisjointUids, NEW u \in Uids
  PROVE  Scanned(u) = EventsOf(u)
<1>1. ASSUME NEW e \in events PROVE BeginsWith(e.uid, u) <=> e.uid = u
  <2>1. e.uid \in Uids
    BY DEF TypeOK, EventRec
  <2>2. BeginsWith(u, u)
    BY DEF BeginsWith
  <2>3. QED
    BY <2>1, <2>2 DEF DisjointUids
<1>2. QED
  BY <1>1 DEF Scanned, EventsOf

LEMMA InitRInv == Init => RInv
BY InitTypeOK DEF Init, RInv, ShardEvents, FlushAfterBoot, FlushPartial

LEMMA InitRefines == Init => Abs!Init
BY DEF Init, Abs!Init

(* One flushSession of a uid whose scan meets only its own records keeps  *)
(* the partial result a Close of the base.                                 *)
LEMMA FlushSessionPartial ==
  ASSUME RInv, DisjointUids, UndrainedUids,
         NEW u \in Uids, NEW ok \in BOOLEAN, FlushSession(u, ok)
  PROVE  FlushPartial'
<1>1. DrainedSets(u) = {{}}
  BY DEF UndrainedUids, DrainedSets
<1>2. PICK c \in Customers \cup {EmptyKey} :
        /\ events' = events \ Scanned(u)
        /\ EmitSession(queue \ {}, u, Scanned(u), c, ok)
  BY <1>1 DEF FlushSession
<1>3. Scanned(u) = EventsOf(u)
  BY ScannedIsOwn DEF RInv
<1>4. /\ flushAt # None /\ flushAt' = flushAt /\ txnBase' = txnBase
      /\ deadlines[u] # None
      /\ deadlines' = [deadlines EXCEPT ![u] = None]
  BY DEF FlushSession, Due
<1>5. /\ events \subseteq txnBase[1]
      /\ \A e \in txnBase[1] \ events : EventsOf(e.uid) = {}
      /\ txnBase[3] \subseteq queue
      /\ \A x \in queue \ txnBase[3] : FlushedSession(x)
      /\ \A x, y \in queue \ txnBase[3] : x.session_id = y.session_id => x = y
  BY <1>4 DEF RInv, FlushPartial
<1>6. events' = events \ EventsOf(u)
  BY <1>2, <1>3
<1>7. events' \subseteq txnBase[1]
  BY <1>5, <1>6
<1>8. \A e \in txnBase[1] \ events' : EventsOf(e.uid)' = {}
  <2>1. TAKE e \in txnBase[1] \ events'
  <2>2. CASE e \in events
    BY <1>6, <2>2 DEF EventsOf
  <2>3. CASE e \notin events
    BY <1>5, <1>6, <2>3 DEF EventsOf
  <2>4. QED
    BY <2>2, <2>3
<1>9. \A x \in queue \ txnBase[3] : x.session_id # u
  BY <1>4, <1>5 DEF FlushedSession
<1>10. \A x \in queue \ txnBase[3] : FlushedSession(x)'
  <2>1. TAKE x \in queue \ txnBase[3]
  <2>2. FlushedSession(x) /\ x.session_id # u
    BY <1>5, <1>9
  <2>3. x.session_id \in Uids
    BY <2>2 DEF FlushedSession
  <2>4. deadlines'[x.session_id] = None
    BY <1>4, <2>2, <2>3 DEF FlushedSession, RInv, TypeOK
  <2>5. EventsOf(x.session_id)' = {}
    BY <1>6, <2>2 DEF FlushedSession, EventsOf
  <2>6. BaseOf(x.session_id)' = BaseOf(x.session_id)
    BY <1>4 DEF BaseOf
  <2>7. QED
    BY <2>2, <2>4, <2>5, <2>6 DEF FlushedSession
<1>11. CASE queue' = queue
  BY <1>4, <1>5, <1>7, <1>8, <1>10, <1>11 DEF FlushPartial
<1>12. CASE queue' # queue
  <2>1. /\ c # EmptyKey /\ ok /\ ~DryRun /\ EventsOf(u) # {}
        /\ \E first \in {e.time * MicrosPerSecond : e \in EventsOf(u)} :
             /\ \A e \in EventsOf(u) : first <= e.time * MicrosPerSecond
             /\ queue' = queue \cup
                  {[customer |-> c, session_id |-> u, time |-> first,
                    events |-> EventsOf(u)]}
    BY <1>2, <1>3, <1>12 DEF EmitSession
  <2>2. PICK first \in {e.time * MicrosPerSecond : e \in EventsOf(u)} :
             /\ \A e \in EventsOf(u) : first <= e.time * MicrosPerSecond
             /\ queue' = queue \cup
                  {[customer |-> c, session_id |-> u, time |-> first,
                    events |-> EventsOf(u)]}
    BY <2>1
  <2>3. EventsOf(u) = BaseOf(u)
    BY <2>1, <1>5 DEF EventsOf, BaseOf
  <2>4. first = Abs!FirstSeen(EventsOf(u))
    <3>1. \A e \in EventsOf(u) : e.time \in Nat
      BY DEF RInv, TypeOK, EventRec, EventsOf
    <3>2. QED
      BY <2>2, <3>1, FirstSeenIsMin
  <2>5. u \in Shard
    BY <2>1 DEF RInv, ShardEvents, EventsOf
  <2>6. EventsOf(u)' = {}
    BY <1>6 DEF EventsOf
  <2>7. deadlines'[u] = None
    BY <1>4 DEF RInv, TypeOK
  <2>8. c \in Customers
    BY <2>1
  <2>9. PICK X : X = [customer |-> c, session_id |-> u, time |-> first,
                       events |-> EventsOf(u)]
    OBVIOUS
  <2>10. FlushedSession(X)'
    BY <1>4, <2>1, <2>3, <2>4, <2>5, <2>6, <2>7, <2>8, <2>9
    DEF FlushedSession, BaseOf
  <2>11. \A x \in queue' \ txnBase'[3] : FlushedSession(x)'
    BY <1>4, <1>10, <2>2, <2>9, <2>10
  <2>12. \A x, y \in queue' \ txnBase'[3] : x.session_id = y.session_id => x = y
    BY <1>4, <1>5, <1>9, <2>2
  <2>13. QED
    BY <1>4, <1>5, <1>7, <1>8, <2>2, <2>11, <2>12 DEF FlushPartial
<1>13. QED
  BY <1>11, <1>12

(* Every step keeps RInv. *)
LEMMA NextRInv ==
  ASSUME DisjointUids, UndrainedUids
  PROVE  RInv /\ [Next]_vars => RInv'
<1> SUFFICES ASSUME RInv, [Next]_vars PROVE RInv'
  OBVIOUS
<1>1. TypeOK'
  BY NextTypeOK DEF RInv
<1>2. CASE \E c \in Customers, t \in Times, u \in Uids \cup {NoUid},
             ev \in EvTypes \cup {BadEvType}, ok \in BOOLEAN :
             InsertLogline(c, t, u, ev, ok)
  <2>1. PICK c \in Customers, t \in Times, u \in Uids \cup {NoUid},
             ev \in EvTypes \cup {BadEvType}, ok \in BOOLEAN :
             InsertLogline(c, t, u, ev, ok)
    BY <1>2
  <2>2. \A e \in events' : e \in events \/ e.uid \in Shard
    <3>1. CASE Rejected(u, ev) \/ u \notin Shard
      BY <2>1, <3>1 DEF InsertLogline
    <3>2. CASE ~Rejected(u, ev) /\ u \in Shard /\ ok
      BY <2>1, <3>2 DEF InsertLogline
    <3>3. CASE ~Rejected(u, ev) /\ u \in Shard /\ ~ok
      BY <2>1, <3>3 DEF InsertLogline
    <3>4. QED
      BY <3>1, <3>2, <3>3
  <2>3. flushAt' = None /\ txnBase' = txnBase
    BY <2>1 DEF InsertLogline
  <2>4. QED
    BY <1>1, <2>2, <2>3 DEF RInv, ShardEvents, FlushAfterBoot, FlushPartial
<1>3. CASE \E t \in StreamTimes : FlushBegin(t)
  <2>1. /\ txnBase'[1] = events /\ txnBase'[3] = queue /\ store' = store
        /\ booted' = booted /\ booted
    BY <1>3 DEF FlushBegin, store
  <2>2. QED
    BY <1>1, <2>1 DEF RInv, ShardEvents, FlushAfterBoot, FlushPartial, store
<1>4. CASE \E u \in Uids, ok \in BOOLEAN : FlushSession(u, ok)
  <2>1. PICK u \in Uids, ok \in BOOLEAN : FlushSession(u, ok)
    BY <1>4
  <2>2. events' \subseteq events /\ txnBase' = txnBase
    BY <2>1 DEF FlushSession
  <2>3. FlushPartial'
    BY <2>1, FlushSessionPartial
  <2>4. booted' = booted /\ flushAt' = flushAt
    BY <2>1 DEF FlushSession
  <2>5. QED
    BY <1>1, <2>2, <2>3, <2>4 DEF RInv, ShardEvents, FlushAfterBoot
<1>5. CASE FlushEnd
  BY <1>1, <1>5 DEF FlushEnd, RInv, ShardEvents, FlushAfterBoot, FlushPartial
<1>6. CASE FlushAbort
  BY <1>1, <1>6 DEF FlushAbort, RInv, ShardEvents, FlushAfterBoot, FlushPartial
<1>7. CASE Restart
  BY <1>1, <1>7 DEF Restart, RInv, ShardEvents, FlushAfterBoot, FlushPartial
<1>8. CASE ImportTimeoutList
  <2>1. events' = events /\ txnBase' = txnBase /\ flushAt' = None
    BY <1>8 DEF ImportTimeoutList, RInv, FlushAfterBoot
  <2>2. QED
    BY <1>1, <2>1 DEF RInv, ShardEvents, FlushAfterBoot, FlushPartial
<1>9. CASE UNCHANGED vars
  BY <1>1, <1>9 DEF vars, RInv, ShardEvents, FlushAfterBoot, FlushPartial, FlushedSession,
                     BaseOf, EventsOf
<1>10. QED
  BY <1>2, <1>3, <1>4, <1>5, <1>6, <1>7, <1>8, <1>9 DEF Next

(* An insertLogline that stores an event ingests it; any other is a      *)
(* stutter of the Sessionizer.                                             *)
LEMMA InsertRefines ==
  ASSUME RInv,
         NEW c \in Customers, NEW t \in Times, NEW u \in Uids \cup {NoUid},
         NEW ev \in EvTypes \cup {BadEvType}, NEW ok \in BOOLEAN,
         InsertLogline(c, t, u, ev, ok)
  PROVE  [Abs!Next]_Abs!vars
<1>1. flushAt = None /\ flushAt' = None /\ queue' = queue
  BY DEF InsertLogline
<1>2. CASE ~Rejected(u, ev) /\ u \in Shard /\ ok
  <2>1. PICK E : E = [id |-> lines, uid |-> u, type |-> ev,
                      time |-> t \div MicrosPerSecond]
    OBVIOUS
  <2>2. events' = events \cup {E}
    BY <1>2, <2>1 DEF InsertLogline
  <2>3. E \in Abs!Event
    <3>1. lines \in 0 .. MaxLines
      BY DEF InsertLogline, RInv, TypeOK
    <3>2. ev \in EvTypes
      BY <1>2 DEF Rejected
    <3>3. t \div MicrosPerSecond \in {x \div MicrosPerSecond : x \in Times}
      OBVIOUS
    <3>4. QED
      BY <1>2, <2>1, <3>1, <3>2, <3>3 DEF Abs!Event
  <2>4. Abs!Ingest(E)
    BY <1>1, <2>2 DEF Abs!Ingest
  <2>5. QED
    BY <2>3, <2>4 DEF Abs!Next
<1>3. CASE ~(~Rejected(u, ev) /\ u \in Shard /\ ok)
  <2>1. events' = events
    BY <1>3 DEF InsertLogline
  <2>2. QED
    BY <1>1, <2>1 DEF Abs!vars
<1>4. QED
  BY <1>2, <1>3

(* FlushEnd publishes the whole flush as one Close: of the users whose    *)
(* records the flush deleted, each envelope it wrote being one of their    *)
(* sessions.                                                               *)
LEMMA FlushEndRefines ==
  ASSUME RInv, FlushEnd
  PROVE  Abs!Next
<1>1. /\ flushAt # None /\ flushAt' = None
      /\ events' = events /\ queue' = queue
  BY DEF FlushEnd
<1>2. /\ events \subseteq txnBase[1]
      /\ \A e \in txnBase[1] \ events : EventsOf(e.uid) = {}
      /\ txnBase[3] \subseteq queue
      /\ \A x \in queue \ txnBase[3] : FlushedSession(x)
      /\ \A x, y \in queue \ txnBase[3] : x.session_id = y.session_id => x = y
  BY <1>1 DEF RInv, FlushPartial
<1> DEFINE F == {e.uid : e \in txnBase[1] \ events}
           New == queue \ txnBase[3]
           E == {x.session_id : x \in New}
           cs == [v \in E |-> (CHOOSE x \in New : x.session_id = v).customer]
<1>3. \A v : Abs!PendingOf(v) = BaseOf(v)
  BY <1>1 DEF Abs!PendingOf, BaseOf
<1>4. events = {e \in txnBase[1] : e.uid \notin F}
  <2>1. ASSUME NEW e \in events PROVE e.uid \notin F
    BY <1>2 DEF EventsOf
  <2>2. QED
    BY <1>2, <2>1
<1>5. F \in SUBSET Shard
  BY DEF RInv, ShardEvents
<1>6. \A v \in E : v \in F /\ Abs!PendingOf(v) # {}
  <2>1. TAKE v \in E
  <2>2. PICK x \in New : x.session_id = v
    BY DEF E
  <2>3. BaseOf(v) # {} /\ EventsOf(v) = {}
    BY <1>2, <2>2 DEF FlushedSession
  <2>4. PICK e \in BaseOf(v) : TRUE
    BY <2>3
  <2>5. e \in txnBase[1] \ events /\ e.uid = v
    BY <2>3, <2>4 DEF BaseOf, EventsOf
  <2>6. QED
    BY <1>3, <2>3, <2>5
<1>7. \A v \in E : /\ (CHOOSE x \in New : x.session_id = v) \in New
                   /\ (CHOOSE x \in New : x.session_id = v).session_id = v
  OBVIOUS
<1>8. cs \in [E -> Customers]
  BY <1>2, <1>7 DEF FlushedSession
<1>9. ASSUME NEW x \in New
      PROVE  x = Abs!SessionOf(x.session_id, x.customer)
  <2>1. x \in Envelope
    BY DEF RInv, TypeOK
  <2>2. FlushedSession(x)
    BY <1>2
  <2>3. x = [customer |-> x.customer, session_id |-> x.session_id,
             time |-> x.time, events |-> x.events]
    BY <2>1 DEF Envelope
  <2>4. QED
    BY <1>3, <2>2, <2>3 DEF Abs!SessionOf, FlushedSession
<1>10. queue = txnBase[3] \cup {Abs!SessionOf(v, cs[v]) : v \in E}
  <2>1. ASSUME NEW x \in New PROVE x = Abs!SessionOf(x.session_id, cs[x.session_id])
    <3>1. (CHOOSE y \in New : y.session_id = x.session_id) = x
      BY <1>2, <1>7
    <3>2. x.session_id \in E
      BY DEF E
    <3>3. cs[x.session_id] = x.customer
      BY <3>1, <3>2 DEF cs
    <3>4. QED
      BY <1>9, <3>3
  <2>2. ASSUME NEW v \in E PROVE Abs!SessionOf(v, cs[v]) \in queue
    BY <1>7, <1>9
  <2>3. ASSUME NEW x \in queue
        PROVE  x \in txnBase[3] \cup {Abs!SessionOf(v, cs[v]) : v \in E}
    <3>1. CASE x \in txnBase[3]
      BY <3>1
    <3>2. CASE x \notin txnBase[3]
      <4>1. x \in New /\ x.session_id \in E
        BY <3>2
      <4>2. x = Abs!SessionOf(x.session_id, cs[x.session_id])
        BY <2>1, <4>1
      <4>3. QED
        BY <4>1, <4>2
    <3>3. QED
      BY <3>1, <3>2
  <2>4. txnBase[3] \cup {Abs!SessionOf(v, cs[v]) : v \in E} \subseteq queue
    BY <1>2, <2>2
  <2>5. QED
    BY <2>3, <2>4
<1>11. Abs!Close(F)
  <2>1. (IF flushAt = None THEN events ELSE txnBase[1])' =
          {e \in (IF flushAt = None THEN events ELSE txnBase[1]) : e.uid \notin F}
    BY <1>1, <1>4
  <2>2. E \in SUBSET {v \in F : Abs!PendingOf(v) # {}}
    BY <1>6
  <2>3. (IF flushAt = None THEN queue ELSE txnBase[3])' =
          (IF flushAt = None THEN queue ELSE txnBase[3]) \cup
            {Abs!SessionOf(v, cs[v]) : v \in E}
    BY <1>1, <1>10
  <2>4. QED
    BY <1>8, <2>1, <2>2, <2>3 DEF Abs!Close
<1>12. QED
  BY <1>5, <1>11 DEF Abs!Next

(* Every step of LogJoin is a Sessionizer step or leaves the mapped       *)
(* state alone.                                                            *)
LEMMA NextRefines ==
  ASSUME RInv, [Next]_vars
  PROVE  [Abs!Next]_Abs!vars
<1>1. CASE \E c \in Customers, t \in Times, u \in Uids \cup {NoUid},
             ev \in EvTypes \cup {BadEvType}, ok \in BOOLEAN :
             InsertLogline(c, t, u, ev, ok)
  BY <1>1, InsertRefines
<1>2. CASE \E t \in StreamTimes : FlushBegin(t)
  <2>1. flushAt = None /\ flushAt' # None
    BY <1>2, TimesAssumption, NoneAssumption DEF FlushBegin
  <2>2. txnBase'[1] = events /\ txnBase'[3] = queue
    BY <1>2 DEF FlushBegin, store
  <2>3. QED
    BY <2>1, <2>2 DEF Abs!vars
<1>3. CASE \E u \in Uids, ok \in BOOLEAN : FlushSession(u, ok)
  BY <1>3 DEF FlushSession, Abs!vars
<1>4. CASE FlushEnd
  BY <1>4, FlushEndRefines
<1>5. CASE FlushAbort
  BY <1>5 DEF FlushAbort, Abs!vars
<1>6. CASE Restart
  BY <1>6 DEF Restart, Abs!vars
<1>7. CASE ImportTimeoutList
  BY <1>7 DEF ImportTimeoutList, Abs!vars
<1>8. CASE UNCHANGED vars
  BY <1>8 DEF vars, Abs!vars
<1>9. QED
  BY <1>1, <1>2, <1>3, <1>4, <1>5, <1>6, <1>7, <1>8 DEF Next

-----------------------------------------------------------------------------
(* LogJoin implements the Sessionizer, for every value of the constants,  *)
(* when no uid is a byte prefix of another and no uid's scan reaches the  *)
(* envelope keys: every stored event is ingested, and every committed      *)
(* flush sends each evicted user's whole pending session at most once, in  *)
(* one envelope timed at its first event.  Aborted flushes are stutters.   *)
(* The runs MC_LogJoin_prefix and MC_LogJoin_drain show                    *)
(* that neither hypothesis can be dropped.                                 *)
THEOREM Refinement ==
  ASSUME DisjointUids, UndrainedUids
  PROVE  Spec => ImplementsSessionizer
<1>1. Init => RInv /\ Abs!Init
  BY InitRInv, InitRefines
<1>2. RInv /\ [Next]_vars => RInv'
  BY NextRInv
<1>3. RInv /\ [Next]_vars => [Abs!Next]_Abs!vars
  BY NextRefines
<1>4. QED
  BY <1>1, <1>2, <1>3, PTL DEF Spec, ImplementsSessionizer, Abs!Spec

=============================================================================
