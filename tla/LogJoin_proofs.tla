---------------------------- MODULE LogJoin_proofs ----------------------------
(***************************************************************************)
(* Proofs about LogJoin for every value of its constants.                  *)
(*                                                                         *)
(*   TypeCorrect: every reachable state satisfies TypeOK.                  *)
(*   IndexCoversStore: when every flush transaction commits and no uid     *)
(*     shares its first bytes with "__sessionq-" or "__", every event      *)
(*     record of the store has a deadline once importTimeoutList has run.  *)
(***************************************************************************)
EXTENDS LogJoin, TLAPS

USE UidsAssumption, ShardAssumption, EvTypesAssumption, TimesAssumption,
    MicrosAssumption, IdleAssumption, FlagsAssumption, MaxLinesAssumption,
    NoneAssumption

DeadlineMap == [Uids -> Nat \cup {None}]

-----------------------------------------------------------------------------
(* The deadline touch of appendToSession and importTimeoutList. *)

(* It keeps the type of sessions_flush_times_. *)
LEMMA TouchDeadlineType ==
  ASSUME NEW d \in DeadlineMap, NEW u \in Uids, NEW t \in Nat
  PROVE  TouchDeadline(d, u, t) \in DeadlineMap
BY DEF TouchDeadline, DeadlineMap

(* Afterwards u has an entry, and no entry has been removed. *)
LEMMA TouchDeadlineEntries ==
  ASSUME NEW d \in DeadlineMap, NEW u \in Uids, NEW t \in Nat
  PROVE  /\ TouchDeadline(d, u, t)[u] # None
         /\ \A v \in Uids : d[v] # None => TouchDeadline(d, u, t)[v] # None
BY DEF TouchDeadline, DeadlineMap

-----------------------------------------------------------------------------
(* Type correctness *)

LEMMA InitTypeOK == Init => TypeOK
<1> SUFFICES ASSUME Init PROVE TypeOK
  OBVIOUS
<1>1. events \subseteq EventRec /\ queue \subseteq Envelope
  BY DEF Init
<1>2. cust \in [Uids -> Customers \cup {NoCust}]
  BY DEF Init
<1>3. deadlines \in [Uids -> Nat \cup {None}]
  BY DEF Init
<1>4. txnBase[1] \subseteq EventRec /\ txnBase[3] \subseteq Envelope
  BY DEF Init
<1>5. txnBase[2] \in [Uids -> Customers \cup {NoCust}]
  BY DEF Init
<1>6. QED
  BY <1>1, <1>2, <1>3, <1>4, <1>5 DEF Init, TypeOK

LEMMA InsertTypeOK ==
  ASSUME TypeOK,
         NEW c \in Customers, NEW t \in Times, NEW u \in Uids \cup {NoUid},
         NEW ev \in EvTypes \cup {BadEvType}, NEW ok \in BOOLEAN,
         InsertLogline(c, t, u, ev, ok)
  PROVE  TypeOK'
<1>1. CASE Rejected(u, ev)
  BY <1>1 DEF InsertLogline, TypeOK
<1>2. CASE ~Rejected(u, ev) /\ u \notin Shard
  BY <1>2 DEF InsertLogline, TypeOK
<1>3. CASE ~Rejected(u, ev) /\ u \in Shard
  <2>1. u \in Uids /\ ev \in EvTypes
    BY <1>3 DEF Rejected
  <2>2. t + IdleSeconds * MicrosPerSecond \in Nat
    BY <1>3
  <2>3. deadlines' = TouchDeadline(deadlines, u,
                                    t + IdleSeconds * MicrosPerSecond)
    BY <1>3 DEF InsertLogline
  <2>4. deadlines' \in DeadlineMap
    BY <2>1, <2>2, <2>3, TouchDeadlineType DEF TypeOK, DeadlineMap
  <2>5. t \div MicrosPerSecond \in Nat
    BY <1>3
  <2>6. CASE ok
    <3>1. events' \subseteq EventRec
      BY <1>3, <2>1, <2>5, <2>6 DEF InsertLogline, TypeOK, EventRec
    <3>2. cust' \in [Uids -> Customers \cup {NoCust}]
      BY <1>3, <2>1, <2>6 DEF InsertLogline, TypeOK
    <3>3. QED
      BY <1>3, <2>4, <2>6, <3>1, <3>2 DEF InsertLogline, TypeOK, DeadlineMap
  <2>7. CASE ~ok
    BY <1>3, <2>4, <2>7 DEF InsertLogline, TypeOK, DeadlineMap
  <2>8. QED
    BY <2>6, <2>7
<1>4. QED
  BY <1>1, <1>2, <1>3

LEMMA FlushSessionTypeOK ==
  ASSUME TypeOK, NEW u \in Uids, NEW ok \in BOOLEAN, FlushSession(u, ok)
  PROVE  TypeOK'
<1>1. PICK D \in DrainedSets(u) : \E k \in 0 .. Cardinality(D) :
        \E c \in Customers \cup {EmptyKey} :
          /\ IsSessionCustomer(u, c)
          /\ events' = events \ Scanned(u)
          /\ cust' = [v \in Uids |-> IF BeginsWith(v, u) THEN NoCust
                                     ELSE cust[v]]
          /\ invalid' = invalid + k
          /\ EmitSession(queue \ D, u, Scanned(u), c, ok)
  BY DEF FlushSession
<1>2. PICK k \in 0 .. Cardinality(D) :
        \E c \in Customers \cup {EmptyKey} :
          /\ IsSessionCustomer(u, c)
          /\ events' = events \ Scanned(u)
          /\ cust' = [v \in Uids |-> IF BeginsWith(v, u) THEN NoCust
                                     ELSE cust[v]]
          /\ invalid' = invalid + k
          /\ EmitSession(queue \ D, u, Scanned(u), c, ok)
  BY <1>1
<1>3. PICK c \in Customers \cup {EmptyKey} :
        /\ IsSessionCustomer(u, c)
        /\ events' = events \ Scanned(u)
        /\ cust' = [v \in Uids |-> IF BeginsWith(v, u) THEN NoCust
                                   ELSE cust[v]]
        /\ invalid' = invalid + k
        /\ EmitSession(queue \ D, u, Scanned(u), c, ok)
  BY <1>2
<1>4. events' \subseteq EventRec
  BY <1>3 DEF TypeOK
<1>5. cust' \in [Uids -> Customers \cup {NoCust}]
  BY <1>3 DEF TypeOK
<1>6. deadlines' \in DeadlineMap
  BY DEF FlushSession, TypeOK, DeadlineMap
<1>7. invalid' \in Nat
  <2>1. k \in Nat
    BY <1>2
  <2>2. QED
    BY <1>3, <2>1 DEF TypeOK
<1>8. queue \ D \subseteq Envelope
  BY DEF TypeOK
<1>9. queue' \subseteq Envelope /\ joined' \in Nat
  <2>1. CASE c = EmptyKey
    BY <1>3, <1>8, <2>1 DEF EmitSession, TypeOK
  <2>2. CASE c # EmptyKey /\ ok /\ ~DryRun /\ Scanned(u) # {}
    <3>1. PICK first \in {e.time * MicrosPerSecond : e \in Scanned(u)} :
            queue' = (queue \ D) \cup
                     {[customer |-> c, session_id |-> u,
                       time |-> first, events |-> Scanned(u)]}
      BY <1>3, <2>2 DEF EmitSession
    <3>2. first \in Nat
      <4>1. \A e \in Scanned(u) : e.time \in Nat
        BY DEF TypeOK, EventRec, Scanned
      <4>2. PICK x \in Scanned(u) : first = x.time * MicrosPerSecond
        BY <3>1
      <4>3. QED
        BY <4>1, <4>2, MicrosAssumption
    <3>3. Scanned(u) \in SUBSET EventRec
      BY DEF TypeOK, Scanned
    <3>4. c \in Customers
      BY <1>3, <2>2
    <3>5. joined' = joined + 1
      BY <1>3, <2>2 DEF EmitSession
    <3>6. [customer |-> c, session_id |-> u,
           time |-> first, events |-> Scanned(u)] \in Envelope
      BY <3>2, <3>3, <3>4 DEF Envelope
    <3>7. QED
      BY <1>8, <3>1, <3>5, <3>6 DEF TypeOK
  <2>3. CASE c # EmptyKey /\ ~(ok /\ ~DryRun /\ Scanned(u) # {})
    <3>1. queue' = queue \ D /\ joined' = joined + 1
      BY <1>3, <2>3 DEF EmitSession
    <3>2. QED
      BY <1>8, <3>1 DEF TypeOK
  <2>4. QED
    BY <2>1, <2>2, <2>3
<1>10. QED
  BY <1>4, <1>5, <1>6, <1>7, <1>9 DEF FlushSession, TypeOK

LEMMA ImportTypeOK ==
  ASSUME TypeOK, ImportTimeoutList
  PROVE  TypeOK'
<1>1. PICK first \in [Uids -> events \cup {None}] :
        /\ \A v \in Uids :
             IF Imported(v) = {} THEN first[v] = None
             ELSE first[v] \in FirstInKeyOrder(v)
        /\ deadlines' =
          [u \in Uids |->
             IF Imported(u) = {} THEN deadlines[u]
             ELSE TouchDeadline(deadlines, u,
                    (first[u].time + IdleSeconds) * MicrosPerSecond)[u]]
  BY DEF ImportTimeoutList
<1>2. ASSUME NEW u \in Uids, Imported(u) # {}
      PROVE  TouchDeadline(deadlines, u,
               (first[u].time + IdleSeconds) * MicrosPerSecond)[u]
             \in Nat \cup {None}
  <2>0. first[u] \in events
    BY <1>1, <1>2 DEF FirstInKeyOrder, EventsOf
  <2>1. first[u] \in EventRec
    BY <2>0 DEF TypeOK
  <2>2. (first[u].time + IdleSeconds) * MicrosPerSecond \in Nat
    BY <2>1 DEF EventRec
  <2>3. deadlines \in DeadlineMap
    BY DEF TypeOK, DeadlineMap
  <2>4. TouchDeadline(deadlines, u,
          (first[u].time + IdleSeconds) * MicrosPerSecond) \in DeadlineMap
    BY <2>2, <2>3, TouchDeadlineType
  <2>5. QED
    BY <2>4 DEF DeadlineMap
<1>3. deadlines' \in DeadlineMap
  BY <1>1, <1>2 DEF TypeOK, DeadlineMap
<1>4. QED
  BY <1>3 DEF ImportTimeoutList, TypeOK, DeadlineMap

LEMMA NextTypeOK == TypeOK /\ [Next]_vars => TypeOK'
<1> SUFFICES ASSUME TypeOK, [Next]_vars PROVE TypeOK'
  OBVIOUS
<1>1. CASE \E c \in Customers, t \in Times, u \in Uids \cup {NoUid},
             ev \in EvTypes \cup {BadEvType}, ok \in BOOLEAN :
             InsertLogline(c, t, u, ev, ok)
  BY <1>1, InsertTypeOK
<1>2. CASE \E t \in StreamTimes : FlushBegin(t)
  BY <1>2 DEF FlushBegin, TypeOK, store
<1>3. CASE \E u \in Uids, ok \in BOOLEAN : FlushSession(u, ok)
  BY <1>3, FlushSessionTypeOK
<1>4. CASE FlushEnd
  BY <1>4 DEF FlushEnd, TypeOK
<1>5. CASE FlushAbort
  BY <1>5 DEF FlushAbort, TypeOK
<1>6. CASE Restart
  BY <1>6 DEF Restart, TypeOK
<1>7. CASE ImportTimeoutList
  BY <1>7, ImportTypeOK
<1>8. CASE UNCHANGED vars
  BY <1>8 DEF vars, TypeOK
<1>9. QED
  BY <1>1, <1>2, <1>3, <1>4, <1>5, <1>6, <1>7, <1>8 DEF Next

(* Every state the specification reaches is well typed. *)
THEOREM TypeCorrect == Spec => []TypeOK
BY InitTypeOK, NextTypeOK, PTL DEF Spec

-----------------------------------------------------------------------------
(* The deadline index covers the store *)

(* RecordsHaveDeadline holds only together with the type of the state. *)
IInv == TypeOK /\ RecordsHaveDeadline

(* No uid begins with the "__" that importTimeoutList skips.             *)
UnreservedUids == \A u \in Uids : ~BeginsWith(u, ReservedPrefix)

(* For such uids the walk imports every event record. *)
LEMMA UnreservedImported ==
  ASSUME UnreservedUids PROVE \A u \in Uids : Imported(u) = EventsOf(u)
BY DEF UnreservedUids, Imported

LEMMA InitIInv == Init => IInv
BY InitTypeOK DEF Init, IInv, RecordsHaveDeadline

LEMMA InsertIInv ==
  ASSUME IInv,
         NEW c \in Customers, NEW t \in Times, NEW u \in Uids \cup {NoUid},
         NEW ev \in EvTypes \cup {BadEvType}, NEW ok \in BOOLEAN,
         InsertLogline(c, t, u, ev, ok)
  PROVE  RecordsHaveDeadline'
<1>1. CASE Rejected(u, ev) \/ u \notin Shard
  BY <1>1 DEF InsertLogline, IInv, RecordsHaveDeadline
<1>2. CASE ~Rejected(u, ev) /\ u \in Shard
  <2>1. deadlines' = TouchDeadline(deadlines, u,
                                    t + IdleSeconds * MicrosPerSecond)
    BY <1>2 DEF InsertLogline
  <2>2. u \in Uids /\ t + IdleSeconds * MicrosPerSecond \in Nat
    BY <1>2
  <2>3. deadlines \in DeadlineMap
    BY DEF IInv, TypeOK, DeadlineMap
  <2>4. /\ deadlines'[u] # None
        /\ \A v \in Uids : deadlines[v] # None => deadlines'[v] # None
    BY <2>1, <2>2, <2>3, TouchDeadlineEntries
  <2>5. \A e \in events' : e \in events \/ e.uid = u
    <3>1. CASE ok
      BY <1>2, <3>1 DEF InsertLogline
    <3>2. CASE ~ok
      BY <1>2, <3>2 DEF InsertLogline
    <3>3. QED
      BY <3>1, <3>2
  <2>6. booted' = booted
    BY DEF InsertLogline
  <2>7. \A e \in events : e.uid \in Uids
    BY DEF IInv, TypeOK, EventRec
  <2>8. QED
    BY <2>4, <2>5, <2>6, <2>7 DEF IInv, RecordsHaveDeadline
<1>3. QED
  BY <1>1, <1>2

LEMMA FlushSessionIInv ==
  ASSUME IInv, NEW u \in Uids, NEW ok \in BOOLEAN, FlushSession(u, ok)
  PROVE  RecordsHaveDeadline'
<1>1. events' = events \ Scanned(u)
  BY DEF FlushSession
<1>2. ASSUME NEW e \in events', booted'
      PROVE  deadlines'[e.uid] # None
  <2>1. e \in events /\ ~BeginsWith(e.uid, u)
    BY <1>1 DEF Scanned
  <2>2. e.uid # u
    BY <2>1 DEF BeginsWith
  <2>3. deadlines[e.uid] # None
    BY <1>2, <2>1 DEF FlushSession, IInv, RecordsHaveDeadline
  <2>4. QED
    BY <2>1, <2>2, <2>3 DEF FlushSession, IInv, TypeOK, EventRec
<1>3. QED
  BY <1>2 DEF RecordsHaveDeadline

LEMMA ImportIInv ==
  ASSUME IInv, UnreservedUids, ImportTimeoutList
  PROVE  RecordsHaveDeadline'
<1>0. \A v \in Uids : Imported(v) = EventsOf(v)
  BY UnreservedImported
<1>1. PICK first \in [Uids -> events \cup {None}] :
        /\ \A v \in Uids :
             IF EventsOf(v) = {} THEN first[v] = None
             ELSE first[v] \in FirstInKeyOrder(v)
        /\ deadlines' =
             [v \in Uids |->
                IF EventsOf(v) = {} THEN deadlines[v]
                ELSE TouchDeadline(deadlines, v,
                       (first[v].time + IdleSeconds) * MicrosPerSecond)[v]]
  BY <1>0 DEF ImportTimeoutList
<1>2. ASSUME NEW e \in events PROVE deadlines'[e.uid] # None
  <2>1. e.uid \in Uids /\ e \in EventsOf(e.uid)
    BY DEF IInv, TypeOK, EventRec, EventsOf
  <2>2. first[e.uid] \in FirstInKeyOrder(e.uid)
    BY <1>1, <2>1
  <2>3. first[e.uid] \in EventRec
    <3>1. first[e.uid] \in events
      BY <2>2 DEF FirstInKeyOrder, EventsOf
    <3>2. QED
      BY <3>1 DEF IInv, TypeOK
  <2>4. (first[e.uid].time + IdleSeconds) * MicrosPerSecond \in Nat
    BY <2>3 DEF EventRec
  <2>5. TouchDeadline(deadlines, e.uid,
          (first[e.uid].time + IdleSeconds) * MicrosPerSecond)[e.uid] # None
    BY <2>1, <2>4, TouchDeadlineEntries DEF IInv, TypeOK, DeadlineMap
  <2>6. QED
    BY <1>1, <2>1, <2>5
<1>3. QED
  BY <1>2 DEF ImportTimeoutList, RecordsHaveDeadline

LEMMA NextIInv ==
  ASSUME ~FlushTxnMayAbort, UnreservedUids
  PROVE  IInv /\ [Next]_vars => IInv'
<1> SUFFICES ASSUME IInv, [Next]_vars PROVE IInv'
  OBVIOUS
<1>1. TypeOK'
  BY NextTypeOK DEF IInv
<1>2. CASE \E c \in Customers, t \in Times, u \in Uids \cup {NoUid},
             ev \in EvTypes \cup {BadEvType}, ok \in BOOLEAN :
             InsertLogline(c, t, u, ev, ok)
  BY <1>1, <1>2, InsertIInv DEF IInv
<1>3. CASE \E t \in StreamTimes : FlushBegin(t)
  BY <1>1, <1>3 DEF FlushBegin, IInv, RecordsHaveDeadline
<1>4. CASE \E u \in Uids, ok \in BOOLEAN : FlushSession(u, ok)
  BY <1>1, <1>4, FlushSessionIInv DEF IInv
<1>5. CASE FlushEnd
  BY <1>1, <1>5 DEF FlushEnd, IInv, RecordsHaveDeadline
<1>6. CASE FlushAbort
  BY <1>6 DEF FlushAbort
<1>7. CASE Restart
  BY <1>1, <1>7 DEF Restart, IInv, RecordsHaveDeadline
<1>8. CASE ImportTimeoutList
  BY <1>1, <1>8, ImportIInv DEF IInv
<1>9. CASE UNCHANGED vars
  BY <1>1, <1>9 DEF vars, IInv, RecordsHaveDeadline
<1>10. QED
  BY <1>2, <1>3, <1>4, <1>5, <1>6, <1>7, <1>8, <1>9 DEF Next

(* When the caller commits every flush transaction and no uid begins with *)
(* "__", every event record of the store has an entry in                 *)
(* sessions_flush_times_ once importTimeoutList has run: no record is     *)
(* stranded where no flush reads it, even when a uid's scan drains the    *)
(* envelopes.  Both hypotheses are needed: the run MC_LogJoin_abort shows *)
(* an aborted flush stranding records; a "__" uid's records are skipped   *)
(* by importTimeoutList after a restart.                                   *)
THEOREM IndexCoversStore ==
  ASSUME ~FlushTxnMayAbort, UnreservedUids
  PROVE  Spec => []RecordsHaveDeadline
<1>1. Init => IInv
  BY InitIInv
<1>2. IInv /\ [Next]_vars => IInv'
  BY NextIInv
<1>3. IInv => RecordsHaveDeadline
  BY DEF IInv
<1>4. QED
  BY <1>1, <1>2, <1>3, PTL DEF Spec

=============================================================================
