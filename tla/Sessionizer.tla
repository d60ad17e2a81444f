----------------------------- MODULE Sessionizer -----------------------------
(***************************************************************************)
(* What the LogJoin sessionizer promises its downstream reader (spec.md    *)
(* sections 1, 4.4 and 6), with no key layout, deadline index or          *)
(* transaction in sight.                                                   *)
(*                                                                         *)
(*   pending  the events of this shard's users that are not yet            *)
(*            sessionized;                                                 *)
(*   sent     the session envelopes written for downstream pickup.         *)
(*                                                                         *)
(* An event of a shard user is ingested; a set of users' sessions closes   *)
(* at once (one flush): each of those users loses all its pending events,  *)
(* and some of the sessions (those with a customer key, a join that        *)
(* succeeded and dry run off) are sent, each as one envelope carrying      *)
(* exactly that user's pending events, timed at the earliest of them.      *)
(***************************************************************************)
EXTENDS Naturals

CONSTANTS
  Shard,            \* the users this shard sessionizes
  EventIds,         \* identities of events
  EvTypes,          \* event types
  Seconds,          \* event timestamps, in whole seconds
  Customers,        \* customer keys
  MicrosPerSecond   \* envelope times are in micros

VARIABLES pending, sent

vars == <<pending, sent>>

Event == [id : EventIds, uid : Shard, type : EvTypes, time : Seconds]

(* The pending events of user u. *)
PendingOf(u) == {e \in pending : e.uid = u}

(* The time of a session's first event, in micros. *)
FirstSeen(S) ==
  CHOOSE t \in {e.time * MicrosPerSecond : e \in S} :
    \A e \in S : t <= e.time * MicrosPerSecond

(* The envelope of user u's session for customer c. *)
SessionOf(u, c) ==
  [customer |-> c, session_id |-> u,
   time |-> FirstSeen(PendingOf(u)), events |-> PendingOf(u)]

Init ==
  /\ pending = {}
  /\ sent = {}

(* An event of a shard user joins its user's open session. *)
Ingest(e) ==
  /\ pending' = pending \cup {e}
  /\ UNCHANGED sent

(* The sessions of the users in F close; those of E are sent, to the      *)
(* customers cs names.                                                     *)
Close(F) ==
  /\ pending' = {e \in pending : e.uid \notin F}
  /\ \E E \in SUBSET {u \in F : PendingOf(u) # {}} :
     \E cs \in [E -> Customers] :
       sent' = sent \cup {SessionOf(u, cs[u]) : u \in E}

Next ==
  \/ \E e \in Event : Ingest(e)
  \/ \E F \in SUBSET Shard : Close(F)

Spec == Init /\ [][Next]_vars

=============================================================================
