----------------------------- MODULE MC_LogJoin -----------------------------
(***************************************************************************)
(* Small instances of LogJoin for TLC.                                     *)
(*                                                                         *)
(* Uids are the byte strings "u1", "u10" and "u2": "u1" is a byte prefix   *)
(* of "u10" (the case flushSession's beginsWith scan gets wrong) and "u2"  *)
(* is outside the shard.  Times are in micros with two micros per second,  *)
(* so that the truncation to whole seconds of the stored timestamp shows.  *)
(***************************************************************************)
EXTENDS LogJoin

MC_U1 == <<117, 49>>
MC_U10 == <<117, 49, 48>>
MC_U2 == <<117, 50>>
MC_U3 == <<117, 51>>

(* "u1", "u10" and "u2"; the shard accepts "u1" and "u10". *)
MC_PrefixUids == {MC_U1, MC_U10, MC_U2}
MC_PrefixShard == {MC_U1, MC_U10}

(* "u1", "u3" and "u2": no uid is a byte prefix of another. *)
MC_DisjointUids == {MC_U1, MC_U3, MC_U2}
MC_DisjointShard == {MC_U1, MC_U3}

(* "_": a byte prefix of the envelope keys "__sessionq-<hex128>". *)
MC_UScore == <<95>>

(* "u1", "_" and "u2"; the shard accepts "u1" and "_". *)
MC_ScoreUids == {MC_U1, MC_UScore, MC_U2}
MC_ScoreShard == {MC_U1, MC_UScore}

(* "u1", "u10" and "_", all in the shard: a prefix pair and a uid whose  *)
(* scan reaches the envelope keys.                                         *)
MC_MixedUids == {MC_U1, MC_U10, MC_UScore}

(* 'c' and 'q' *)
MC_EvTypes == {99, 113}
MC_Customers == {"", "A"}

(* One non-empty customer key. *)
MC_OneCustomer == {"A"}
MC_Times == {0, 1, 3}
MC_StreamTimes == {2, 4, 6}
=============================================================================
