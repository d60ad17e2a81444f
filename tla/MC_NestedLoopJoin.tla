------------------------- MODULE MC_NestedLoopJoin -------------------------
(***************************************************************************)
(* Instance of NestedLoopJoin for TLC: one-column tables over two values,  *)
(* input_map_ = (base column, joined column), an equi-join condition and a *)
(* WHERE clause on the joined column.                                      *)
(***************************************************************************)
EXTENDS NestedLoopJoin_result

MC_Vals == {1, 2}
MC_InputMap == <<0, 1>>

(* ON base.x = joined.y *)
MC_JoinCond(r) == r[1] = r[2]

(* WHERE joined.y != 1 (NULL passes: the model's NULL differs from 1) *)
MC_WhereCond(r) == r[2] # 1

(* Base tables of up to two rows. *)
MC_BaseTables == BoundedSeq(MC_Vals, 2)

(* Joined tables of one to three rows: three rows reach kMaxInMemoryRows. *)
MC_NonEmptyJoinedTables == BoundedSeq(MC_Vals, 3) \ {<<>>}

(* Joined tables of up to two rows, the empty one included. *)
MC_AllJoinedTables == BoundedSeq(MC_Vals, 2)
=============================================================================
