------------------------ MODULE NestedLoopJoin_result ------------------------
(***************************************************************************)
(* The result SQL defines for the join NestedLoopJoin computes, and the    *)
(* property that the cursor returns it.  Kept apart from the cursor so    *)
(* that the cursor's module reaches no recursive operator.                 *)
(***************************************************************************)
EXTENDS NestedLoopJoin, SequencesExt

(* All (base, joined) row pairs, base-major, the order of the two loops.   *)
PairRows ==
  [k \in 1 .. Len(base) * Len(joined) |->
     Fill(base[(k - 1) \div Len(joined) + 1],
          joined[((k - 1) % Len(joined)) + 1])]

(* LEFT OUTER JOIN: every base row with each joined row that matches it,   *)
(* or with NULL when none does; WHERE applies to the joined rows.          *)
OuterRows ==
  FlattenSeq(
    [i \in 1 .. Len(base) |->
       LET m == SelectSeq([k \in 1 .. Len(joined) |->
                             Fill(base[i], joined[k])], JoinCond)
       IN SelectSeq(IF m = <<>> THEN <<Fill(base[i], Null)>> ELSE m,
                    WhereOk)])

(* The result the query asks for: decided by the join type and condition  *)
(* the planner passed, not by the cursor execute() picked.                 *)
Expected ==
  CASE joinType = "OUTER" -> OuterRows
    [] joinType = "INNER" /\ hasCond ->
         SelectSeq(PairRows, LAMBDA r : JoinCond(r) /\ WhereOk(r))
    [] OTHER -> SelectSeq(PairRows, WhereOk)

-----------------------------------------------------------------------------
(* Every row the cursor has returned so far is the next row of the SQL     *)
(* result for the join type asked for, and when next() returns false the  *)
(* result is complete: the state carried in joined_tbl_pos_,               *)
(* joined_tbl_row_found_ and input_buf_ across next() calls, and the       *)
(* INNER-to-CARTESIAN fall-through, lose, repeat or invent no row.         *)
JoinResultCorrect ==
  pc \notin {"init", "error"} =>
    /\ IsPrefix(out, Expected)
    /\ pc = "done" => out = Expected

=============================================================================
