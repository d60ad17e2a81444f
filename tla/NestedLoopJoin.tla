--------------------------- MODULE NestedLoopJoin ---------------------------
(***************************************************************************)
(* The nested-loop join operator of the SQL runtime                        *)
(* (src/src/eventql/sql/expressions/table/nested_loop_join.cc).            *)
(*                                                                         *)
(* execute() materialises the joined (right) table in memory and picks a   *)
(* cursor by join type.  Each cursor is a closure over the members         *)
(* joined_tbl_pos_, joined_tbl_row_found_ and input_buf_, so state survives *)
(* from one next() call to the following one.  The model takes one step   *)
(* per iteration of the cursor's loops: Top is the head of the for(;;)     *)
(* body (advance the base cursor when the joined table is exhausted), Scan *)
(* one iteration of the inner while over the joined rows, ScanEnd the exit *)
(* of that while, OuterPost the tail of the outer-join body that emits a   *)
(* matched or a NULL-padded row.  An emitted row is appended to out; "done" *)
(* is the cursor returning false.                                          *)
(*                                                                         *)
(* Data: every table has one column, so input_map_ is a sequence of table  *)
(* indexes (0 = base, 1 = joined); a row of input_buf_ is a function from  *)
(* input positions to values; the join condition and the WHERE clause are  *)
(* predicates on input_buf_; the select list is the identity on input_buf_. *)
(***************************************************************************)
EXTENDS Naturals, Sequences

CONSTANTS
  Vals,             \* the values a column can hold
  Null,             \* SValue{}: the NULL of an unmatched outer row
  InputMap,         \* input_map_: table index of each input position
  JoinCond(_),      \* join_cond_expr_ evaluated on input_buf_
  HasWhere,         \* where_expr_ is not empty
  WhereCond(_),     \* where_expr_ evaluated on input_buf_
  BaseTables,       \* the base tables the planner may hand us
  JoinedTables,     \* the joined tables the planner may hand us
  MaxInMemoryRows   \* kMaxInMemoryRows

ASSUME NullAssumption == Null \notin Vals
ASSUME InputMapAssumption == InputMap \in Seq({0, 1})
ASSUME TablesAssumption ==
  BaseTables \subseteq Seq(Vals) /\ JoinedTables \subseteq Seq(Vals)
ASSUME MaxRowsAssumption == MaxInMemoryRows \in Nat \ {0}

JoinTypes == {"OUTER", "INNER", "CARTESIAN"}

VARIABLES
  base,       \* the rows base_tbl_cursor_ yields, in order
  joined,     \* joined_tbl_data_
  joinType,   \* join_type_
  hasCond,    \* join_cond_expr_ is not empty
  algo,       \* the cursor execute() returned
  pc,         \* where the cursor is: init, top, scan, post, done, error
  baseIdx,    \* rows consumed from base_tbl_cursor_ (base_tbl_row_ = base[baseIdx])
  pos,        \* joined_tbl_pos_
  found,      \* joined_tbl_row_found_
  match,      \* the local `match` of the outer cursor
  buf,        \* input_buf_
  out         \* rows the cursor has returned

vars == <<base, joined, joinType, hasCond, algo, pc, baseIdx, pos, found,
          match, buf, out>>

Positions == 1 .. Len(InputMap)

(* The row input_buf_ holds once the input_map_ loop ran for base row b    *)
(* and joined row j.                                                       *)
Fill(b, j) == [i \in Positions |-> IF InputMap[i] = 0 THEN b ELSE j]

(* The WHERE filter: rows pass when where_expr_ is empty.                  *)
WhereOk(r) == ~HasWhere \/ WhereCond(r)

(* Mutant of Dispatch: an INNER join always falls through to CARTESIAN.    *)
DispatchAlwaysFallThrough(jt, cond) ==
  IF jt = "OUTER" THEN "OUTER" ELSE "CARTESIAN"

(* The switch on join_type_, with INNER falling through to CARTESIAN when  *)
(* there is no join condition.                                             *)
Dispatch(jt, cond) ==
  IF jt = "INNER" /\ ~cond THEN "CARTESIAN" ELSE jt

(* execute(): materialise the joined table, raising when it reaches        *)
(* kMaxInMemoryRows rows, then dispatch.                                   *)
Execute ==
  /\ pc = "init"
  /\ IF Len(joined) >= MaxInMemoryRows
       THEN /\ pc' = "error"
            /\ UNCHANGED algo
       ELSE /\ pc' = "top"
            /\ algo' = Dispatch(joinType, hasCond)
  /\ UNCHANGED <<base, joined, joinType, hasCond, baseIdx, pos, found, match,
                 buf, out>>

(* Mutant of Top: the base cursor is advanced only when joined_tbl_pos_   *)
(* is 0, never when it reached the end of the joined table.               *)
TopNoEndCheck ==
  /\ pc = "top"
  /\ match' = FALSE
  /\ IF pos = 0
       THEN /\ pos' = 0
            /\ found' = IF algo = "OUTER" THEN FALSE ELSE found
            /\ IF baseIdx = Len(base)
                 THEN pc' = "done" /\ UNCHANGED baseIdx
                 ELSE pc' = "scan" /\ baseIdx' = baseIdx + 1
       ELSE /\ pc' = "scan"
            /\ UNCHANGED <<pos, found, baseIdx>>
  /\ UNCHANGED <<base, joined, joinType, hasCond, algo, buf, out>>

(* Mutant of Top: the end of the base table is tested one row late.        *)
TopOffByOne ==
  /\ pc = "top"
  /\ match' = FALSE
  /\ IF pos = 0 \/ pos = Len(joined)
       THEN /\ pos' = 0
            /\ found' = IF algo = "OUTER" THEN FALSE ELSE found
            /\ IF baseIdx > Len(base)
                 THEN pc' = "done" /\ UNCHANGED baseIdx
                 ELSE pc' = "scan" /\ baseIdx' = baseIdx + 1
       ELSE /\ pc' = "scan"
            /\ UNCHANGED <<pos, found, baseIdx>>
  /\ UNCHANGED <<base, joined, joinType, hasCond, algo, buf, out>>

(* Head of the for(;;) body of every cursor: when joined_tbl_pos_ is 0 or  *)
(* at the end, rewind it (the outer cursor also clears                     *)
(* joined_tbl_row_found_) and fetch the next base row, returning false    *)
(* when there is none.  The outer cursor clears `match` in every pass.     *)
Top ==
  /\ pc = "top"
  /\ match' = FALSE
  /\ IF pos = 0 \/ pos = Len(joined)
       THEN /\ pos' = 0
            /\ found' = IF algo = "OUTER" THEN FALSE ELSE found
            /\ IF baseIdx = Len(base)
                 THEN pc' = "done" /\ UNCHANGED baseIdx
                 ELSE pc' = "scan" /\ baseIdx' = baseIdx + 1
       ELSE /\ pc' = "scan"
            /\ UNCHANGED <<pos, found, baseIdx>>
  /\ UNCHANGED <<base, joined, joinType, hasCond, algo, buf, out>>

(* Emit input_buf_ through the select list and return true.                *)
Emit(r) == out' = Append(out, r) /\ pc' = "top"

(* One iteration of the while over the joined rows: fill input_buf_ from   *)
(* the current base row and joined_tbl_data_[joined_tbl_pos_++], then      *)
(*   CARTESIAN: skip on a false WHERE, else return the row;                *)
(*   INNER:     skip on a false join condition or WHERE, else return it;   *)
(*   OUTER:     skip on a false join condition, else record the match and  *)
(*              break out of the while.                                    *)
Scan ==
  /\ pc = "scan"
  /\ pos < Len(joined)
  /\ LET r == Fill(base[baseIdx], joined[pos + 1]) IN
       /\ pos' = pos + 1
       /\ buf' = r
       /\ CASE algo = "CARTESIAN" ->
                 IF WhereOk(r) THEN Emit(r) ELSE UNCHANGED <<out, pc>>
            [] algo = "INNER" ->
                 IF JoinCond(r) /\ WhereOk(r) THEN Emit(r)
                 ELSE UNCHANGED <<out, pc>>
            [] algo = "OUTER" ->
                 IF JoinCond(r)
                   THEN /\ pc' = "post"
                        /\ UNCHANGED out
                   ELSE UNCHANGED <<out, pc>>
       /\ found' = IF algo = "OUTER" /\ JoinCond(r) THEN TRUE ELSE found
       /\ match' = IF algo = "OUTER" /\ JoinCond(r) THEN TRUE ELSE match
  /\ UNCHANGED <<base, joined, joinType, hasCond, algo, baseIdx>>

(* The while ends with joined_tbl_pos_ at the end of the joined table: the *)
(* inner and cartesian cursors go round the for(;;) again, the outer one   *)
(* goes on to its tail.                                                    *)
ScanEnd ==
  /\ pc = "scan"
  /\ pos >= Len(joined)
  /\ pc' = IF algo = "OUTER" THEN "post" ELSE "top"
  /\ UNCHANGED <<base, joined, joinType, hasCond, algo, baseIdx, pos, found,
                 match, buf, out>>

(* The NULL padding of an unmatched outer row: only the positions taken    *)
(* from the joined table are reset; the base positions keep whatever       *)
(* input_buf_ held.                                                        *)
NullPad(b) == [i \in Positions |-> IF InputMap[i] = 1 THEN Null ELSE b[i]]

(* Tail of the outer cursor: on a match, or when no joined row matched     *)
(* this base row, emit (NULL-padded in the second case) unless WHERE       *)
(* rejects it; otherwise go round the for(;;) again.                       *)
OuterPost ==
  /\ pc = "post"
  /\ IF match \/ ~found
       THEN LET r == IF found THEN buf ELSE NullPad(buf) IN
              /\ buf' = r
              /\ IF WhereOk(r) THEN Emit(r) ELSE pc' = "top" /\ UNCHANGED out
       ELSE /\ pc' = "top"
            /\ UNCHANGED <<buf, out>>
  /\ UNCHANGED <<base, joined, joinType, hasCond, algo, baseIdx, pos, found,
                 match>>

(* The constructor's arguments: the tables, the join type and whether a    *)
(* join condition was planned (an OUTER join always has one).  input_buf_  *)
(* starts as input_map.size() NULLs, joined_tbl_pos_ as 0.                 *)
Init ==
  /\ base \in BaseTables
  /\ joined \in JoinedTables
  /\ joinType \in JoinTypes
  /\ hasCond \in BOOLEAN
  /\ joinType = "OUTER" => hasCond
  /\ algo = joinType
  /\ pc = "init"
  /\ baseIdx = 0
  /\ pos = 0
  /\ found = FALSE
  /\ match = FALSE
  /\ buf = [i \in Positions |-> Null]
  /\ out = <<>>

Next == Execute \/ Top \/ Scan \/ ScanEnd \/ OuterPost

Spec == Init /\ [][Next]_vars

(* The consumer keeps calling next() until it returns false.               *)
FairSpec == Spec /\ WF_vars(Next)

-----------------------------------------------------------------------------
(* Every variable holds a value of the kind the cursor keeps there; in     *)
(* particular base_tbl_cursor_ is never advanced past the end of the base  *)
(* table and joined_tbl_pos_ never past the joined table's end.            *)
TypeOK ==
  /\ pc \in {"init", "top", "scan", "post", "done", "error"}
  /\ algo \in JoinTypes
  /\ baseIdx \in 0 .. Len(base)
  /\ pos \in 0 .. Len(joined)
  /\ found \in BOOLEAN /\ match \in BOOLEAN
  /\ buf \in [Positions -> Vals \cup {Null}]
  /\ out \in Seq([Positions -> Vals \cup {Null}])

(* Every cursor eventually returns false or execute() raises: no loop of   *)
(* the cursor spins without consuming a row.                               *)
CursorTerminates == <>(pc \in {"done", "error"})

(* A bound on the steps the cursor can still take.  A base row costs K     *)
(* steps at most; inside a row, with P joined rows left to scan, the       *)
(* cursor at the head of the for(;;), in the while, or at the outer tail   *)
(* is weighted so that each of its moves lands lower.  A row whose scan is *)
(* finished (joined_tbl_pos_ at 0 or at the end) costs one step at the     *)
(* head: fetching the next base row or returning false.                    *)
RowsLeft == Len(joined) - pos
StepCost == 4 * Len(joined) + 4
InRow ==
  CASE pc = "top"  -> IF pos = 0 \/ pos = Len(joined) THEN 1
                      ELSE 4 * RowsLeft + 1
    [] pc = "scan" -> IF RowsLeft = 0 THEN 3 ELSE 4 * RowsLeft
    [] pc = "post" -> 4 * RowsLeft + 2
Rank ==
  CASE pc = "init" -> (Len(base) + 1) * StepCost
    [] pc \in {"done", "error"} -> 0
    [] OTHER -> (Len(base) - baseIdx) * StepCost + InRow

(* Every call into the cursor makes progress: each step of execute() or of *)
(* a cursor loop (the for(;;) head, an iteration or the exit of the while  *)
(* over the joined rows, the outer tail) strictly lowers Rank, a natural   *)
(* number.  So no loop of next() can revisit a state, whatever the join    *)
(* condition and WHERE clause answer: the safety half of termination.      *)
CursorProgress == [][Rank' < Rank]_vars
=============================================================================
