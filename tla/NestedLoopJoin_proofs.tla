------------------------- MODULE NestedLoopJoin_proofs -------------------------
(***************************************************************************)
(* Proofs about the nested-loop join cursor for every value of its         *)
(* constants: whatever the tables, the join type and the conditions, the   *)
(* cursor's positions stay inside the tables it reads, and every step of  *)
(* the cursor lowers a well-founded rank.                                  *)
(***************************************************************************)
EXTENDS NestedLoopJoin, TLAPS

USE NullAssumption, InputMapAssumption, TablesAssumption, MaxRowsAssumption

Row == [Positions -> Vals \cup {Null}]

(* The base row the cursor reads is a row of the base table: while it     *)
(* scans the joined table or emits, and whenever joined_tbl_pos_ is not    *)
(* rewound, base_tbl_row_ has been fetched.                                *)
RowFetched ==
  (pc \in {"scan", "post"} \/ pos # 0) => baseIdx \in 1 .. Len(base)

(* Before execute() no row has been fetched and no joined row scanned.    *)
Fresh == pc = "init" => baseIdx = 0 /\ pos = 0

CInv ==
  /\ TypeOK
  /\ base \in Seq(Vals) /\ joined \in Seq(Vals) /\ joinType \in JoinTypes
  /\ RowFetched
  /\ Fresh

(* input_buf_ filled from a base and a joined value is a row. *)
LEMMA FillRow ==
  ASSUME NEW b \in Vals, NEW j \in Vals \cup {Null}
  PROVE  Fill(b, j) \in Row
BY DEF Fill, Row, Positions

(* Its NULL padding is a row too. *)
LEMMA NullPadRow ==
  ASSUME NEW b \in Row
  PROVE  NullPad(b) \in Row
BY DEF NullPad, Row, Positions

LEMMA InitCInv == Init => CInv
<1> SUFFICES ASSUME Init PROVE CInv
  OBVIOUS
<1>1. base \in Seq(Vals) /\ joined \in Seq(Vals) /\ joinType \in JoinTypes
  BY DEF Init
<1>2. buf \in Row
  BY DEF Init, Row
<1>3. out \in Seq(Row) /\ algo \in JoinTypes
  BY DEF Init
<1>4. pc = "init" /\ baseIdx = 0 /\ pos = 0
  BY DEF Init
<1>5. found \in BOOLEAN /\ match \in BOOLEAN
  BY Zenon DEF Init
<1>6. QED
  BY <1>1, <1>2, <1>3, <1>4, <1>5 DEF CInv, TypeOK, RowFetched, Fresh, Row

LEMMA ExecuteCInv == CInv /\ Execute => CInv'
<1> SUFFICES ASSUME CInv, Execute PROVE CInv'
  OBVIOUS
<1>1. UNCHANGED <<base, joined, joinType, baseIdx, pos, found, match, buf,
                  out>>
  BY DEF Execute
<1>2. pc' \in {"top", "error"}
  BY DEF Execute
<1>3. algo' \in JoinTypes
  <2>1. CASE Len(joined) >= MaxInMemoryRows
    BY <2>1 DEF Execute, CInv, TypeOK
  <2>2. CASE ~(Len(joined) >= MaxInMemoryRows)
    <3>1. algo' = Dispatch(joinType, hasCond)
      BY <2>2 DEF Execute
    <3>2. QED
      BY <3>1 DEF Dispatch, CInv, JoinTypes
  <2>3. QED
    BY <2>1, <2>2
<1>4. QED
  BY <1>1, <1>2, <1>3 DEF CInv, TypeOK, RowFetched, Fresh

LEMMA TopCInv == CInv /\ Top => CInv'
<1> SUFFICES ASSUME CInv, Top PROVE CInv'
  OBVIOUS
<1>1. UNCHANGED <<base, joined, joinType, algo, buf, out>>
  BY DEF Top
<1>2. found' \in BOOLEAN /\ match' \in BOOLEAN
  BY Zenon DEF Top, CInv, TypeOK
<1>3. CASE pos = 0 \/ pos = Len(joined)
  <2>1. pos' = 0
    BY <1>3 DEF Top
  <2>2. CASE baseIdx = Len(base)
    <3>1. pc' = "done" /\ baseIdx' = baseIdx
      BY <1>3, <2>2 DEF Top
    <3>2. QED
      BY <1>1, <1>2, <2>1, <3>1 DEF CInv, TypeOK, RowFetched, Fresh
  <2>3. CASE baseIdx # Len(base)
    <3>1. pc' = "scan" /\ baseIdx' = baseIdx + 1
      BY <1>3, <2>3 DEF Top
    <3>2. baseIdx + 1 \in 1 .. Len(base)
      BY <2>3 DEF CInv, TypeOK
    <3>3. QED
      BY <1>1, <1>2, <2>1, <3>1, <3>2 DEF CInv, TypeOK, RowFetched, Fresh
  <2>4. QED
    BY <2>2, <2>3
<1>4. CASE ~(pos = 0 \/ pos = Len(joined))
  <2>1. pc' = "scan" /\ UNCHANGED <<pos, baseIdx>>
    BY <1>4 DEF Top
  <2>2. baseIdx \in 1 .. Len(base)
    BY <1>4 DEF CInv, RowFetched
  <2>3. QED
    BY <1>1, <1>2, <2>1, <2>2 DEF CInv, TypeOK, RowFetched, Fresh
<1>5. QED
  BY <1>3, <1>4

(* What one iteration of the scan does to out and pc, by cursor. *)
LEMMA ScanEffect ==
  ASSUME NEW r, algo \in JoinTypes, Scan,
         r = Fill(base[baseIdx], joined[pos + 1])
  PROVE  /\ out' = out \/ out' = Append(out, r)
         /\ pc' \in {"top", "scan", "post"}
<1>1. CASE algo = "CARTESIAN"
  BY <1>1 DEF Scan, Emit
<1>2. CASE algo = "INNER"
  BY <1>2 DEF Scan, Emit
<1>3. CASE algo = "OUTER"
  BY <1>3 DEF Scan, Emit
<1>4. QED
  BY <1>1, <1>2, <1>3 DEF JoinTypes

LEMMA ScanCInv == CInv /\ Scan => CInv'
<1> SUFFICES ASSUME CInv, Scan PROVE CInv'
  OBVIOUS
<1>1. PICK r : r = Fill(base[baseIdx], joined[pos + 1])
  OBVIOUS
<1>2. baseIdx \in 1 .. Len(base) /\ pos \in 0 .. (Len(joined) - 1)
  BY DEF Scan, CInv, TypeOK, RowFetched
<1>3. r \in Row
  <2>1. base[baseIdx] \in Vals /\ joined[pos + 1] \in Vals
    BY <1>2 DEF CInv
  <2>2. QED
    BY <1>1, <2>1, FillRow
<1>4. /\ buf' = r /\ pos' = pos + 1
      /\ UNCHANGED <<base, joined, joinType, algo, baseIdx>>
  BY <1>1 DEF Scan
<1>5. /\ out' = out \/ out' = Append(out, r)
      /\ pc' \in {"top", "scan", "post"}
  BY <1>1, ScanEffect DEF CInv, TypeOK
<1>6. out \in Seq(Row)
  BY DEF CInv, TypeOK, Row
<1>7. out' \in Seq(Row)
  BY <1>3, <1>5, <1>6
<1>8. found' \in BOOLEAN /\ match' \in BOOLEAN
  BY Zenon DEF Scan, CInv, TypeOK
<1>9. pos' \in 1 .. Len(joined)
  BY <1>2, <1>4
<1>10. QED
  BY <1>2, <1>3, <1>4, <1>5, <1>7, <1>8, <1>9
  DEF CInv, TypeOK, RowFetched, Fresh, Row

LEMMA ScanEndCInv == CInv /\ ScanEnd => CInv'
<1> SUFFICES ASSUME CInv, ScanEnd PROVE CInv'
  OBVIOUS
<1>1. UNCHANGED <<base, joined, joinType, algo, baseIdx, pos, found, match,
                  buf, out>>
  BY DEF ScanEnd
<1>2. pc' \in {"top", "post"} /\ pc = "scan"
  BY DEF ScanEnd
<1>3. QED
  BY <1>1, <1>2 DEF CInv, TypeOK, RowFetched, Fresh

LEMMA OuterPostCInv == CInv /\ OuterPost => CInv'
<1> SUFFICES ASSUME CInv, OuterPost PROVE CInv'
  OBVIOUS
<1>1. buf \in Row
  BY DEF CInv, TypeOK, Row
<1>2. /\ UNCHANGED <<base, joined, joinType, algo, baseIdx, pos, found, match>>
      /\ pc = "post" /\ pc' = "top"
  BY DEF OuterPost, Emit
<1>3. buf' \in Row /\ out' \in Seq(Row)
  <2>1. CASE match \/ ~found
    <3>1. PICK r : r = IF found THEN buf ELSE NullPad(buf)
      OBVIOUS
    <3>2. r \in Row
      BY <1>1, <3>1, NullPadRow
    <3>3. buf' = r /\ (out' = out \/ out' = Append(out, r))
      BY <2>1, <3>1 DEF OuterPost, Emit
    <3>4. out \in Seq(Row)
      BY DEF CInv, TypeOK, Row
    <3>5. QED
      BY <3>2, <3>3, <3>4
  <2>2. CASE ~(match \/ ~found)
    BY <1>1, <2>2 DEF OuterPost, CInv, TypeOK, Row
  <2>3. QED
    BY <2>1, <2>2
<1>4. QED
  BY <1>2, <1>3 DEF CInv, TypeOK, RowFetched, Fresh, Row

LEMMA NextCInv == CInv /\ [Next]_vars => CInv'
<1> SUFFICES ASSUME CInv, [Next]_vars PROVE CInv'
  OBVIOUS
<1>1. CASE UNCHANGED vars
  BY <1>1 DEF vars, CInv, TypeOK, RowFetched, Fresh
<1>2. QED
  BY <1>1, ExecuteCInv, TopCInv, ScanCInv, ScanEndCInv, OuterPostCInv DEF Next

-----------------------------------------------------------------------------
(* Progress: every step of the cursor lowers Rank.                        *)

(* Inside a base row the rank is the cost of the rows still to fetch plus *)
(* the cost of the current row.                                            *)
LEMMA RankInRow ==
  ASSUME pc \in {"top", "scan", "post"}
  PROVE  Rank = (Len(base) - baseIdx) * StepCost + InRow
BY DEF Rank

(* Fetching a base row moves its cost from the rows still to fetch to the *)
(* current one.                                                            *)
LEMMA CostShift ==
  ASSUME NEW l \in Nat, NEW b \in 0 .. l - 1, NEW k \in Nat
  PROVE  (l - b) * k = (l - (b + 1)) * k + k
BY SMT

(* The rank is a natural number in every reachable state, so it cannot    *)
(* decrease for ever.                                                      *)
LEMMA RankNat == CInv => Rank \in Nat
<1> SUFFICES ASSUME CInv PROVE Rank \in Nat
  OBVIOUS
<1> DEFINE L == Len(base)  J == Len(joined)  K == StepCost
<1>1. /\ L \in Nat /\ J \in Nat /\ K \in Nat
      /\ baseIdx \in 0 .. L /\ pos \in 0 .. J
      /\ pc \in {"init", "top", "scan", "post", "done", "error"}
  BY DEF CInv, TypeOK, StepCost
<1>2. CASE pc = "init"
  BY <1>1, <1>2 DEF Rank
<1>3. CASE pc \in {"done", "error"}
  BY <1>3 DEF Rank
<1>4. CASE pc \in {"top", "scan", "post"}
  <2>1. (L - baseIdx) * K \in Nat
    BY <1>1
  <2>2. InRow \in Nat
    BY <1>1, <1>4 DEF InRow, RowsLeft
  <2>3. QED
    BY <1>4, <2>1, <2>2, RankInRow
<1>5. QED
  BY <1>1, <1>2, <1>3, <1>4

LEMMA ExecuteRank == CInv /\ Execute => Rank' < Rank
<1> SUFFICES ASSUME CInv, Execute PROVE Rank' < Rank
  OBVIOUS
<1> DEFINE L == Len(base)  K == StepCost
<1>1. L \in Nat /\ K \in Nat /\ K >= 4
  BY DEF CInv, StepCost
<1>2. Rank = (L + 1) * K
  BY DEF Execute, Rank
<1>3. (L + 1) * K = L * K + K /\ L * K \in Nat
  BY <1>1
<1>4. CASE pc' = "error"
  <2>1. Rank' = 0
    BY <1>4 DEF Rank
  <2>2. QED
    BY <1>1, <1>2, <1>3, <2>1
<1>5. CASE pc' = "top"
  <2>1. UNCHANGED <<base, joined, baseIdx, pos>> /\ baseIdx = 0 /\ pos = 0
    BY DEF Execute, CInv, Fresh
  <2>2. Rank' = L * K + 1
    BY <1>5, <2>1 DEF Rank, InRow, StepCost
  <2>3. QED
    BY <1>1, <1>2, <1>3, <2>2
<1>6. QED
  BY <1>4, <1>5 DEF Execute

LEMMA TopRank == CInv /\ Top => Rank' < Rank
<1> SUFFICES ASSUME CInv, Top PROVE Rank' < Rank
  OBVIOUS
<1> DEFINE L == Len(base)  J == Len(joined)  K == StepCost
<1>1. /\ L \in Nat /\ J \in Nat /\ K = 4 * J + 4
      /\ baseIdx \in 0 .. L /\ pos \in 0 .. J
      /\ UNCHANGED <<base, joined>> /\ pc = "top"
  BY DEF CInv, TypeOK, StepCost, Top
<1>2. (L - baseIdx) * K \in Nat
  BY <1>1
<1>3. CASE pos = 0 \/ pos = J
  <2>1. Rank = (L - baseIdx) * K + 1
    BY <1>1, <1>3, RankInRow DEF InRow
  <2>2. CASE baseIdx = L
    <3>1. pc' = "done"
      BY <1>3, <2>2 DEF Top
    <3>2. QED
      BY <1>2, <2>1, <3>1 DEF Rank
  <2>3. CASE baseIdx # L
    <3>1. pc' = "scan" /\ baseIdx' = baseIdx + 1 /\ pos' = 0
      BY <1>3, <2>3 DEF Top
    <3>2. Rank' = (L - (baseIdx + 1)) * K + (IF J = 0 THEN 3 ELSE 4 * J)
      BY <1>1, <3>1 DEF Rank, InRow, RowsLeft, StepCost
    <3>3. (L - baseIdx) * K = (L - (baseIdx + 1)) * K + K
      BY <1>1, <2>3, CostShift
    <3>4. (L - (baseIdx + 1)) * K \in Nat
      BY <1>1, <2>3
    <3>5. PICK X \in Nat : X = (L - (baseIdx + 1)) * K
      BY <3>4
    <3>6. PICK c \in Nat : c = IF J = 0 THEN 3 ELSE 4 * J
      BY <1>1
    <3>7. Rank' = X + c /\ Rank = X + K + 1 /\ c < K + 1
      BY <1>1, <2>1, <3>2, <3>3, <3>5, <3>6
    <3>8. QED
      BY <1>1, <3>7
  <2>4. QED
    BY <2>2, <2>3
<1>4. CASE ~(pos = 0 \/ pos = J)
  <2>1. pc' = "scan" /\ UNCHANGED <<pos, baseIdx>>
    BY <1>4 DEF Top
  <2>2. Rank = (L - baseIdx) * K + (4 * (J - pos) + 1)
    BY <1>1, <1>4, RankInRow DEF InRow, RowsLeft
  <2>3. Rank' = (L - baseIdx) * K + 4 * (J - pos)
    BY <1>1, <1>4, <2>1 DEF Rank, InRow, RowsLeft, StepCost
  <2>4. QED
    BY <1>1, <1>2, <2>2, <2>3
<1>5. QED
  BY <1>3, <1>4

LEMMA ScanRank == CInv /\ Scan => Rank' < Rank
<1> SUFFICES ASSUME CInv, Scan PROVE Rank' < Rank
  OBVIOUS
<1> DEFINE L == Len(base)  J == Len(joined)  K == StepCost
<1>1. /\ L \in Nat /\ J \in Nat /\ K \in Nat
      /\ baseIdx \in 1 .. L /\ pos \in 0 .. J - 1
      /\ UNCHANGED <<base, joined, baseIdx>> /\ pos' = pos + 1
      /\ pc = "scan"
  BY DEF CInv, TypeOK, RowFetched, StepCost, Scan
<1>2. pc' \in {"top", "scan", "post"}
  <2>1. PICK r : r = Fill(base[baseIdx], joined[pos + 1])
    OBVIOUS
  <2>2. QED
    BY <2>1, ScanEffect DEF CInv, TypeOK
<1>3. PICK X \in Nat : X = (L - baseIdx) * K
  BY <1>1
<1>4. Rank = X + 4 * (J - pos)
  BY <1>1, <1>3, RankInRow DEF InRow, RowsLeft
<1>5. PICK v \in Nat : v = InRow'
  BY <1>1, <1>2 DEF InRow, RowsLeft
<1>6. Rank' = X + v
  BY <1>1, <1>2, <1>3, <1>5 DEF Rank, StepCost
<1>7. v < 4 * (J - pos)
  <2>1. CASE pc' = "top"
    BY <1>1, <1>5, <2>1 DEF InRow, RowsLeft
  <2>2. CASE pc' = "scan"
    BY <1>1, <1>5, <2>2 DEF InRow, RowsLeft
  <2>3. CASE pc' = "post"
    BY <1>1, <1>5, <2>3 DEF InRow, RowsLeft
  <2>4. QED
    BY <1>2, <2>1, <2>2, <2>3
<1>8. QED
  BY <1>1, <1>4, <1>6, <1>7

LEMMA ScanEndRank == CInv /\ ScanEnd => Rank' < Rank
<1> SUFFICES ASSUME CInv, ScanEnd PROVE Rank' < Rank
  OBVIOUS
<1> DEFINE L == Len(base)  J == Len(joined)  K == StepCost
<1>1. /\ L \in Nat /\ J \in Nat /\ K \in Nat
      /\ baseIdx \in 1 .. L /\ pos = J
      /\ UNCHANGED <<base, joined, baseIdx, pos>>
      /\ pc = "scan" /\ pc' \in {"top", "post"}
  BY DEF CInv, TypeOK, RowFetched, StepCost, ScanEnd
<1>2. PICK X \in Nat : X = (L - baseIdx) * K
  BY <1>1
<1>3. Rank = X + 3
  BY <1>1, <1>2, RankInRow DEF InRow, RowsLeft
<1>4. PICK v \in {1, 2} : v = InRow'
  BY <1>1 DEF InRow, RowsLeft
<1>5. Rank' = X + v
  BY <1>1, <1>2, <1>4 DEF Rank, StepCost
<1>6. QED
  BY <1>3, <1>5

LEMMA OuterPostRank == CInv /\ OuterPost => Rank' < Rank
<1> SUFFICES ASSUME CInv, OuterPost PROVE Rank' < Rank
  OBVIOUS
<1> DEFINE L == Len(base)  J == Len(joined)  K == StepCost
<1>1. /\ L \in Nat /\ J \in Nat /\ K \in Nat
      /\ baseIdx \in 1 .. L /\ pos \in 0 .. J
      /\ UNCHANGED <<base, joined, baseIdx, pos>>
      /\ pc = "post" /\ pc' = "top"
  BY DEF CInv, TypeOK, RowFetched, StepCost, OuterPost, Emit
<1>2. PICK X \in Nat : X = (L - baseIdx) * K
  BY <1>1
<1>3. Rank = X + (4 * (J - pos) + 2)
  BY <1>1, <1>2, RankInRow DEF InRow, RowsLeft
<1>4. PICK v \in Nat : v = InRow' /\ v <= 4 * (J - pos) + 1
  BY <1>1 DEF InRow, RowsLeft
<1>5. Rank' = X + v
  BY <1>1, <1>2, <1>4 DEF Rank, StepCost
<1>6. QED
  BY <1>1, <1>3, <1>4, <1>5

LEMMA NextRank == CInv /\ Next => Rank' < Rank
BY ExecuteRank, TopRank, ScanRank, ScanEndRank, OuterPostRank DEF Next

(* For every base and joined table, join type, join condition and WHERE    *)
(* clause, every state of the cursor is well typed: base_tbl_cursor_ is    *)
(* never advanced past the base table's end (the end test of the for(;;)   *)
(* head), joined_tbl_pos_ never past the joined table's, and each row      *)
(* emitted through input_buf_ is a row of the select list's width.         *)
THEOREM CursorTypeCorrect == Spec => []TypeOK
<1>1. Init => CInv
  BY InitCInv
<1>2. CInv /\ [Next]_vars => CInv'
  BY NextCInv
<1>3. CInv => TypeOK
  BY DEF CInv
<1>4. QED
  BY <1>1, <1>2, <1>3, PTL DEF Spec

(* For all tables, join types, join conditions and WHERE clauses, each  *)
(* step of execute() and of next() strictly lowers Rank: the for(;;) head *)
(* either fetches a base row or enters the while at a joined row not yet  *)
(* scanned, every iteration of the while advances joined_tbl_pos_, and the *)
(* outer tail always goes back to the head.  No loop of the cursor can     *)
(* spin in place, and since Rank is a natural number, no behaviour of    *)
(* steps can go on for ever.                                               *)
THEOREM CursorProgresses == Spec => CursorProgress /\ [](Rank \in Nat)
<1>1. Init => CInv
  BY InitCInv
<1>2. CInv /\ [Next]_vars => CInv'
  BY NextCInv
<1>3. CInv /\ [Next]_vars => [Rank' < Rank]_vars
  BY NextRank
<1>4. CInv => Rank \in Nat
  BY RankNat
<1>5. QED
  BY <1>1, <1>2, <1>3, <1>4, PTL DEF Spec, CursorProgress

=============================================================================
