# Formal models of eventql's LogJoin sessionizer and nested-loop join

This directory holds TLA+ models of two parts of the repository. Each model is
checked with TLC on small instances. Theorems about both are proved with
TLAPS for every value of the constants:
- LogJoin is type correct, and its deadline index covers the store;
- it pairs each user's customer record with that user's event records;
- it delivers each event at most once;
- its envelopes carry only their own user's events and are never drained,
  under exactly the uid hypotheses whose failure the violation runs show;
- it implements an abstract sessionizer (`Sessionizer.tla`);
- the join cursor never reads past either table, and each of its steps
  lowers a natural-number rank, so none of its loops can spin.

- **LogJoin** (`src/src/logjoin/LogJoin.cc`) groups tracking-pixel log lines by
  user into sessions. It uses an embedded ordered KV store and an in-memory
  deadline map.
- **NestedLoopJoin** (`src/src/eventql/sql/expressions/table/nested_loop_join.cc`)
  is the SQL runtime's nested-loop join operator.

## 1. The system and its parts

| Part | Code | Model | Status |
|---|---|---|---|
| LogJoin core: ingest, flush, bootstrap | `LogJoin.cc` 29-367 | `LogJoin`, abstractly `Sessionizer` | partly |
| DeadlineIndex (`sessions_flush_times_`) | `LogJoin.cc` 186-193, 210-222, 359-363 | `LogJoin` (`deadlines`) | modelled |
| EventStore: keys `<uid>~<t>~<hex>`, `<uid>~cust`, `__sessionq-…` | `LogJoin.cc` 205-207, 228-280, 317-322 | `LogJoin` (`events`, `cust`, `queue`) | partly |
| ShardPredicate | `LogJoin.cc` 128 | constant `Shard` | modelled |
| JoinTarget | `LogJoin.cc` 300 | choice `targetOk` | partly |
| ParamCodec: pixel param ids | `LogJoin.cc` 369-392 | only the failure of `getPixelParamID` (`paramsOk`) | not modelled |
| NestedLoopJoin | `nested_loop_join.cc` 14-302 | `NestedLoopJoin` (cursor), `NestedLoopJoin_result` (the SQL result) | modelled |
| TrackerServlet, UInt32ColumnWriter, queryplan.h, TSDBNode, ContinuousDomain | — | — | not modelled |

**How the LogJoin parts interact.** A single driver thread owns one LogJoin.
`insertLogline` parses a line and drops it if the uid is outside the shard. It
then *touches* the uid's deadline and writes the event record and the
`<uid>~cust` key into the caller's transaction. `flush(stream_time)` walks the
deadline map. For every uid whose deadline is before `stream_time` it calls
`flushSession` and erases the entry. `flushSession` scans the store from `uid`
while keys begin with `uid`. It collects the customer key and the events and
deletes every key it visits. It then calls the JoinTarget and writes an envelope
under `__sessionq-…`. After a restart, `importTimeoutList` rebuilds the deadline
map from the records left in the store.

**The parts left out, and why:**
- *TrackerServlet*: an HTTP handler whose event push is commented out.
- *The column writer and the headers*: declarations and data formatting only.
- *exportStats*: pure I/O.
- *The byte-level encoding and decoding of event values* (`BinaryMessageReader`,
  `getPixelParamName`): data, not control. Event records are modelled as
  decoded. A value that is *not* an event record is modelled where the scan can
  meet one: an envelope under `__sessionq-`, reached from a uid such as `_`.
  The reads outside the `try` (lines 258-260) succeed on it: a
  `SessionEnvelope` starts with its non-empty customer field, which they read
  as tag, length and bytes. The parameter decode inside the `try` may fail.

## 2. LogJoin (`LogJoin.tla`)

**State.**
- `events`, `cust` and `queue` are the three key families of the one KV store.
- `deadlines` is `sessions_flush_times_`; `None` means the uid has no entry.
- `total`, `invalid` and `joined` are the three counters.
- `booted` records whether `importTimeoutList` has run since the process started.
- `flushAt` is the stream time of the flush in progress.
- `txnBase` is the store as it was when that flush's transaction began.
- `lines` counts `insertLogline` calls; it bounds the model.

A uid is a sequence of byte values. With that, `StringUtil::beginsWith` and the
lexicographic order of keys (`KeyLess`) behave as they do in the code.

**Actions.**
- `InsertLogline(customer, time, uid, evtype, paramsOk)` is both `insertLogline`
  overloads together with `appendToSession`. It covers the early return for a
  uid outside the shard and the `catch` that counts the line invalid.
  - `paramsOk = FALSE` is the `IndexError` of `getPixelParamID`. That error is
    raised *after* the deadline was touched.
  - `TouchDeadline` is the find-then-`emplace` of lines 189-193. An existing key
    is never overwritten.
- `FlushBegin`, `FlushSession(u, targetOk)` and `FlushEnd` are one `flush` call:
  the loop start, one iteration per due uid, and the loop exit.
  - `FlushSession` contains the whole of `flushSession` and `onSession`: the
    prefix scan, the customer key (the last `~cust` key in key order), the
    deletes, the missing-customer return, dry run, the envelope and the
    `joined` increment.
  - The envelope keys share the store with the event keys. `DrainedSets(u)`
    is the set of envelopes the scan from `u` reaches:
    - all of them when `u` is a prefix of `__sessionq-`;
    - some of them when `u` extends it;
    - none otherwise.

    `FlushSession` deletes the envelopes it reaches and counts some of them
    invalid: the decode inside the `try` fails.
- `FlushAbort` is the caller's transaction aborting during a flush. It is
  modelled from the spec (section 7), because the transaction is not under
  `src/`. The store returns to `txnBase`; the in-memory erasures stay.
- `Restart` is a new `LogJoin` object (constructor, lines 29-35): the deadline
  map is empty and the counters are zero. The store survives.
- `ImportTimeoutList` is `importTimeoutList`. Because of `emplace`, each uid gets
  the deadline of its *first* record in key order (`FirstInKeyOrder`). The order
  within one event type is the random hex suffix, so it is a nondeterministic
  choice. Keys beginning with `__` are skipped (`Imported`), and that includes
  the records of a uid that begins with `__`.

**Fairness** (`FairSpec`, used only by the liveness runs). The spec (section 5)
gives LogJoin a single driver thread.
- *Weak fairness* of `ImportTimeoutList`: the process bootstraps at start.
- *Weak fairness* of `FlushStep` and `FlushEnd`: a `flush` call runs its loop
  to the end.
- *Strong fairness* of `LateFlushBegin`, a flush whose stream time is past every
  deadline. Production passes the wall clock as stream time (spec 4.4), so such
  a flush keeps becoming possible. Strong fairness is needed because flushes at
  earlier stream times interleave with it.

No fairness is assumed for inserts, restarts or aborts. The `live` run sets
`FlushTxnMayAbort = FALSE`, because a single abort already breaks
`EventuallyFlushed`: the `abort` run shows that the erase at line 217 comes
before the caller's rollback, so the restored records have no deadline, and
no flush reads them until a restart re-imports them. Restarts are not fair, so
that may never happen. `EventuallyFlushed` is therefore a property of
committing flushes only.

**The abstract specification** (`Sessionizer.tla`). It states what a reader of
the store is promised, with no keys, deadlines or transactions:
- `pending` holds the events not yet sessionized;
- `sent` holds the envelopes;
- `Ingest(e)` adds an event of a shard user;
- `Close(F)` ends the sessions of the users in `F`. Each of them loses all its
  pending events. Some of those sessions are sent, each as one envelope with
  exactly that user's pending events, timed at the first of them.

LogJoin maps to it through `Abs == INSTANCE Sessionizer WITH ...`, and the
mapping shows the *committed* store. While a flush runs, `pending` and `sent`
are `txnBase`'s events and envelopes. So every flush step is a stutter except
`FlushEnd`, which is one `Close`. `FlushAbort` is a stutter too.

**Runs** (`MC_LogJoin.tla`):
- The instance uses `MicrosPerSecond = 2` and `IdleSeconds = 1`, so a deadline
  is `time + 2`.
- There are at most 3 log lines; line times are {0, 1, 3} and flush stream times {2, 4, 6}. The
  stream time 6 passes every deadline, so `LateFlushBegin` is always possible.
- Two uid sets are used:
  - *Prefix* = {u1, u10, u2}, with u1 and u10 in the shard, so that one uid is a
    prefix of another;
  - *Disjoint* = {u1, u3, u2};
  - *Score* = {u1, `_`, u2}, with u1 and `_` in the shard. `_` is a byte prefix
    of `__sessionq-`;
  - *Mixed* = {u1, u10, `_`}, all in the shard: a prefix pair and the `_`
    uid in one instance, for the `store` run.
- Customers are {"", "A"}, so the empty-customer path occurs. The `store` run
  uses {"A"} only, to finish in under 2 minutes; the empty customer is covered
  by the other runs.
- These bounds are enough for every hazard below: two events of one user with
  an early and a late deadline, a flush between them, a restart between two
  lines, and a prefix pair.

| Run | cfg | Result | What it shows |
|---|---|---|---|
| store | `MC_LogJoin.cfg` | pass (3.87M states, ~80 s) | With mixed uids (a prefix pair and `_`), failing targets, aborting flushes, and envelopes drained by the scan, `SessionRecordsPaired` holds: a uid's records and its `~cust` key exist together. `AtMostOnceDelivery` holds: no event is in two envelopes, or in an envelope and still in the store. |
| deadline | `MC_LogJoin_deadline.cfg` | violation of `NoPrematureFlush` | A line of u1 whose params fail still sets u1's deadline from its time. A later event of u1 cannot raise it, because `emplace` keeps the existing entry. A flush at a stream time before that event's own deadline then evicts it. In one trace the deadline is 2, the event at time 1 is idle until 4, and `flush(4)` evicts it. The exact numbers differ between traces. |
| prefix | `MC_LogJoin_prefix.cfg` | violation of `EnvelopeOwnEvents` | `flushSession("u1")` drains u10's records into u1's envelope. |
| joined | `MC_LogJoin_joined.cfg` | violation of `JoinedOnlyOnEnvelope` | `joined_sessions` is incremented when the JoinTarget threw (line 294). |
| abort | `MC_LogJoin_abort.cfg` | violation of `RecordsHaveDeadline` | An aborted flush brings the records back without their deadlines. |
| refines | `MC_LogJoin_refines.cfg` | pass (2.18M states, ~90 s) | With disjoint uids and aborting flushes, LogJoin implements `Sessionizer` (`ImplementsSessionizer == Abs!Spec`). Every envelope carries only its own user's events (`EnvelopeOwnEvents`), and envelopes leave only with a rollback (`EnvelopesNotDrained`). These are the properties the `prefix` and `drain` runs break with other uids. |
| live | `MC_LogJoin_live.cfg` | pass (349k states, ~80 s) | With committing flushes and dry run on, every record of a booted instance has a deadline (`RecordsHaveDeadline`), across restarts and bootstrap. Under `FairSpec`, with restarts at any time, every event of a shard user eventually leaves the store (`EventuallyFlushed`). |
| drain | `MC_LogJoin_drain.cfg` | violation of `EnvelopesNotDrained` | u1's envelope is written, then the scan from `_` deletes it in the same flush, and the transaction commits: the session is lost. |

The violation runs are findings (see `PROJECT.json`). The spec states the first
three properties:
- section 4.4: touch keeps the maximum;
- section 3: the records of a user are the keys prefixed `<uid>~`;
- section 7: the counter is not incremented on JoinTarget failure.

For `abort`, the spec says nothing about the deadlines of an aborted flush.
`drain` contradicts spec 3 (envelopes wait for downstream pickup). The `deadline` finding also covers spec scenario 6: after a restart
a uid's deadline comes from its first record in key order, not its latest
event.

## 3. NestedLoopJoin (`NestedLoopJoin.tla`, `NestedLoopJoin_result.tla`)

**The steps.** `execute()` materialises the joined table. It raises once the
table reaches `kMaxInMemoryRows` rows, then dispatches on the join type: INNER
without a condition falls through to CARTESIAN. Each cursor is a closure whose
state lives in the members `joined_tbl_pos_`, `joined_tbl_row_found_` and
`input_buf_` between `next()` calls. The model takes one step per loop
iteration:
- `Top` is the head of `for(;;)`: it rewinds and fetches a base row, or returns
  false.
- `Scan` is one iteration of the `while` over the joined rows, for each cursor
  kind.
- `ScanEnd` is the exit of that `while`.
- `OuterPost` is the outer cursor's tail, which emits a matched or NULL-padded
  row.

**Data.** Tables have one column over {1, 2}, and `input_map_ = <<0, 1>>`. The
condition is `ON base = joined` and the filter is `WHERE joined != 1`. The
reference result `Expected` (in `NestedLoopJoin_result`, kept apart so that
the cursor's module reaches no recursive operator) is written from the SQL meaning (cartesian, inner,
left outer with WHERE after the join). It depends on the join type and
condition the planner passed, not on the cursor that was picked.

| Run | cfg | Result | What it shows |
|---|---|---|---|
| join_result | `MC_NestedLoopJoin.cfg` | pass | Base tables of 0-2 rows and joined tables of 1-3 rows (3 hits the limit). `JoinResultCorrect` holds: every row returned so far is the next row of `Expected`, and `Expected` is complete when `next()` returns false. |
| join_terminates | `MC_NestedLoopJoin_live.cfg` | pass | Under `WF_vars(Next)`, every cursor ends (`CursorTerminates`), and every step lowers the cursor's rank (`CursorProgress`). |
| join_empty | `MC_NestedLoopJoin_empty.cfg` | violation | With an empty joined table, the outer cursor's NULL padding (lines 259-271) keeps the base positions of `input_buf_` as they were. The scan never filled them, so a LEFT JOIN returns `<<NULL, NULL>>` instead of `<<b, NULL>>`. |

**Why the fairness holds.** The fairness is weak fairness of `Next`. It is
justified because the cursor is driven by the query's consumer, which calls
`next()` until it returns false. A run ends in `done` or `error`, where the
cursor really stops, so deadlock checking is off in these cfgs.

## 4. Mutants

Each property of a passing run is broken by one plausible bug in the code it is
about. The mutant operators sit just before the definitions they replace:

| Mutant | Bug it stands for | Property it breaks |
|---|---|---|
| `RejectedNoEvType` | forgets the event-type check | `TypeOK` (store) |
| `FlushSessionOwnCust` | clears only the flushed uid's own `~cust` key | `SessionRecordsPaired` |
| `FlushSessionNoDelete` | the scan forgets `cursor->del()` | `AtMostOnceDelivery` (store); `ImplementsSessionizer` (refines) |
| `TouchDeadlineNoInsert` | a touch that never inserts | `RecordsHaveDeadline` (live) |
| `DueSeconds` | compares deadlines (micros) with the stream time in seconds | `EventuallyFlushed` (live) |
| `ScannedNoStop` | the scan loop lost its `beginsWith` stop test | `EnvelopeOwnEvents` (refines) |
| `EmitSessionFixedKey` | the envelope key lost its random suffix, so each write overwrites the last | `EnvelopesNotDrained` (refines) |
| `TopOffByOne` | reads past the end of the base table | `TypeOK` (NestedLoopJoin) |
| `DispatchAlwaysFallThrough` | INNER always treated as CARTESIAN | `JoinResultCorrect` |
| `TopNoEndCheck` | rewinds only at position 0 | `CursorTerminates`, `CursorProgress` |

## 5. What is proved (`LogJoin_proofs.tla`, `LogJoin_refinement.tla`, `LogJoin_delivery.tla`, `NestedLoopJoin_proofs.tla`)

- **`TypeCorrect`**: `Spec => []TypeOK`, for all constants satisfying the
  module's named assumptions. These are: uids are non-empty byte sequences
  without `~`; `MicrosPerSecond` is a positive natural; `None` is not a number
  and `NoCust` is not a customer.
  - The proof has one lemma per action.
  - Two lemmas about `TouchDeadline` carry it: it returns a deadline map, and it
    gives an entry to the touched uid without removing any.
- **`IndexCoversStore`**: assuming `~FlushTxnMayAbort` and `UnreservedUids`,
  `Spec => []RecordsHaveDeadline`. `UnreservedUids` says no uid begins with
  `__`. A uid such as `_`, whose scan drains envelopes, is allowed: envelopes
  are not event records.
  - `RecordsHaveDeadline` is not inductive alone: the proof needs the records
    and deadlines to be well typed. So the inductive invariant is
    `IInv == TypeOK /\ RecordsHaveDeadline`, checked first by TLC on the `live` run's instance.
  - Insert adds a record only after touching its uid.
  - FlushSession erases the deadline of `u` and removes every record with a uid
    that *begins with* `u`, `u`'s own included.
  - For unreserved uids, bootstrap gives every uid with records a deadline
    (`UnreservedImported`).
  - Restart sets `booted` to FALSE, so the invariant holds vacuously until
    bootstrap.
  - Each hypothesis is needed. Without the one on aborts, the `abort` run fails;
    without `UnreservedUids`, a `__` uid's records survive a restart with no
    deadline, since `importTimeoutList` skips `__` keys (hazard at
    `LogJoin.cc:344`).
- **`Refinement`**: assuming `DisjointUids` (no uid is a byte prefix of
  another) and `UndrainedUids` (no scan reaches an envelope key),
  `Spec => ImplementsSessionizer`. No hypothesis on aborts is needed.
  - The inductive invariant `RInv` is checked first by TLC on the `refines`
    instance. Its key conjunct `FlushPartial` says that while a flush runs, its
    partial result is already a `Close` of its base:
    - the store is `txnBase` minus whole users;
    - every envelope written so far (`FlushedSession`) is the whole base session
      of one of those users: its events, its first time, a non-empty customer
      key, and an erased deadline;
    - at most one envelope is written per user.
  - `FlushSessionPartial` shows that one flushSession keeps this. The erased
    deadline is what rules out a second envelope for the same user.
  - `FlushEndRefines` then builds the `Close` witness from the envelopes.
  - `FirstSeenIsMin` shows the minimum `EmitSession` picks is the abstract
    `FirstSeen`.
  - The `prefix` and `drain` runs show neither hypothesis can be dropped.

- **`RecordsPaired`**: `Spec => []SessionRecordsPaired`, with no hypothesis
  beyond the named assumptions. Prefix uids and aborts are included.
  - The inductive invariant `PInv` adds the same pairing for `txnBase`, the
    store a rollback restores. Without it, the rollback step cannot be shown to
    keep the pairing.
  - flushSession's prefix scan clears both kinds of record for every uid
    beginning with `u` (`FlushSessionStore`). So for each uid both go, or
    neither.
- **`DeliveredOnce`**: `Spec => []AtMostOnceDelivery`, with no hypothesis.
  - The inductive invariant `DInv` adds the same for `txnBase`. It also adds
    `IdsBelow`: every stored or sent event has an identity below `lines`. So the
    record insertLogline adds is in no envelope.
  - `FlushSessionQueue`: flushSession writes at most one envelope, carrying
    exactly the records it deletes in the same step.
  - A scan that drains envelopes only removes them. A prefix scan takes another
    user's events, but it still deletes them. So neither duplicates an event.
- **`OwnEnvelopes`**: assuming `DisjointUids`, `Spec => []EnvelopeOwnEvents`.
  The inductive invariant `OInv` holds for the queue and for `txnBase[3]`.
  Under `DisjointUids`, `Scanned(u) = EventsOf(u)` (`ScannedIsOwn`). The
  `prefix` run is the counterexample without the hypothesis. The `refines` run
  checks the property on disjoint uids.
- **`NoDrain`**: assuming `UndrainedUids`, `Spec => EnvelopesNotDrained`. This
  is an action property and needs no invariant. Every step either keeps the
  queue (`UndrainedKeeps`) or restores `txnBase[3]` and ends the flush. The
  `drain` run is the counterexample without the hypothesis. The `refines` run
  checks the property on undrained uids.
- **`CursorTypeCorrect`** (NestedLoopJoin): `Spec => []TypeOK`, for every table,
  join type, join condition and WHERE clause.
  - The inductive invariant `CInv` adds that the tables are sequences of
    values and that the join type is one of the three.
  - It also adds `RowFetched`: while the cursor scans or emits, or whenever
    `joined_tbl_pos_` is not rewound, a base row has been fetched
    (`baseIdx \in 1..Len(base)`). Without it, `Scan`'s read of
    `base[baseIdx]` cannot be shown to yield a value.
  - `ScanEffect` splits `Scan` by cursor kind.
- **`CursorProgresses`** (NestedLoopJoin): `Spec => CursorProgress /\ [](Rank \in Nat)`,
  where `CursorProgress` is `[][Rank' < Rank]_vars`, for every table, join type, join condition and
  WHERE clause. `Rank` is a natural number: `StepCost = 4*Len(joined)+4` per
  base row still to fetch, plus `InRow`, the cost of the current row, which
  weighs where the cursor is (head of the `for(;;)`, inside the `while`,
  outer tail) against the joined rows left to scan.
  - One lemma per action (`ExecuteRank`, `TopRank`, `ScanRank`,
    `ScanEndRank`, `OuterPostRank`) shows the action lowers `Rank`; no step
    of `Next` is a stutter.
  - They rest on `CInv`, strengthened by `Fresh` (before `execute()`,
    `baseIdx = 0` and `joined_tbl_pos_ = 0`), on `RankNat` (`CInv` makes
    `Rank` a natural number) and on `CostShift`: fetching a
    base row moves one `StepCost` from the rows still to fetch to the
    current row.
  - This is the safety half of `CursorTerminates`. A strictly decreasing
    natural number means no behaviour of `Next` is infinite, so with
    `WF_vars(Next)` the cursor reaches `done` or `error`. That last
    fairness step is TLC's (see below). The `TopNoEndCheck` mutant breaks
    `CursorProgress`: the head re-enters the `while` at the end of the
    joined table.

The strengthened invariants `PInv`, `DInv` and `OInv` were checked first by
TLC: `PInv` and `DInv` on the `store` instance (3.87M states), `OInv` on the
*Score* uids with aborts.

Only TLC checks the following:
- the liveness properties (`CursorTerminates`, `EventuallyFlushed`): TLAPS does
  not reason about ENABLED and fairness;
- `JoinResultCorrect`. Its reference result is built from `SelectSeq` and
  `FlattenSeq`. Relating the cursor's output to them needs induction over
  sequences, which the installed provers cannot instantiate.
  `NestedLoopJoin_result` also reaches recursive operators through
  `SequencesExt`.

## 6. Not yet modelled (plan)

- a proof of `EventuallyFlushed` is out of TLAPS's reach (fairness). The `live`
  run turns dry run on to stay under 2 minutes; with dry run off (envelopes
  written) the same instance passes in about 4 minutes and is kept out of the
  runs for time;
- the cursor left open when a store error leaves the scan loop (line 278):
  cursors and store I/O errors are not state of the model;
- the junk a decoded envelope adds to a `_` uid's session, when the decode
  inside the `try` half-succeeds;
- a proof of `JoinResultCorrect` for the CARTESIAN cursor, whose output is a
  `SelectSeq` of a prefix of `PairRows`, given lemmas about `SelectSeq` on
  `Append`.
