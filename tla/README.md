# Verification of lite-rpc

This directory holds three kinds of artefact:

- TLA+ models of the repository's source;
- TLC configurations that model-check them on small instances;
- TLAPS proofs, for every value of the constants, of the safety invariants
  that the passing runs check (all but two) and of one refinement.

`PROJECT.json` lists what the README describes, item by item:

- the components and their status;
- the runs;
- the seeded bugs ("mutants") that each property must catch;
- the map from every definition to the source lines it translates;
- the findings and the hazards;
- the theorems.

Every module translates code under `src/`. Names follow the source where
TLA+ allows it.

## 1. The system and how its parts interact

| Component | Source | Module |
|---|---|---|
| Slot aligner, bulk dispatcher, batch confirmation poller, result aggregator | `bench/src/benches/rpc_interface.rs` | `BulkConfirm`, abstract `ConfirmTracker` |
| Single-signature poller and latency compensator | `bench/src/benches/confirmation_slot.rs` | `ConfirmationSlot` |
| Stream fan-out (`spawn_plugger_mpcs_to_broadcast`, `channelize_stream`) | `cluster-endpoints/src/grpc_stream_utils.rs` | `StreamPlugger` |
| Priority-fee statistics (`calculate_supp_stats`) | `block_priofees/src/stats_calculation.rs` | `PrioFeeStats` |
| Postgres block store queries | `blockstore/.../postgres_block_store_query.rs` | `BlockStoreQuery` |
| Configuration loading (`Config::load`) | `lite-rpc/src/cli.rs` | `Config` |
| Stake lookup (`get_stakes_for_identity`) | `core/src/solana_utils.rs` | not modelled (section 6) |
| Stream type aliases | `core/src/types.rs` | not modelled: declarations only |

The two benchmarks run against an RPC endpoint whose ledger moves on its own.

- The batch path is one async task: align to a slot start, send the batch,
  then poll statuses round by round.
- The comparison path spawns two legs per round. Each leg has its own client
  and transaction, and the round joins them.

Every `await` is a point where the ledger can move.

The fan-out tasks connect one source (an mpsc receiver or a gRPC stream) to
many receivers through a bounded tokio broadcast channel. Receivers read at
their own pace, lag, drop out and resubscribe.

The block store query side reads epoch schemas while the block writer keeps
creating schemas and inserting blocks. Each query is several SQL round
trips, and the writer can run between any two of them.

The statistics and the configuration are sequential. What makes them hard
is numeric edges and the order of their early returns, not concurrency.

## 2. Modules

### BulkConfirm (`rpc_interface.rs`)

Constants:

- `N`: the number of transactions.
- `Sigs` and `Sig`: the signature map, assumed injective (`SigUnique`).
- `MaxIter`: the round cap, 100 in the code.
- `MaxAlign`: the aligner cap, 500 in the code.
- `MaxSlot`: the slot bound.
- `MaxDrops`: how often a transaction's fork may be abandoned.

Variables and code:

- `phase` is the task's position.
- `lastSlot`, `ai` and `sendSlot` are `last_slot`, `i` and `send_slot`.
- `outcome` is `batch_sigs_or_fails`.
- `pending` is `pending_status_set`.
- `rmap` is `result_status_map`; the record `Absent` stands for no entry.
- `iteration` is the loop counter.
- `result` is `result_as_vec`.
- `slot`, `ledger` and `drops` are the endpoint.

Actions:

- Aligner: `AlignObserve`, `AlignTimeout`, `AlignRpcError`.
- `Send`: the `join_all` of the sends, the slot read, and the bail if any
  send failed.
- `RoundInterrupted`: a round that meets a below-confirmed status and takes
  `continue 'pooling_loop`. Any subset of the confirmed signatures may
  precede that status in `HashSet` order.
- `RoundComplete`: a round with no such status. It resolves all confirmed
  signatures, then stops or counts the round. A stop folds the timeouts and
  zips the results (`Finish`).
- `StatusError`: the `?` on `get_signature_statuses`.
- The endpoint: `Tick`, `Land`, `Confirm`, `Finalize`, `DropFork`.

The `assert_eq!` and the `expect` are stated as invariants
(`NoConsistencyFault`, `Totality`), so a violation is reported as a
counterexample rather than a panic state.

### ConfirmTracker (abstract) and the refinement

`ConfirmTracker` states what a batch send-and-confirm promises, per
signature, with no rounds, slots or polling:

- The batch is submitted once.
- While the call runs, a tracked signature is resolved as a Success only when
  the ledger shows it confirmed, and at the level the ledger shows.
- The call ends either by failing, or by turning every signature still
  tracked into a Timeout.

`BulkConfirm` instantiates it with a refinement mapping:

- `Batch` is the batch's signatures.
- `accepted` is `SentSigs`.
- `track` is `Track`: pending for a signature in `pending_status_set`,
  otherwise its map entry.
- `verdict` is `Verdict`: running, done or failed from `phase`.

`TrackerSpec == Tracker!Spec` is checked as a `PROPERTY` and proved as a
theorem. Each detailed step corresponds to an abstract one:

| Detailed step | Abstract step |
|---|---|
| the send | the one `Submit` |
| each round | a `Resolve` at the observed confirmed level |
| the final round | a `Close` |
| every RPC error | a `Fail` |
| an aligner step or a slot tick | a stutter |

### ConfirmationSlot (`confirmation_slot.rs`)

Constants:

- `Rounds` is `num_rounds`.
- `Rtts` is the set of possible `getHealth` round trips, as even numbers of
  ticks.
- `TimeoutMs` is `max_timeout_ms`.
- `MaxSlot` bounds the cluster's confirmed slot.
- `UseStats` says whether a `ping_thing_token` is given.
- The assumption `RttsBounded` states that `Rtts` has a least and a greatest
  element. Any finite set of measured round trips has them, and `MaxDelay`
  is computed from them.

Actions:

- `Probe`: the round trips, `create_tx`, the delays and the spawn.
- Per leg, one action per `await`: `LegWake`, `LegSlot`, `LegSend`,
  `LegPoll` and `LegFetch`. An error returned by `?` becomes the default
  result through `unwrap_or_else`.
- `LegPanic`: the `unwrap` at line 155.
- `Join`: `tokio::join!` followed by `a?`/`b?`.
- `Stats`: the two filtered submissions.
- The clock and the cluster.

The clock (`TimeTick`) advances while every running leg is suspended. A leg
is suspended in its sleep, in an RPC call (the slot read, the send or the
fetch), or in its confirm loop before the deadline. The clock advances only
while some leg waits on a timer, that is, sleeps or polls. So
`get_slot_with_commitment` and the send take time, as in the code. A
stretch in which no leg sleeps or polls is measured by nothing the code
reads, so it is left out of `now`.

`MaxTime = MaxDelay + 2 * TimeoutMs` bounds the clock. A leg's RPC calls can
only span the other leg's sleep or confirm loop, so the bound never holds
the clock back. A TLC run checked this with the invariant that the clock
is below `MaxTime` whenever every leg waits and one of them needs time.

The compensation of lines 62-67 is not checked as a property. Between the
sleep and the send, each leg makes one round trip to read the slot (lines
139-141). With static latencies, the transactions therefore arrive
`|rtt_A - rtt_B|` apart. Spec section 4.2 calls the compensation a
heuristic and asks that it be kept as a known approximation, so the project
lists this as a hazard and does not claim aligned arrivals.

### StreamPlugger (`grpc_stream_utils.rs`)

Constants:

- `Kinds`: the variable `kind` chooses between the two tasks.
  - `channelize` creates `output_rx` at the start and can be aborted through
    its `AbortHandle`.
  - `plugger` has no receiver until one subscribes.
- `Receivers` and `FirstRx` (`output_rx`).
- `NMsg`: the messages the source yields at most.
- `Cap`: `broadcast_channel_capacity`.
- `UpCap`: the upstream mpsc buffer.

The broadcast channel is environment, modelled from tokio's documented
behaviour as a history `log` with a cursor per receiver:

- A send fails when no receiver is alive.
- A new receiver starts at the tail.
- A receiver more than `Cap` behind gets `Lagged` and jumps to the oldest
  message still held.
- A drained receiver sees `Closed` after the sender is gone.

The task's steps:

- `Forward`: `recv()` or `next()` yields a message, then `Broadcast` sends it
  or skips it on `SendError`.
- `Stop`: the source ends.
- `Abort`.

The receivers' steps are `Subscribe`, `Recv`, `RecvClosed` and `DropRx`. The
producer's steps are `Produce` and `CloseSource`.

### BroadcastQueues (abstract) and the refinement

`BroadcastQueues` states what the fan-out promises each receiver, without the
shared ring buffer. Every subscribed receiver `r` has a queue `queue[r]` of
its own:

- `Forward` appends the message to the queue of every subscribed receiver, or
  adds it to `dropped` when none is subscribed.
- `Subscribe` starts a receiver with an empty queue.
- `Recv` reads the head of the queue. When more than `Cap` messages wait, it
  instead reports all but the newest `Cap` as lost (`Lagged`) and keeps those
  `Cap`.
- `RecvClosed` needs an empty queue and an ended task. `DropRx` discards the
  queue.

`StreamPlugger` implements it through `Queues == INSTANCE BroadcastQueues`.
The mapping is:

- `sub[r]` is `rx[r].state`.
- `queue[r]` is `QueueOf(r)`: the log's suffix from `r`'s cursor when `r` is
  active, and empty otherwise.

`stream_safety` checks `QueuesSpec` on its instance, and
`QueuesRefinement` proves it.

### PrioFeeStats (`stats_calculation.rs`)

`calculate_supp_stats` is modelled as three steps:

- `Prepare`: the default sample, the sort by fee, the index percentiles and
  `cu_sum`.
- `Accumulate`: one step per iteration of the compute-unit loop.
- `Assemble`: builds `PrioFeesStats`.

The input is any list of up to `MaxLen` (fee, cu) pairs. The results are
compared with reference definitions that do not sort: `OrderStat` and
`CuRef`.

### BlockStoreQuery (`postgres_block_store_query.rs`)

Variables:

- `schemas` and `blocks`: the store.
- `phase`: start-up, ready or panicked.
- `op`, `slot` and `pc`: the call in progress and its round trip.
- `listed` and `atList`: what the first query of `get_slot_range_by_epoch`
  saw.
- `result` and `why`: the last call's result and the cause of a panic.

Actions:

- The writer: `CreateSchema`, `InsertBlock`.
- `Startup`: the session, the version assert and the role check, each of
  which panics on failure.
- `Call`.
- `ListSchemas`: its `.unwrap()` panics on an error.
- `MinMax`: an error is logged and turned into an empty map.
- `Deliver`: `is_block_in_range`, or `get_slot_range` with its `expect`.
- `QueryRow`, then `QueryTxs`: the transaction rows in any order, then the
  sort on `idx_in_block`.

An epoch is `slot \div SlotsPerEpoch`.

### Config (`cli.rs`)

Values are abstracted to their origin: `default`, `file` or `env`.

Environment chosen by the run:

- `args`: whether `--config` is given.
- `disk`: the file is missing, malformed, or sets some of the fields.
- `env`: each variable is unset, well formed, or `bad` (not a number).

Actions, in the order of the code:

- `ResolvePath`, including the early return with defaults.
- `ReadFile`.
- `ParseFile`, with serde defaults per field.
- `Override`, with the per-kind treatment of each variable (text, number,
  flag, option, `quic_proxy_addr`) and the `parse().unwrap()` panics.

`Kind` records each of the 14 fields' kind. The instance uses one field of
each kind.

## 3. Runs

| Run | Config | Result | What it shows |
|---|---|---|---|
| `bulk_safety` | `MCBulkConfirm.cfg` | pass, 380,880 states | The conservation `assert_eq!` never fails (`NoConsistencyFault`). A Success is confirmed and never rolled back (`SuccessIsConfirmed`). One record per transaction, in order (`Totality`). The call returns under a live cluster (`Termination`). The task implements `ConfirmTracker` (`TrackerSpec`). |
| `bulk_stall` | `MCBulkConfirmStall.cfg` | violation of `Termination` | A transaction left at processed makes the loop busy-poll with `iteration` frozen, so the 100-round cap never applies (`rpc_interface.rs:143`). |
| `bulk_status_error` | `MCBulkConfirmStatusError.cfg` | violation of `StatusErrorsRetried` | One failed status query aborts the batch, contrary to spec section 7. |
| `slot_safety` | `MCConfirmationSlot.cfg` | pass, 3,159,240 states | Only real measurements reach the stats sink (`SinkSound`). Every round ends (`Termination`). |
| `slot_leg_error` | `MCConfirmationSlotLegError.cfg` | violation of `LegFailuresContained` | One failed `confirm_transaction` call panics the leg and ends the benchmark (`confirmation_slot.rs:155`). |
| `stream_safety` | `MCStreamPlugger.cfg` | pass, 37,825 states | No receiver loses a message silently (`NoSilentLoss`). Slow receivers never hold back the source (`UpstreamDrained`). The shared log with its cursors implements independent per-receiver queues (`QueuesSpec`). Both tasks are checked. |
| `prio_percentiles` | `MCPrioFeeStats.cfg` | pass, 50,746 states | The index percentiles are order statistics (`IndexPercentilesMatch`). The compute-unit loop computes weighted percentiles (`CuPercentilesMatch`). |
| `prio_dist_cu` | `MCPrioFeeStatsDistCu.cfg` | violation of `DistByCuComplete` | `dist_fee_by_cu` never has p100 and is empty for a block with no compute units, unlike the comment at line 87. |
| `query_safety` | `MCBlockStoreQuery.cfg` | pass, 152,231 states | `get_slot_range` encloses every block stored before its first query, despite concurrent writes (`SlotRangeSound`). `query_block` returns a stored block's transactions in order (`QueryBlockSound`). |
| `query_in_range` | `MCBlockStoreQueryInRange.cfg` | violation of `InRangeSound` | `.is_some()` at line 59 reports any slot of an epoch with data as in range. |
| `query_expect` | `MCBlockStoreQueryExpect.cfg` | violation of `SlotRangeExpectHolds` | A failed min/max query becomes an empty map, and `expect` then panics although blocks are stored. |
| `cfg_precedence` | `MCConfigPrecedence.cfg` | violation of `Precedence` | With no config file, the early return at line 65 skips every environment override. `QUIC_PROXY_ADDR` unset discards the file's value (line 114). |

Each property of a passing run has a mutant in `PROJECT.json`: a plausible
bug in the mapped code (a dropped guard, a wrong key, a missing increment)
that TLC shows breaks it.

### Bounds

- **BulkConfirm**: 3 transactions, 3 rounds, 3 aligner iterations, slots
  0..4, one abandoned fork per transaction.
  - With three signatures, one round sees absent, processed and confirmed
    statuses together.
  - With three rounds, the cap can be reached after an earlier resolution.
  - One drop lets a processed status regress.
  - The aligner can both succeed and exhaust its budget.
- **ConfirmationSlot**: 2 rounds, round trips {2, 6}, timeout 2, slots 0..2.
  This covers both orders of the endpoints, a confirmation on either side
  of the deadline, and one leg's RPC calls spanning the other's sleep or
  confirm loop.
- **StreamPlugger**: 2 receivers, 4 messages, `Cap = 2`, `UpCap = 2`. Four
  messages through a channel of two let a receiver lag by more than the
  capacity and fill the upstream buffer.
- **PrioFeeStats**: every list of up to 4 entries with fees and compute units
  in 0..2. This covers ties, zero compute units and the empty block.
- **BlockStoreQuery**: slots 0..3 in epochs of 2, 2 transactions per block,
  2 calls. Two epochs let a schema appear between the listing and the
  min/max query.
- **Config**: one field of each kind, every file shape and every
  environment.

### Fairness

- **BulkConfirm** `FairSpec`:
  - The task's own steps are weakly fair: a ready tokio task eventually runs.
  - Each processed transaction eventually leaves processed: a live cluster
    confirms or abandons every block.
  - RPC errors are never forced.
  - `bulk_stall` drops the cluster assumption. A halted cluster is exactly
    what the round cap is for.
- **ConfirmationSlot**: every ready task and timer eventually fires, and the
  cluster eventually confirms a landed transaction. Landing is not fair: a
  transaction may be lost.
- **StreamPlugger**: `Forward` and `Stop` are weakly fair, as the task is
  spawned on the runtime. Receivers and the producer get no fairness. A
  consumer may stall forever, which is the case the comment at line 12 is
  about.

## 4. Proofs (TLAPS)

All five proof modules check completely with `tlapm`. Each theorem below that
names a property is the property a passing run checks, now proved for every
value of the constants.

### BulkConfirmProofs

The theorems assume the constants' ranges, `N >= 1`, and an injective `Sig`.

- **`TypeCorrect`**: `Spec => []TypeOK`.
- **`Safety`**: `Spec => [](NoConsistencyFault /\ SuccessIsConfirmed)`.
  `NoConsistencyFault` compares cardinalities, which is not inductive.
  `IInv` strengthens it:
  - Before the send, nothing is tracked.
  - From the send on, `pending` and the map's domain are disjoint and their
    union is the accepted signatures.
  - After the loop, `pending` is empty.
  - Successes are confirmed; this is inductive because the ledger leaves a
    confirmed level only upwards.

  `PartitionCard` and `AllSigsCard` turn the partition into the code's
  counting assertion.
- **`TotalityHolds`**: `Spec => []Totality`.
- **`SuccessConfirmed`**: `Spec => []SuccessIsConfirmed`.
  Both rest on `TInv`. It adds two facts to `IInv`:
  - `RecordKinds`: every map entry is one of the record kinds the code
    writes.
  - `DoneResults`: once the task is done, every signature has its entry.
  The step lemmas are `QuietTaskStep`, for the steps that leave the task
  alone, and `KeepPollingStep`, for a poll round.
- **`Refinement`**: `Spec => TrackerSpec`.
  - Initial states map to `Tracker!Init`.
  - `RefineStep` shows that under `IInv` every step maps to an abstract step
    or a stutter. It has one lemma per kind of step: `LedgerRefines`,
    `SendRefines`, `MoveRefines` and `FinishRefines`.
  - `TrackPending` says that a signature not pending carries its map entry.

### StreamPluggerProofs

The theorems assume the constants' ranges.

- **`NoLoss`**: `Spec => []NoSilentLoss`, for every number of receivers,
  messages and capacity. `NoSilentLoss` is not inductive on its own, so
  `IInv` adds three facts:
  - The log never holds more than the messages taken.
  - A live cursor is at most one past the log. This ensures that the message
    `Forward` appends lands ahead of every live cursor.
  - `Closed` is seen only after the task has ended. Otherwise a receiver that
    has seen `Closed` could miss a later message.

  There is one step lemma per group of actions: `QuietSteps`, `ForwardStep`,
  `SubscribeStep`, `RecvStep` and `LeaveStep`. `OldestBounds` places
  `Oldest` inside the log when a cursor lags.
- **`TypeCorrect`**: `Spec => []TypeOK` for the stream model.

- **`QueuesRefinement`**: `Spec => QueuesSpec`. The fan-out implements
  `BroadcastQueues` under the mapping `QueueOf`, for every number of
  receivers, messages and capacity.
  - `InitRefines` shows that `Init` maps to the abstract `Init`.
  - `RefineStep` maps every step, under `IInv`, to the abstract step of the
    same name. `Quiet` and the producer's, `Stop`'s and `Abort`'s steps leave
    every queue alone (`SourceStepRefines`).
  - `IInv` is needed because a cursor must lie in `1..Len(log)+1`. Only then
    is the suffix a real queue.
  - One lemma per action: `ForwardRefines`, `SubscribeRefines`,
    `RecvRefines`, `RecvClosedRefines` and `DropRxRefines`.
  - They rest on lemmas about log suffixes:
    - `AppendSuffix`: a send appends to the suffix.
    - `EmptySuffix`: a cursor past the end gives an empty queue.
    - `ReadSuffix`: the head is the message at the cursor, and the tail is
      the suffix one further on.
    - `LagSuffix`: when the cursor lags behind `Oldest`, the entries the
      concrete `Recv` reports lost are exactly the queue minus its last
      `Cap` entries. What remains is the log's last `Cap` messages.
  - `UpdatedAt` and `ChangedAt` turn a change at one receiver into a
    function update.

### ConfirmationSlotProofs

The theorems assume the constants' ranges and `RttsBounded`.

- **`TypeCorrect`** and **`SinkSoundHolds`** (`SinkSound`) follow from
  `Invariance`, `Spec => []IInv`. Neither depends on how long an RPC call
  takes.
- `IInv` holds:
  - `TypeOK`;
  - the round bound;
  - `SinkSound`;
  - `LegInv(l)` for each leg. This says that:
    - the slot a leg read is never above the cluster's slot;
    - an accepted leg is polling, fetching or finished;
    - a fetching leg's transaction is confirmed;
    - a status implies the send was accepted and landed after the slot
      read;
    - every non-default result has `sent < landed`.
- `RttsExtremes`, `DelaysBound` and `MaxDelayNat` bound the delays. They use
  `RttsBounded`, because `MaxDelay` is defined by `CHOOSE` over the extremes.
- There is one step lemma per action: `LegWakeStep` … `LegFetchStep`,
  `ProbeStep`, `JoinStep`, `StatsStep`, `TimeTickStep`, `SlotTickStep`,
  `LandStep` and `ConfirmStep`.

### BlockStoreQueryProofs

The theorems assume the constants' ranges.

- **`TypeCorrect`**, **`SlotRangeCorrect`** (`SlotRangeSound`) and
  **`QueryBlockCorrect`** (`QueryBlockSound`) follow from `Invariance`.
- `IInv` adds to the properties that:
  - the slots seen by a listing are stored;
  - their epochs are listed;
  - a query in its transaction phase is for a stored block.

  These facts are needed because the store keeps changing between the two
  round trips of `get_slot_range` and `query_block`.
- `MinOfBounded` and `MaxOfBounded` show that the SQL `min`/`max` of a
  nonempty finite set of slots is a member and bounds the set. Their proofs
  use well-founded induction on `<` over `Nat`.
- `RangesSound` and `SlotRangeCovers` show that the range of the per-epoch
  ranges covers every seen slot.
- `RowsPermute`, `RowsBelow` and `TxOrderSorted` show that sorting the rows
  by `idx_in_block` yields `1..NTx` in order, whatever order the rows
  arrive in.
- `TypeOKSplit` and `ResultTyped` separate the state's type from the result
  record's. This keeps each obligation small enough for the provers.

### PrioFeeStatsProofs

The theorem assumes the constants' ranges.

- **`IndexPercentilesCorrect`**: `Spec => []IndexPercentilesMatch`. The
  percentiles read by index from the fee-sorted list are the reference order
  statistics: the least fee whose rank reaches the index.
- The invariant `PInv` says that from the loop on, `byIndex` is
  `ByIndexOf(SortByFee(Sample(input)))`, and that `stats` carries it when
  done.
- `PInvMatch` is the core argument:
  - `RankPermutes`: the sort's rank function is a bijection onto
    `1..Len(s)`, with ties broken by position (`Prec`, `PrecOrder`).
  - `RankMonotone` and `SortedAt`: the sorted list is nondecreasing.
  - `OrderStatAt` and `MaxAt`: the entry at index `k` is the `k`-th order
    statistic, and the last entry is the maximum.
  - `IndexInside`: each index `len * p / 100` (and `len - 1` for `p_max`)
    lies inside the list.

### What stays with TLC

- Liveness: `Termination` and `UpstreamDrained`. Their proofs need fairness
  and `ENABLED`, which are out of the prover's reach here.
- `PrioFeeStats`'s `TypeOK` and `CuPercentilesMatch`. Both are about what
  `SumFunctionOnSet` computes: `cuSum \in Nat`, and `agg` as the sum of a
  prefix of fees. The sum is a fold over a recursive function on subsets, so
  these would need induction over data, which the installed provers cannot
  instantiate.
- The properties of the violation runs state what the code fails to do, so
  they are not theorems.
- `TrackerSpec`, the refinement property of `bulk_safety`, is proved by
  `Refinement`. Every other invariant of a passing run is proved above.

## 5. Findings

The code bugs and divergences that the violation runs show are listed
under "findings" in `PROJECT.json`, each with the source line:

- **`rpc_interface.rs:143`**: `continue 'pooling_loop` skips the round
  counter.
- **`rpc_interface.rs:130`**: one failed status query aborts the whole
  call.
- **`confirmation_slot.rs:155`**: `unwrap` in the confirm loop.
- **`stats_calculation.rs:75`**: `dist_fee_by_cu` lacks p100.
- **`postgres_block_store_query.rs:59`**: `.is_some()` instead of the value
  of `contains`.
- **`postgres_block_store_query.rs:193`**: `expect` panics after a
  swallowed query error.
- **`cli.rs:65`**: the early return skips the environment overrides.
- **`cli.rs:114`**: `QUIC_PROXY_ADDR` overrides the file's value even when
  unset.

## 6. Not modelled

- **Stake lookup** (`solana_utils.rs`): one `recv` on a broadcast receiver
  followed by a pure computation over one snapshot.
  - Its receive outcomes are those `StreamPlugger` models.
  - The claims worth stating about the computation need induction over the
    vote-account vector.
  - Its two hazards, Lagged turned into an error and duplicate identities in
    the `HashMap`, are listed with notes in `PROJECT.json`.
- **Type aliases** (`types.rs`): declarations only.
- **Environment**, kept abstract:
  - SQL text, row decoding, logging, durations and transaction contents;
  - the block writer;
  - the tokio channels, modelled from their documented behaviour;
  - `Args::parse` and `dotenv`.
