-------------------------- MODULE BlockStoreQuery --------------------------
(***************************************************************************)
(* PostgresQueryBlockStore of blockstore/.../postgres_block_store_query.rs: *)
(* the start-up self checks and the three queries is_block_in_range,       *)
(* get_slot_range and query_block, each a sequence of SQL round trips      *)
(* against a store that the block writer keeps filling between them.  The *)
(* writer, the epoch schedule and the SQL engine are environment: a slot's *)
(* epoch is slot \div SlotsPerEpoch, a block lives in its epoch's schema,  *)
(* and any query may fail.                                                 *)
(***************************************************************************)
EXTENDS Naturals, Sequences, FiniteSets, FiniteSetsExt

CONSTANTS
    MaxSlot,        \* slots 0..MaxSlot
    SlotsPerEpoch,  \* the epoch schedule's slots per epoch
    NTx,            \* transactions per block, with idx 1..NTx
    MaxCalls        \* calls the client makes

ASSUME MaxSlotAssumption == MaxSlot \in Nat
ASSUME SlotsPerEpochAssumption == SlotsPerEpoch \in Nat \ {0}
ASSUME NTxAssumption == NTx \in Nat
ASSUME MaxCallsAssumption == MaxCalls \in Nat

Slots == 0..MaxSlot
EpochOf(s) == s \div SlotsPerEpoch
Epochs == {EpochOf(s) : s \in Slots}
SlotsOf(e) == {s \in Slots : EpochOf(s) = e}
Ops == {"inRange", "slotRange", "query"}

VARIABLES
    schemas,    \* the epochs that have a schema rpc2a_epoch_<e>
    blocks,     \* the slots stored in their epoch's blocks table
    phase,      \* "start" | "ready" | "panicked"
    op,         \* the call in progress, or "none"
    slot,       \* its argument
    pc,         \* its position: "list" | "minmax" | "row" | "txs"
    listed,     \* the schemas the first query of get_slot_range_by_epoch saw
    atList,     \* the blocks stored when that query ran
    calls,      \* calls made so far
    result,     \* the last call's result
    why         \* what panicked: "" | "startup" | "listing" | "expect"

vars == <<schemas, blocks, phase, op, slot, pc, listed, atList, calls, result, why>>

(* A call's result: is_block_in_range's value with the epoch's range it   *)
(* came from, get_slot_range's bounds with the blocks stored at its first *)
(* query, query_block's transaction indices.                              *)
Result(o, ok, v, lo, hi, txs) ==
    [op |-> o, slot |-> slot, ok |-> ok, value |-> v, lo |-> lo, hi |-> hi,
     seen |-> atList, txs |-> txs]

NoResult == [op |-> "none", slot |-> 0, ok |-> FALSE, value |-> FALSE, lo |-> 0, hi |-> 0,
             seen |-> {}, txs |-> <<>>]

Init ==
    /\ schemas = {}
    /\ blocks = {}
    /\ phase = "start"
    /\ op = "none"
    /\ slot = 0
    /\ pc = "list"
    /\ listed = {}
    /\ atList = {}
    /\ calls = 0
    /\ result = NoResult
    /\ why = ""

-----------------------------------------------------------------------------
(* The writer: a schema per epoch, then blocks in it. *)
CreateSchema(e) ==
    /\ e \notin schemas
    /\ schemas' = schemas \cup {e}
    /\ UNCHANGED <<blocks, phase, op, slot, pc, listed, atList, calls, result, why>>

InsertBlock(s) ==
    /\ EpochOf(s) \in schemas
    /\ s \notin blocks
    /\ blocks' = blocks \cup {s}
    /\ UNCHANGED <<schemas, phase, op, slot, pc, listed, atList, calls, result, why>>

-----------------------------------------------------------------------------
(* new: PostgresSession::new(..).unwrap(), the version assert and the     *)
(* role check each panic on failure.                                       *)
Startup ==
    /\ phase = "start"
    /\ \/ phase' = "ready" /\ UNCHANGED why
       \/ phase' = "panicked" /\ why' = "startup"
    /\ UNCHANGED <<schemas, blocks, op, slot, pc, listed, atList, calls, result>>

(* The client calls one of the three queries. *)
Call ==
    /\ phase = "ready"
    /\ op = "none"
    /\ calls < MaxCalls
    /\ \E o \in Ops, s \in Slots :
          /\ op' = o
          /\ slot' = s
          /\ pc' = IF o = "query" THEN "row" ELSE "list"
    /\ calls' = calls + 1
    /\ UNCHANGED <<schemas, blocks, phase, listed, atList, result, why>>

(* Seeded bug: get_slot_range folds the ends into the minimum too. *)
SlotRangeFromEnds(r) ==
    Result("slotRange", TRUE, FALSE, Min({r[e].hi : e \in DOMAIN r}),
           Max({r[e].hi : e \in DOMAIN r}), <<>>)

(* get_slot_range: the least start and the greatest end; the expect      *)
(* panics on an empty map.                                                 *)
SlotRange(r) ==
    Result("slotRange", TRUE, FALSE, Min({r[e].lo : e \in DOMAIN r}),
           Max({r[e].hi : e \in DOMAIN r}), <<>>)

(* is_block_in_range: ranges.get(epoch).map(contains).is_some(). *)
InRange(r) ==
    LET e == EpochOf(slot)
    IN  IF e \in DOMAIN r
          THEN Result("inRange", TRUE, TRUE, r[e].lo, r[e].hi, <<>>)
          ELSE Result("inRange", TRUE, FALSE, 0, 0, <<>>)

(* Return the ranges to the caller of get_slot_range_by_epoch. *)
Deliver(r) ==
    /\ IF op = "inRange"
         THEN result' = InRange(r) /\ UNCHANGED <<phase, why>>
         ELSE IF DOMAIN r = {}
                THEN phase' = "panicked" /\ why' = "expect" /\ UNCHANGED result
                ELSE result' = SlotRange(r) /\ UNCHANGED <<phase, why>>
    /\ op' = "none"

(* The schema listing: .unwrap() panics on an error; no schema returns   *)
(* the empty map.                                                          *)
ListSchemas ==
    /\ phase = "ready"
    /\ op \in {"inRange", "slotRange"}
    /\ pc = "list"
    /\ \/ /\ phase' = "panicked"
          /\ why' = "listing"
          /\ UNCHANGED <<op, pc, listed, atList, result>>
       \/ /\ listed' = schemas
          /\ atList' = blocks
          /\ IF schemas = {}
               THEN Deliver(<<>>) /\ UNCHANGED pc
               ELSE pc' = "minmax" /\ UNCHANGED <<op, phase, result, why>>
    /\ UNCHANGED <<schemas, blocks, slot, calls>>

(* The UNION ALL min/max query over the listed schemas, grouped by epoch; *)
(* an error or no row gives the empty map.                                 *)
MinMax ==
    /\ phase = "ready"
    /\ pc = "minmax"
    /\ LET E == {e \in listed : blocks \cap SlotsOf(e) # {}}
           r == [e \in E |-> [lo |-> Min(blocks \cap SlotsOf(e)),
                              hi |-> Max(blocks \cap SlotsOf(e))]]
       IN  \/ Deliver(<<>>)
           \/ Deliver(r)
    /\ pc' = "list"
    /\ UNCHANGED <<schemas, blocks, slot, listed, atList, calls>>

(* query_block, first round trip: the block row of the slot's epoch      *)
(* schema; an error or no row is an Err.                                   *)
QueryRow ==
    /\ phase = "ready"
    /\ op = "query"
    /\ pc = "row"
    /\ \/ /\ result' = Result("query", FALSE, FALSE, 0, 0, <<>>)
          /\ op' = "none"
          /\ UNCHANGED pc
       \/ /\ slot \in blocks
          /\ pc' = "txs"
          /\ UNCHANGED <<op, result>>
    /\ UNCHANGED <<schemas, blocks, phase, slot, listed, atList, calls, why>>

(* The rows of a block's NTx transactions, idx 1..NTx, in any order. *)
TxRows == {f \in [1..NTx -> 1..NTx] : \A k \in 1..NTx : \E j \in 1..NTx : f[j] = k}

(* Seeded bug: the transaction rows kept in the order the SQL returns. *)
TxOrderUnsorted(rows) == rows

(* Seeded bug: each transaction given its position in the rows, 0-based, *)
(* instead of its idx.                                                     *)
TxOrderPositions(rows) == [k \in 1..Len(rows) |-> k - 1]

(* sorted_by idx_in_block: the k-th row is the one with k - 1 smaller idx. *)
TxOrder(rows) ==
    [k \in 1..Len(rows) |->
        CHOOSE x \in {rows[j] : j \in DOMAIN rows} :
            Cardinality({j \in DOMAIN rows : rows[j] < x}) = k - 1]

(* Second round trip: the transaction rows, in any order, sorted by idx. *)
QueryTxs ==
    /\ phase = "ready"
    /\ pc = "txs"
    /\ \/ result' = Result("query", FALSE, FALSE, 0, 0, <<>>)
       \/ \E rows \in TxRows : result' = Result("query", TRUE, FALSE, 0, 0, TxOrder(rows))
    /\ op' = "none"
    /\ pc' = "row"
    /\ UNCHANGED <<schemas, blocks, phase, slot, listed, atList, calls, why>>

Idle ==
    /\ phase = "panicked" \/ (op = "none" /\ calls = MaxCalls)
    /\ UNCHANGED vars

Next ==
    \/ \E e \in Epochs : CreateSchema(e)
    \/ \E s \in Slots : InsertBlock(s)
    \/ Startup \/ Call \/ ListSchemas \/ MinMax \/ QueryRow \/ QueryTxs
    \/ Idle

Spec == Init /\ [][Next]_vars

-----------------------------------------------------------------------------
TypeOK ==
    /\ schemas \subseteq Epochs /\ blocks \subseteq Slots
    /\ \A s \in blocks : EpochOf(s) \in schemas
    /\ phase \in {"start", "ready", "panicked"}
    /\ op \in Ops \cup {"none"} /\ slot \in Slots
    /\ pc \in {"list", "minmax", "row", "txs"}
    /\ listed \subseteq Epochs /\ atList \subseteq Slots
    /\ calls \in 0..MaxCalls
    /\ why \in {"", "startup", "listing", "expect"}
    /\ result \in [op : Ops \cup {"none"}, slot : Slots, ok : BOOLEAN, value : BOOLEAN,
                   lo : Slots, hi : Slots, seen : SUBSET Slots, txs : Seq(1..NTx)]

(* get_slot_range covers the store: its bounds are stored slots, and every *)
(* block stored before its first query lies between them, although blocks *)
(* and schemas keep arriving between its two round trips.                 *)
SlotRangeSound ==
    (result.op = "slotRange" /\ result.ok) =>
        /\ {result.lo, result.hi} \subseteq blocks
        /\ result.seen \subseteq result.lo..result.hi

(* query_block returns a stored block with all its transactions in       *)
(* idx_in_block order, whatever order the rows arrive in.                 *)
QueryBlockSound ==
    (result.op = "query" /\ result.ok) =>
        /\ result.slot \in blocks
        /\ result.txs = [k \in 1..NTx |-> k]

(* The name's promise: is_block_in_range is TRUE only for a slot inside   *)
(* the stored range of its epoch.                                         *)
InRangeSound ==
    (result.op = "inRange" /\ result.value) => result.slot \in result.lo..result.hi

(* The expect at lines 193 and 198 ("non-empty result"): get_slot_range  *)
(* panics only when the store held no block.                              *)
SlotRangeExpectHolds ==
    why = "expect" => atList = {}
=============================================================================
