----------------------- MODULE BlockStoreQueryProofs -----------------------
(* Proofs about the queries of PostgresQueryBlockStore (BlockStoreQuery). *)
EXTENDS BlockStoreQuery, FiniteSetTheorems, WellFoundedInduction, TLAPS

USE MaxSlotAssumption, SlotsPerEpochAssumption, NTxAssumption, MaxCallsAssumption

(***************************************************************************)
(* Lemmas about the operators of the model.                               *)
(***************************************************************************)

(* A nonempty set of naturals below a bound has a least element, so the  *)
(* min of get_slot_range and of the min/max query is in the set and no  *)
(* greater than any of it.                                               *)
LEMMA MinOfBounded ==
    ASSUME NEW N \in Nat, NEW S \in SUBSET (0..N), S # {}
    PROVE  Min(S) \in S /\ \A y \in S : Min(S) <= y
<1> DEFINE R == OpToRel(<, Nat)
<1>1. S \subseteq Nat /\ S # {}
  OBVIOUS
<1>2. PICK x \in S : \A y \in S : ~(<<y, x>> \in R)
  BY <1>1, NatLessThanWellFounded, WFMin, Zenon DEF R
<1>3. \A y \in S : <<y, x>> \in R <=> y < x
  BY <1>1 DEF R, OpToRel
<1>4. \A y \in S : x <= y
  <2> SUFFICES ASSUME NEW y \in S PROVE x <= y
    OBVIOUS
  <2>1. ~(y < x)
    BY <1>2, <1>3, Zenon
  <2>2. QED
    BY <1>1, <2>1
<1>5. QED
  BY <1>4 DEF Min

(* Such a set has a greatest element too: the least of its distances to   *)
(* the bound.                                                              *)
LEMMA MaxOfBounded ==
    ASSUME NEW N \in Nat, NEW S \in SUBSET (0..N), S # {}
    PROVE  Max(S) \in S /\ \A y \in S : y <= Max(S)
<1> DEFINE D == {N - x : x \in S}
<1>1. D \in SUBSET (0..N) /\ D # {}
  <2>1. \A x \in S : N - x \in 0..N
    OBVIOUS
  <2>2. PICK z \in S : TRUE
    OBVIOUS
  <2>3. N - z \in D
    BY DEF D
  <2>4. QED
    BY <2>1, <2>3, Zenon DEF D
<1>2. Min(D) \in D /\ \A y \in D : Min(D) <= y
  BY <1>1, MinOfBounded
<1>3. \E x \in S : \A y \in S : x >= y
  <2>1. PICK x \in S : Min(D) = N - x
    BY <1>2 DEF D
  <2>2. \A y \in S : N - x <= N - y
    BY <1>2, <2>1 DEF D
  <2>3. QED
    BY <2>2
<1>4. QED
  BY <1>3 DEF Max
(* The rows of a block are a permutation of its idx values. *)
LEMMA RowsPermute ==
    ASSUME NEW rows \in TxRows
    PROVE  /\ rows \in [1..NTx -> 1..NTx]
           /\ \A k \in 1..NTx : \E j \in 1..NTx : rows[j] = k
           /\ \A i, j \in 1..NTx : rows[i] = rows[j] => i = j
<1>1. rows \in [1..NTx -> 1..NTx] /\ \A k \in 1..NTx : \E j \in 1..NTx : rows[j] = k
  BY DEF TxRows
<1>2. rows \in Surjection(1..NTx, 1..NTx)
  BY <1>1 DEF Surjection
<1>3. IsFiniteSet(1..NTx) /\ Cardinality(1..NTx) = NTx
  BY FS_Interval
<1>4. rows \in Injection(1..NTx, 1..NTx)
  BY <1>2, <1>3, FS_SurjSameCardinalityImpliesInj
<1>5. QED
  BY <1>1, <1>4 DEF Injection, IsInjective

(* In a permutation of 1..NTx, exactly x - 1 rows have an idx below x. *)
LEMMA RowsBelow ==
    ASSUME NEW rows \in TxRows, NEW x \in 1..NTx
    PROVE  Cardinality({j \in DOMAIN rows : rows[j] < x}) = x - 1
<1> DEFINE A == {j \in DOMAIN rows : rows[j] < x}
           f == [j \in A |-> rows[j]]
<1>1. /\ rows \in [1..NTx -> 1..NTx]
      /\ \A k \in 1..NTx : \E j \in 1..NTx : rows[j] = k
      /\ \A i, j \in 1..NTx : rows[i] = rows[j] => i = j
  BY RowsPermute
<1>2. A \subseteq 1..NTx
  BY <1>1 DEF A
<1>3. IsFiniteSet(A)
  <2>1. IsFiniteSet(1..NTx)
    BY FS_Interval
  <2>2. QED
    BY <1>2, <2>1, FS_Subset
<1>4. f \in Bijection(A, 1..(x - 1))
  <2>1. f \in [A -> 1..(x - 1)]
    BY <1>1 DEF A, f
  <2>2. \A i, j \in A : f[i] = f[j] => i = j
    BY <1>1, <1>2 DEF f
  <2>3. \A t \in 1..(x - 1) : \E j \in A : f[j] = t
    <3> SUFFICES ASSUME NEW t \in 1..(x - 1) PROVE \E j \in A : f[j] = t
      OBVIOUS
    <3>1. t \in 1..NTx
      OBVIOUS
    <3>2. PICK j \in 1..NTx : rows[j] = t
      BY <1>1, <3>1
    <3>3. j \in A
      BY <1>1, <3>2 DEF A
    <3>4. QED
      BY <3>2, <3>3 DEF f
  <2>4. QED
    BY <2>1, <2>2, <2>3 DEF Bijection, Injection, Surjection, IsInjective
<1>5. Cardinality(1..(x - 1)) = Cardinality(A)
  BY <1>3, <1>4, FS_Bijection DEF ExistsBijection
<1>6. Cardinality(1..(x - 1)) = x - 1
  BY FS_Interval
<1>7. QED
  BY <1>5, <1>6

(* query_block's sorted_by idx_in_block puts the transactions of a block *)
(* in idx order whatever order the SQL rows arrive in.                   *)
LEMMA TxOrderSorted ==
    ASSUME NEW rows \in TxRows
    PROVE  TxOrder(rows) = [k \in 1..NTx |-> k]
<1>1. /\ rows \in [1..NTx -> 1..NTx]
      /\ \A k \in 1..NTx : \E j \in 1..NTx : rows[j] = k
  BY RowsPermute
<1>2. Len(rows) = NTx
  <2>1. rows \in Seq(1..NTx)
    BY <1>1
  <2>2. QED
    BY <1>1, <2>1
<1>3. {rows[j] : j \in DOMAIN rows} = 1..NTx
  BY <1>1
<1>4. \A k \in 1..NTx : TxOrder(rows)[k] = k
  <2> SUFFICES ASSUME NEW k \in 1..NTx
               PROVE  (CHOOSE x \in 1..NTx : Cardinality({j \in DOMAIN rows : rows[j] < x}) = k - 1) = k
    BY <1>2, <1>3 DEF TxOrder
  <2>1. \A x \in 1..NTx : Cardinality({j \in DOMAIN rows : rows[j] < x}) = x - 1
    BY RowsBelow
  <2>2. QED
    BY <2>1
<1>5. QED
  BY <1>2, <1>4 DEF TxOrder
(***************************************************************************)
(* The inductive invariant.  get_slot_range reads the schemas and the     *)
(* blocks in one query and their min/max in a later one; its result      *)
(* covers the first read because every block seen then is in a listed    *)
(* epoch and blocks are never removed.  query_block's transaction query  *)
(* runs only for a slot whose block row it found.                        *)
(***************************************************************************)
IInv ==
    /\ TypeOK
    /\ atList \subseteq blocks
    /\ \A s \in atList : EpochOf(s) \in listed
    /\ pc = "txs" => op = "query" /\ slot \in blocks
    /\ SlotRangeSound
    /\ QueryBlockSound

(* The epochs and per-epoch ranges the min/max query returns. *)
ListedWithBlocks == {e \in listed : blocks \cap SlotsOf(e) # {}}
Ranges ==
    [e \in ListedWithBlocks |-> [lo |-> Min(blocks \cap SlotsOf(e)),
                                 hi |-> Max(blocks \cap SlotsOf(e))]]

(* The least start and the greatest end get_slot_range folds out of them. *)
RangeLos == {Ranges[e].lo : e \in DOMAIN Ranges}
RangeHis == {Ranges[e].hi : e \in DOMAIN Ranges}

(* Each range of the min/max query is made of stored slots of its epoch *)
(* and bounds every stored slot of it.                                  *)
LEMMA RangesSound ==
    ASSUME TypeOK, NEW e \in ListedWithBlocks
    PROVE  /\ Ranges[e].lo \in blocks /\ Ranges[e].hi \in blocks
           /\ \A s \in blocks \cap SlotsOf(e) : Ranges[e].lo <= s /\ s <= Ranges[e].hi
<1> DEFINE B == blocks \cap SlotsOf(e)
<1>1. B \in SUBSET (0..MaxSlot) /\ B # {}
  BY DEF TypeOK, ListedWithBlocks, Slots, B
<1>2. Ranges[e].lo = Min(B) /\ Ranges[e].hi = Max(B)
  BY DEF Ranges, B
<1>3. Min(B) \in B /\ \A y \in B : Min(B) <= y
  BY <1>1, MinOfBounded
<1>4. Max(B) \in B /\ \A y \in B : y <= Max(B)
  BY <1>1, MaxOfBounded
<1>5. QED
  BY <1>2, <1>3, <1>4 DEF B

(* The bounds get_slot_range folds out of a nonempty map of ranges are  *)
(* stored slots and enclose every block stored when the schemas were    *)
(* listed.                                                              *)
LEMMA SlotRangeCovers ==
    ASSUME IInv, ListedWithBlocks # {}
    PROVE  /\ Min(RangeLos) \in blocks /\ Max(RangeHis) \in blocks
           /\ atList \subseteq Min(RangeLos)..Max(RangeHis)
<1>1. TypeOK
  BY DEF IInv
<1>2. DOMAIN Ranges = ListedWithBlocks
  BY DEF Ranges
<1>3. RangeLos \subseteq blocks /\ RangeHis \subseteq blocks
  BY <1>1, <1>2, RangesSound DEF RangeLos, RangeHis
<1>4. RangeLos # {} /\ RangeHis # {}
  BY <1>2 DEF RangeLos, RangeHis
<1>5. RangeLos \in SUBSET (0..MaxSlot) /\ RangeHis \in SUBSET (0..MaxSlot)
  BY <1>1, <1>3 DEF TypeOK, Slots
<1>6. Min(RangeLos) \in RangeLos /\ \A y \in RangeLos : Min(RangeLos) <= y
  BY <1>4, <1>5, MinOfBounded
<1>7. Max(RangeHis) \in RangeHis /\ \A y \in RangeHis : y <= Max(RangeHis)
  BY <1>4, <1>5, MaxOfBounded
<1>8. \A s \in atList : Min(RangeLos) <= s /\ s <= Max(RangeHis)
  <2> SUFFICES ASSUME NEW s \in atList PROVE Min(RangeLos) <= s /\ s <= Max(RangeHis)
    OBVIOUS
  <2> DEFINE e == EpochOf(s)
  <2>1. s \in blocks /\ e \in listed /\ s \in Slots
    BY DEF IInv, TypeOK, e
  <2>2. s \in blocks \cap SlotsOf(e)
    BY <2>1 DEF SlotsOf, e
  <2>3. e \in ListedWithBlocks
    BY <2>1, <2>2 DEF ListedWithBlocks
  <2>4. Ranges[e].lo <= s /\ s <= Ranges[e].hi
    BY <1>1, <2>2, <2>3, RangesSound
  <2>5. Ranges[e].lo \in RangeLos /\ Ranges[e].hi \in RangeHis
    BY <1>2, <2>3 DEF RangeLos, RangeHis
  <2>6. /\ Ranges[e].lo \in 0..MaxSlot /\ Ranges[e].hi \in 0..MaxSlot
        /\ s \in 0..MaxSlot
        /\ Min(RangeLos) \in 0..MaxSlot /\ Max(RangeHis) \in 0..MaxSlot
    BY <1>5, <1>6, <1>7, <2>1, <2>5 DEF Slots
  <2>7. Min(RangeLos) <= Ranges[e].lo /\ Ranges[e].hi <= Max(RangeHis)
    BY <1>6, <1>7, <2>5
  <2>8. QED
    BY <2>4, <2>6, <2>7
<1>9. atList \subseteq Nat /\ Min(RangeLos) \in Nat /\ Max(RangeHis) \in Nat
  <2>0. atList \subseteq Slots
    BY <1>1, Zenon DEF TypeOK
  <2>1. atList \subseteq Nat
    BY <2>0 DEF Slots
  <2>2. Min(RangeLos) \in 0..MaxSlot /\ Max(RangeHis) \in 0..MaxSlot
    BY <1>5, <1>6, <1>7
  <2>3. QED
    BY <2>1, <2>2
<1>10. QED
  BY <1>3, <1>6, <1>7, <1>8, <1>9
(* TypeOK split into the store and the call's position, and the type of *)
(* a call's result.                                                     *)
StateTypeOK ==
    /\ schemas \subseteq Epochs /\ blocks \subseteq Slots
    /\ \A s \in blocks : EpochOf(s) \in schemas
    /\ phase \in {"start", "ready", "panicked"}
    /\ op \in Ops \cup {"none"} /\ slot \in Slots
    /\ pc \in {"list", "minmax", "row", "txs"}
    /\ listed \subseteq Epochs /\ atList \subseteq Slots
    /\ calls \in 0..MaxCalls
    /\ why \in {"", "startup", "listing", "expect"}
ResultType ==
    [op : Ops \cup {"none"}, slot : Slots, ok : BOOLEAN, value : BOOLEAN,
     lo : Slots, hi : Slots, seen : SUBSET Slots, txs : Seq(1..NTx)]

LEMMA TypeOKSplit == TypeOK <=> StateTypeOK /\ result \in ResultType
BY Zenon DEF TypeOK, StateTypeOK, ResultType

(* A result record built from slots of the model is well typed. *)
LEMMA ResultTyped ==
    ASSUME NEW o \in Ops, NEW ok \in BOOLEAN, NEW v \in BOOLEAN, NEW lo \in Slots,
           NEW hi \in Slots, NEW txs \in Seq(1..NTx), slot \in Slots, atList \subseteq Slots
    PROVE  Result(o, ok, v, lo, hi, txs) \in ResultType
BY DEF Result, ResultType

(* Every initial state satisfies the invariant. *)
LEMMA InitIInv == Init => IInv
<1> SUFFICES ASSUME Init PROVE IInv
  OBVIOUS
<1>1. result \in ResultType
  <2>1. 0 \in Slots /\ <<>> \in Seq(1..NTx) /\ {} \in SUBSET Slots
    BY DEF Slots
  <2>2. QED
    BY <2>1 DEF Init, NoResult, ResultType, Ops
<1>2. StateTypeOK
  <2>1. 0 \in Slots /\ 0 \in 0..MaxCalls
    BY DEF Slots
  <2>2. QED
    BY <2>1, Zenon DEF Init, StateTypeOK, Ops
<1>3. TypeOK
  BY <1>1, <1>2, Zenon DEF TypeOK, StateTypeOK, ResultType
<1>4. QED
  BY <1>3 DEF Init, IInv, NoResult, SlotRangeSound, QueryBlockSound

(* The writer adds a schema: nothing a call holds changes. *)
LEMMA CreateSchemaStep ==
    ASSUME IInv, NEW e \in Epochs, CreateSchema(e)
    PROVE  IInv'
<1>1. StateTypeOK' /\ result' \in ResultType
  BY TypeOKSplit DEF IInv, StateTypeOK, CreateSchema
<1>2. TypeOK'
  BY <1>1, Zenon DEF TypeOK, StateTypeOK, ResultType
<1>3. QED
  BY <1>2 DEF IInv, CreateSchema, SlotRangeSound, QueryBlockSound

(* The writer adds a block: blocks only grow, so what a result claims of *)
(* the store stays true.                                                 *)
LEMMA InsertBlockStep ==
    ASSUME IInv, NEW b \in Slots, InsertBlock(b)
    PROVE  IInv'
<1>1. StateTypeOK' /\ result' \in ResultType
  BY TypeOKSplit DEF IInv, StateTypeOK, InsertBlock
<1>2. TypeOK'
  BY <1>1, Zenon DEF TypeOK, StateTypeOK, ResultType
<1>3. QED
  BY <1>2 DEF IInv, InsertBlock, SlotRangeSound, QueryBlockSound

(* The start-up checks. *)
LEMMA StartupStep ==
    ASSUME IInv, Startup
    PROVE  IInv'
<1>1. StateTypeOK' /\ result' \in ResultType
  BY TypeOKSplit DEF IInv, StateTypeOK, Startup
<1>2. TypeOK'
  BY <1>1, Zenon DEF TypeOK, StateTypeOK, ResultType
<1>3. QED
  BY <1>2 DEF IInv, Startup, SlotRangeSound, QueryBlockSound

(* A new call starts at its first round trip. *)
LEMMA CallStep ==
    ASSUME IInv, Call
    PROVE  IInv'
<1>1. PICK o \in Ops, sl \in Slots :
          /\ op' = o
          /\ slot' = sl
          /\ pc' = IF o = "query" THEN "row" ELSE "list"
  BY DEF Call
<1>2. pc' \in {"row", "list"}
  BY <1>1
<1>3. StateTypeOK' /\ result' \in ResultType
  <2>1. StateTypeOK /\ result \in ResultType
    BY TypeOKSplit, Zenon DEF IInv
  <2>2. calls \in 0..MaxCalls
    BY <2>1, Zenon DEF StateTypeOK
  <2>3. calls' \in 0..MaxCalls
    BY <2>2 DEF Call
  <2>4. QED
    BY <1>1, <1>2, <2>1, <2>3, Zenon DEF StateTypeOK, Call
<1>4. TypeOK'
  BY <1>3, Zenon DEF TypeOK, StateTypeOK, ResultType
<1>5. QED
  BY <1>2, <1>4 DEF IInv, Call, SlotRangeSound, QueryBlockSound

(* The result is_block_in_range delivers is well typed and says nothing *)
(* of get_slot_range or query_block.                                    *)
LEMMA InRangeTyped ==
    ASSUME StateTypeOK, NEW r, \A e \in DOMAIN r : r[e].lo \in Slots /\ r[e].hi \in Slots
    PROVE  InRange(r) \in ResultType /\ InRange(r).op = "inRange"
<1>1. slot \in Slots /\ atList \subseteq Slots
  BY Zenon DEF StateTypeOK
<1>2. 0 \in Slots /\ <<>> \in Seq(1..NTx) /\ "inRange" \in Ops
  BY DEF Slots, Ops
<1>3. QED
  BY <1>1, <1>2, ResultTyped DEF InRange, Result

(* The schema listing of get_slot_range_by_epoch records the schemas and *)
(* the blocks it saw; with no schema it returns the empty map at once.   *)
LEMMA ListSchemasStep ==
    ASSUME IInv, ListSchemas
    PROVE  IInv'
<1>0. StateTypeOK /\ result \in ResultType
  BY TypeOKSplit, Zenon DEF IInv
<1>1. CASE phase' = "panicked" /\ why' = "listing" /\ UNCHANGED <<op, pc, listed, atList, result>>
  <2>1. StateTypeOK' /\ result' \in ResultType
    BY <1>0, <1>1, Zenon DEF StateTypeOK, ListSchemas
  <2>2. TypeOK'
    BY <2>1, Zenon DEF TypeOK, StateTypeOK, ResultType
  <2>3. QED
    BY <1>1, <2>2 DEF IInv, ListSchemas, SlotRangeSound, QueryBlockSound
<1>2. CASE /\ listed' = schemas
           /\ atList' = blocks
           /\ IF schemas = {}
                THEN Deliver(<<>>) /\ UNCHANGED pc
                ELSE pc' = "minmax" /\ UNCHANGED <<op, phase, result, why>>
  <2>1. /\ atList' \subseteq blocks'
        /\ \A s \in atList' : EpochOf(s) \in listed'
        /\ listed' \subseteq Epochs /\ atList' \subseteq Slots
    BY <1>0, <1>2, Zenon DEF StateTypeOK, ListSchemas
  <2>2. CASE schemas = {} /\ op = "inRange"
    <3>1. result' = InRange(<<>>) /\ UNCHANGED <<phase, why, pc>> /\ op' = "none"
      BY <1>2, <2>2 DEF ListSchemas, Deliver
    <3>2. result' \in ResultType /\ result'.op = "inRange"
      BY <1>0, <3>1, InRangeTyped
    <3>3. StateTypeOK'
      BY <1>0, <2>1, <3>1, Zenon DEF StateTypeOK, ListSchemas
    <3>4. TypeOK'
      BY <3>2, <3>3, Zenon DEF TypeOK, StateTypeOK, ResultType
    <3>5. QED
      BY <2>1, <3>1, <3>2, <3>4 DEF IInv, ListSchemas, SlotRangeSound, QueryBlockSound
  <2>3. CASE schemas = {} /\ op # "inRange"
    <3>1. phase' = "panicked" /\ why' = "expect" /\ UNCHANGED <<result, pc>> /\ op' = "none"
      BY <1>2, <2>3 DEF ListSchemas, Deliver
    <3>2. StateTypeOK' /\ result' \in ResultType
      BY <1>0, <2>1, <3>1, Zenon DEF StateTypeOK, ListSchemas
    <3>3. TypeOK'
      BY <3>2, Zenon DEF TypeOK, StateTypeOK, ResultType
    <3>4. QED
      BY <2>1, <3>1, <3>3 DEF IInv, ListSchemas, SlotRangeSound, QueryBlockSound
  <2>4. CASE schemas # {}
    <3>1. pc' = "minmax" /\ UNCHANGED <<op, phase, result, why>>
      BY <1>2, <2>4 DEF ListSchemas
    <3>2. StateTypeOK' /\ result' \in ResultType
      BY <1>0, <2>1, <3>1, Zenon DEF StateTypeOK, ListSchemas
    <3>3. TypeOK'
      BY <3>2, Zenon DEF TypeOK, StateTypeOK, ResultType
    <3>4. QED
      BY <2>1, <3>1, <3>3 DEF IInv, ListSchemas, SlotRangeSound, QueryBlockSound
  <2>5. QED
    BY <2>2, <2>3, <2>4
<1>3. QED
  BY <1>1, <1>2 DEF ListSchemas

(* The min/max query: whether it fails or returns the ranges, what     *)
(* get_slot_range delivers covers the blocks seen at the listing.       *)
LEMMA MinMaxStep ==
    ASSUME IInv, MinMax
    PROVE  IInv'
<1>0. StateTypeOK /\ result \in ResultType
  BY TypeOKSplit, Zenon DEF IInv
<1>1. /\ pc' = "list"
      /\ UNCHANGED <<schemas, blocks, slot, listed, atList, calls>>
      /\ Deliver(<<>>) \/ Deliver(Ranges)
  BY DEF MinMax, Ranges, ListedWithBlocks
<1>2. SUFFICES ASSUME NEW r \in {<<>>, Ranges}, Deliver(r) PROVE IInv'
  BY <1>1
<1>3. \A e \in DOMAIN r : r[e].lo \in Slots /\ r[e].hi \in Slots
  <2>1. \A e \in DOMAIN Ranges : Ranges[e].lo \in blocks /\ Ranges[e].hi \in blocks
    BY RangesSound DEF IInv, Ranges
  <2>2. blocks \subseteq Slots
    BY <1>0, Zenon DEF StateTypeOK
  <2>4. DOMAIN <<>> = {}
    OBVIOUS
  <2>3. QED
    BY <2>1, <2>2, <2>4
<1>4. /\ atList' \subseteq blocks'
      /\ \A s \in atList' : EpochOf(s) \in listed'
      /\ pc' # "txs"
  BY <1>1 DEF IInv
<1>5. StateTypeOK /\ UNCHANGED <<schemas, blocks, slot, listed, atList, calls>> /\ pc' = "list"
      => (op' = "none" /\ phase' \in {"start", "ready", "panicked"}
          /\ why' \in {"", "startup", "listing", "expect"} => StateTypeOK')
  BY Zenon DEF StateTypeOK, Ops
<1>6. CASE op = "inRange"
  <2>1. result' = InRange(r) /\ UNCHANGED <<phase, why>> /\ op' = "none"
    BY <1>2, <1>6 DEF Deliver
  <2>2. result' \in ResultType /\ result'.op = "inRange"
    BY <1>0, <1>3, <2>1, InRangeTyped
  <2>3. StateTypeOK'
    BY <1>0, <1>1, <1>5, <2>1, Zenon DEF StateTypeOK
  <2>4. TypeOK'
    BY <2>2, <2>3, Zenon DEF TypeOK, StateTypeOK, ResultType
  <2>5. QED
    BY <1>4, <2>2, <2>4 DEF IInv, SlotRangeSound, QueryBlockSound
<1>7. CASE op # "inRange" /\ DOMAIN r = {}
  <2>1. phase' = "panicked" /\ why' = "expect" /\ UNCHANGED result /\ op' = "none"
    BY <1>2, <1>7 DEF Deliver
  <2>2. StateTypeOK'
    BY <1>0, <1>1, <1>5, <2>1, Zenon DEF StateTypeOK
  <2>3. TypeOK'
    BY <1>0, <2>1, <2>2, Zenon DEF TypeOK, StateTypeOK, ResultType
  <2>4. QED
    BY <1>1, <1>4, <2>1, <2>3 DEF IInv, SlotRangeSound, QueryBlockSound
<1>8. CASE op # "inRange" /\ DOMAIN r # {}
  <2>1. r = Ranges /\ ListedWithBlocks # {}
    BY <1>2, <1>8 DEF Ranges
  <2>2. result' = Result("slotRange", TRUE, FALSE, Min(RangeLos), Max(RangeHis), <<>>)
        /\ UNCHANGED <<phase, why>> /\ op' = "none"
    BY <1>2, <1>8, <2>1 DEF Deliver, SlotRange, RangeLos, RangeHis
  <2>3. /\ Min(RangeLos) \in blocks /\ Max(RangeHis) \in blocks
        /\ atList \subseteq Min(RangeLos)..Max(RangeHis)
    BY <2>1, SlotRangeCovers
  <2>4. result' \in ResultType
    <3>1. Min(RangeLos) \in Slots /\ Max(RangeHis) \in Slots /\ slot \in Slots /\ atList \subseteq Slots
      BY <1>0, <2>3, Zenon DEF StateTypeOK
    <3>2. <<>> \in Seq(1..NTx) /\ "slotRange" \in Ops
      BY DEF Ops
    <3>3. QED
      BY <2>2, <3>1, <3>2, ResultTyped
  <2>5. StateTypeOK'
    BY <1>0, <1>1, <1>5, <2>2, Zenon DEF StateTypeOK
  <2>6. TypeOK'
    BY <2>4, <2>5, Zenon DEF TypeOK, StateTypeOK, ResultType
  <2>7. SlotRangeSound' /\ QueryBlockSound'
    BY <1>1, <2>2, <2>3 DEF SlotRangeSound, QueryBlockSound, Result
  <2>8. QED
    BY <1>4, <2>6, <2>7 DEF IInv
<1>9. QED
  BY <1>6, <1>7, <1>8

(* query_block's first round trip: an Err, or the block row is found and *)
(* the transaction query follows.                                       *)
LEMMA QueryRowStep ==
    ASSUME IInv, QueryRow
    PROVE  IInv'
<1>0. StateTypeOK /\ result \in ResultType
  BY TypeOKSplit, Zenon DEF IInv
<1>1. CASE result' = Result("query", FALSE, FALSE, 0, 0, <<>>) /\ op' = "none" /\ UNCHANGED pc
  <2>1. result' \in ResultType
    <3>1. slot \in Slots /\ atList \subseteq Slots
      BY <1>0, Zenon DEF StateTypeOK
    <3>2. 0 \in Slots /\ <<>> \in Seq(1..NTx) /\ "query" \in Ops
      BY DEF Slots, Ops
    <3>3. QED
      BY <1>1, <3>1, <3>2, ResultTyped
  <2>2. StateTypeOK'
    BY <1>0, <1>1, Zenon DEF StateTypeOK, QueryRow
  <2>3. TypeOK'
    BY <2>1, <2>2, Zenon DEF TypeOK, StateTypeOK, ResultType
  <2>4. QED
    BY <1>1, <2>3 DEF IInv, QueryRow, SlotRangeSound, QueryBlockSound, Result
<1>2. CASE slot \in blocks /\ pc' = "txs" /\ UNCHANGED <<op, result>>
  <2>1. StateTypeOK' /\ result' \in ResultType
    BY <1>0, <1>2, Zenon DEF StateTypeOK, QueryRow
  <2>2. TypeOK'
    BY <2>1, Zenon DEF TypeOK, StateTypeOK, ResultType
  <2>3. QED
    BY <1>2, <2>2 DEF IInv, QueryRow, SlotRangeSound, QueryBlockSound
<1>3. QED
  BY <1>1, <1>2 DEF QueryRow

(* query_block's second round trip: an Err, or the block's transactions *)
(* sorted by idx_in_block, whatever order the rows came in.             *)
LEMMA QueryTxsStep ==
    ASSUME IInv, QueryTxs
    PROVE  IInv'
<1>0. StateTypeOK /\ result \in ResultType
  BY TypeOKSplit, Zenon DEF IInv
<1>1. /\ op' = "none" /\ pc' = "row"
      /\ UNCHANGED <<schemas, blocks, phase, slot, listed, atList, calls, why>>
  BY DEF QueryTxs
<1>2. slot \in Slots /\ atList \subseteq Slots /\ slot \in blocks
  BY <1>0, Zenon DEF StateTypeOK, QueryTxs, IInv
<1>3. StateTypeOK'
  BY <1>0, <1>1, Zenon DEF StateTypeOK, Ops
<1>4. 0 \in Slots /\ <<>> \in Seq(1..NTx) /\ "query" \in Ops
      /\ [k \in 1..NTx |-> k] \in Seq(1..NTx)
  BY DEF Slots, Ops
<1>5. CASE result' = Result("query", FALSE, FALSE, 0, 0, <<>>)
  <2>1. result' \in ResultType
    BY <1>2, <1>4, <1>5, ResultTyped
  <2>2. TypeOK'
    BY <1>3, <2>1, Zenon DEF TypeOK, StateTypeOK, ResultType
  <2>3. QED
    BY <1>1, <1>5, <2>2 DEF IInv, SlotRangeSound, QueryBlockSound, Result
<1>6. CASE \E rows \in TxRows : result' = Result("query", TRUE, FALSE, 0, 0, TxOrder(rows))
  <2>1. PICK rows \in TxRows : result' = Result("query", TRUE, FALSE, 0, 0, TxOrder(rows))
    BY <1>6
  <2>2. result' = Result("query", TRUE, FALSE, 0, 0, [k \in 1..NTx |-> k])
    BY <2>1, TxOrderSorted
  <2>3. result' \in ResultType
    BY <1>2, <1>4, <2>2, ResultTyped
  <2>4. TypeOK'
    BY <1>3, <2>3, Zenon DEF TypeOK, StateTypeOK, ResultType
  <2>5. QED
    BY <1>1, <1>2, <2>2, <2>4 DEF IInv, SlotRangeSound, QueryBlockSound, Result
<1>7. QED
  BY <1>5, <1>6 DEF QueryTxs

(* Nothing moves once the service panicked or the client is done. *)
LEMMA IdleStep ==
    ASSUME IInv, Idle \/ UNCHANGED vars
    PROVE  IInv'
BY DEF IInv, TypeOK, Idle, vars, SlotRangeSound, QueryBlockSound
(* Every step of the service and the writer preserves the invariant. *)
LEMMA IInvStep == IInv /\ [Next]_vars => IInv'
<1> SUFFICES ASSUME IInv, [Next]_vars PROVE IInv'
  OBVIOUS
<1>1. ASSUME NEW e \in Epochs, CreateSchema(e) PROVE IInv'
  BY <1>1, CreateSchemaStep
<1>2. ASSUME NEW b \in Slots, InsertBlock(b) PROVE IInv'
  BY <1>2, InsertBlockStep
<1>3. QED
  BY <1>1, <1>2, StartupStep, CallStep, ListSchemasStep, MinMaxStep, QueryRowStep,
     QueryTxsStep, IdleStep DEF Next

(* The invariant holds in every reachable state. *)
THEOREM Invariance == Spec => []IInv
BY InitIInv, IInvStep, PTL DEF Spec

(* Every reachable state of the query service and the writer is well     *)
(* typed.                                                                *)
THEOREM TypeCorrect == Spec => []TypeOK
BY Invariance, PTL DEF IInv

(* get_slot_range covers the store: its bounds are stored slots and every *)
(* block stored when it listed the schemas lies between them, although    *)
(* the writer keeps adding schemas and blocks between its two queries.   *)
THEOREM SlotRangeCorrect == Spec => []SlotRangeSound
BY Invariance, PTL DEF IInv

(* query_block returns a stored block with its transactions in idx order, *)
(* whatever order the SQL rows arrive in.                                 *)
THEOREM QueryBlockCorrect == Spec => []QueryBlockSound
BY Invariance, PTL DEF IInv
=============================================================================
