--------------------------- MODULE PrioFeeStats ---------------------------
(***************************************************************************)
(* calculate_supp_stats of block_priofees/src/stats_calculation.rs: the    *)
(* fee percentiles of one block, by transaction count and weighted by      *)
(* compute units.  The input is one of every list of (fee, cu) pairs up to *)
(* MaxLen entries; the function runs as three steps, the preparation       *)
(* (default, sort, index statistics, cu_sum), one step per iteration of    *)
(* the compute-unit loop, and the assembly of PrioFeesStats.  The results  *)
(* are checked against reference definitions that do not sort.            *)
(***************************************************************************)
EXTENDS Naturals, Sequences, FiniteSets, FiniteSetsExt, Functions

CONSTANTS
    MaxLen,     \* longest list of transactions in a block
    MaxFee,     \* fees range over 0..MaxFee
    MaxCu       \* compute units range over 0..MaxCu

ASSUME MaxLenAssumption == MaxLen \in Nat
ASSUME MaxFeeAssumption == MaxFee \in Nat
ASSUME MaxCuAssumption == MaxCu \in Nat

(* The percentiles of (0..=100).step_by(5). *)
Pcts == {5 * k : k \in 0..20}
(* The four compute-unit percentiles med_cu, p75_cu, p90_cu, p95_cu. *)
CuPcts == {50, 75, 90, 95}

(* Option::None for a fee, and the value of an index past the end. *)
None == -1
OutOfBounds == -2

Entries == (0..MaxFee) \X (0..MaxCu)
Inputs == UNION {[1..n -> Entries] : n \in 0..MaxLen}

(* The fee and the compute units of entry j. *)
FeeOf(s, j) == s[j][1]
CuOf(s, j) == s[j][2]

(* prio_fees_in_block[k].0 with a 0-based index k; past the end the code  *)
(* panics.                                                                 *)
Fee(s, k) == IF k < Len(s) THEN FeeOf(s, k + 1) ELSE OutOfBounds

(* Seeded bug: the list sorted on the compute units (a.1.cmp(&b.1)). *)
SortByFeeWrongField(s) ==
    [k \in 1..Len(s) |->
        s[CHOOSE i \in DOMAIN s :
            Cardinality({j \in DOMAIN s : CuOf(s, j) < CuOf(s, i)
                                           \/ (CuOf(s, j) = CuOf(s, i) /\ j < i)}) + 1 = k]]

(* sort_by on the fee is stable: equal fees keep their input order.  Entry *)
(* i goes to the position given by the entries that precede it.           *)
Rank(s, i) ==
    Cardinality({j \in DOMAIN s : FeeOf(s, j) < FeeOf(s, i)
                                   \/ (FeeOf(s, j) = FeeOf(s, i) /\ j < i)}) + 1
SortByFee(s) == [k \in 1..Len(s) |-> s[CHOOSE i \in DOMAIN s : Rank(s, i) = k]]

(* An empty block is replaced by the single entry (0, 0). *)
Sample(s) == IF s = <<>> THEN <<<<0, 0>>>> ELSE s

(* (cu_sum as f64 * p / 100) as u64.  For cu_sum below 2^53 the product   *)
(* is exact or off by less than its fractional step, so the cast is the   *)
(* floor of the exact quotient.                                           *)
Threshold(cuSum, p) == (cuSum * p) \div 100

(* Seeded bug: the p100 entry read at index len * 100 / 100. *)
DistIndexNoLast(s, p) == Fee(s, (Len(s) * p) \div 100)

(* The entry of dist_fee_by_index for p: the last fee for p100, else the  *)
(* fee at index len * p / 100.                                            *)
DistByIndex(s, p) ==
    IF p = 100 THEN FeeOf(s, Len(s)) ELSE Fee(s, (Len(s) * p) \div 100)

VARIABLES
    input,      \* the argument prio_fees_in_block
    list,       \* the local prio_fees_in_block, sorted
    byIndex,    \* p_min, p_median, p_75, p_90, p_max, dist_fee_by_index
    cuSum,      \* cu_sum
    i,          \* the position of the for loop in list
    agg,        \* agg
    cuOpt,      \* med_cu, p75_cu, p90_cu, p95_cu (None before they are set)
    distCu,     \* the HashMap dist_fee_by_cu, None for an absent key
    stats,      \* the returned PrioFeesStats
    pc          \* "prepare" | "loop" | "done"

vars == <<input, list, byIndex, cuSum, i, agg, cuOpt, distCu, stats, pc>>

Init ==
    /\ input \in Inputs
    /\ list = <<>>
    /\ byIndex = [pMin |-> 0, pMedian |-> 0, p75 |-> 0, p90 |-> 0, pMax |-> 0,
                  dist |-> [p \in Pcts |-> 0]]
    /\ cuSum = 0
    /\ i = 1
    /\ agg = 0
    /\ cuOpt = [q \in CuPcts |-> None]
    /\ distCu = [p \in Pcts |-> None]
    /\ stats = [done |-> FALSE]
    /\ pc = "prepare"

-----------------------------------------------------------------------------
(* Default the empty list, sort, read the index percentiles and sum the   *)
(* compute units.                                                          *)
Prepare ==
    /\ pc = "prepare"
    /\ LET l == SortByFee(Sample(input))
           n == Len(l)
       IN /\ list' = l
          /\ byIndex' = [pMin |-> Fee(l, 0), pMedian |-> Fee(l, n \div 2),
                         p75 |-> Fee(l, (n * 75) \div 100), p90 |-> Fee(l, (n * 90) \div 100),
                         pMax |-> FeeOf(l, n),
                         dist |-> [p \in Pcts |-> DistByIndex(l, p)]]
          /\ cuSum' = SumFunctionOnSet([j \in DOMAIN l |-> CuOf(l, j)], DOMAIN l)
    /\ pc' = "loop"
    /\ UNCHANGED <<input, i, agg, cuOpt, distCu, stats>>

(* Seeded bug: the entry's compute units added after the checks. *)
AccumulateLateAdd ==
    /\ pc = "loop"
    /\ i <= Len(list)
    /\ LET Set(p, cur) == IF cur = None /\ agg > Threshold(cuSum, p)
                            THEN FeeOf(list, i) ELSE cur
       IN /\ cuOpt' = [q \in CuPcts |-> Set(q, cuOpt[q])]
          /\ distCu' = [p \in Pcts |-> Set(p, distCu[p])]
    /\ agg' = agg + CuOf(list, i)
    /\ i' = i + 1
    /\ UNCHANGED <<input, list, byIndex, cuSum, stats, pc>>

(* One iteration of the for loop: add the entry's compute units, then set *)
(* every percentile still unset whose threshold agg now exceeds.          *)
Accumulate ==
    /\ pc = "loop"
    /\ i <= Len(list)
    /\ LET a == agg + CuOf(list, i)
           Set(p, cur) == IF cur = None /\ a > Threshold(cuSum, p)
                            THEN FeeOf(list, i) ELSE cur
       IN /\ agg' = a
          /\ cuOpt' = [q \in CuPcts |-> Set(q, cuOpt[q])]
          /\ distCu' = [p \in Pcts |-> Set(p, distCu[p])]
    /\ i' = i + 1
    /\ UNCHANGED <<input, list, byIndex, cuSum, stats, pc>>

(* unwrap_or(0) of an Option. *)
OrZero(o) == IF o = None THEN 0 ELSE o

(* After the loop: keep the keys present in the map, unwrap the four      *)
(* percentiles to 0 when unset, and build PrioFeesStats.                  *)
Assemble ==
    /\ pc = "loop"
    /\ i > Len(list)
    /\ stats' = [done |-> TRUE, byIndex |-> byIndex,
                 cu |-> [q \in CuPcts |-> OrZero(cuOpt[q])],
                 distCu |-> Restrict(distCu, {p \in Pcts : distCu[p] # None})]
    /\ pc' = "done"
    /\ UNCHANGED <<input, list, byIndex, cuSum, i, agg, cuOpt, distCu>>

Returned ==
    /\ pc = "done"
    /\ UNCHANGED vars

Next == Prepare \/ Accumulate \/ Assemble \/ Returned

Spec == Init /\ [][Next]_vars

-----------------------------------------------------------------------------
(***************************************************************************)
(* Reference definitions, on the unsorted sample.                          *)
(***************************************************************************)
Fees(s) == {FeeOf(s, j) : j \in DOMAIN s}

(* The k-th smallest fee (0-based), counted with multiplicity: the least  *)
(* fee that more than k entries do not exceed.                            *)
OrderStat(s, k) ==
    Min({f \in Fees(s) : Cardinality({j \in DOMAIN s : FeeOf(s, j) <= f}) > k})

(* The compute units of the entries with a fee of at most f. *)
CuUpTo(s, f) ==
    SumFunctionOnSet([j \in DOMAIN s |-> CuOf(s, j)], {j \in DOMAIN s : FeeOf(s, j) <= f})

(* The CU-weighted p-th percentile: the least fee whose entries at or     *)
(* below it carry more than p percent of the compute units.               *)
CuRef(s, p) ==
    LET total == CuUpTo(s, Max(Fees(s)))
        F == {f \in Fees(s) : CuUpTo(s, f) > Threshold(total, p)}
    IN  IF F = {} THEN None ELSE Min(F)

-----------------------------------------------------------------------------
TypeOK ==
    /\ input \in Inputs
    /\ pc \in {"prepare", "loop", "done"}
    /\ i \in 1..(MaxLen + 2)
    /\ agg \in Nat /\ cuSum \in Nat
    /\ byIndex \in [pMin : 0..MaxFee, pMedian : 0..MaxFee, p75 : 0..MaxFee,
                    p90 : 0..MaxFee, pMax : 0..MaxFee, dist : [Pcts -> 0..MaxFee]]
    /\ cuOpt \in [CuPcts -> (0..MaxFee) \cup {None}]
    /\ distCu \in [Pcts -> (0..MaxFee) \cup {None}]

(* The index statistics are order statistics of the block: p_min, the    *)
(* median, p_75, p_90 and every entry of dist_fee_by_index below p100 are *)
(* the fee of rank len * p / 100, p_max and p100 the largest fee; no      *)
(* index is read past the end of the list.                                *)
IndexPercentilesMatch ==
    pc = "done" =>
        LET s == Sample(input)
            n == Len(s)
            Ref(p) == IF p = 100 THEN Max(Fees(s)) ELSE OrderStat(s, (n * p) \div 100)
        IN  /\ stats.byIndex.pMin = Ref(0)
            /\ stats.byIndex.pMedian = Ref(50)
            /\ stats.byIndex.p75 = Ref(75)
            /\ stats.byIndex.p90 = Ref(90)
            /\ stats.byIndex.pMax = Ref(100)
            /\ \A p \in Pcts : stats.byIndex.dist[p] = Ref(p)

(* The compute-unit loop computes weighted percentiles: each of med_cu,   *)
(* p75_cu, p90_cu, p95_cu and each key of dist_fee_by_cu is the least fee *)
(* whose entries carry more than that share of the block's compute units; *)
(* a key is absent, and a field 0, exactly when no fee does.              *)
CuPercentilesMatch ==
    pc = "done" =>
        LET s == Sample(input)
        IN  /\ \A q \in CuPcts : stats.cu[q] = OrZero(CuRef(s, q))
            /\ DOMAIN stats.distCu = {p \in Pcts : CuRef(s, p) # None}
            /\ \A p \in DOMAIN stats.distCu : stats.distCu[p] = CuRef(s, p)

(* The comment at line 87: dist_fee_by_cu runs from p0 to p100, like     *)
(* dist_fee_by_index.                                                      *)
DistByCuComplete ==
    pc = "done" => DOMAIN stats.distCu = Pcts
=============================================================================
