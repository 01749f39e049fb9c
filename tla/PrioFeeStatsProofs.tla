------------------------- MODULE PrioFeeStatsProofs -------------------------
(* Proofs about calculate_supp_stats (PrioFeeStats): the index statistics *)
(* read off the stably sorted block are its order statistics.            *)
EXTENDS PrioFeeStats, FiniteSetTheorems, TLAPS

USE MaxLenAssumption, MaxFeeAssumption, MaxCuAssumption

(***************************************************************************)
(* The stable sort.  Entry j precedes entry u when its fee is smaller, or *)
(* equal with an earlier position; Rank(s, u) is one more than the number *)
(* of entries preceding u.                                                *)
(***************************************************************************)
Prec(s, j, u) == FeeOf(s, j) < FeeOf(s, u) \/ (FeeOf(s, j) = FeeOf(s, u) /\ j < u)
Below(s, u) == {j \in DOMAIN s : Prec(s, j, u)}

(* The lists the lemmas are about: n (fee, cu) pairs of the model. *)
Lists(n) == [1..n -> Entries]

(* The shape of a list and of its fees. *)
LEMMA ListFacts ==
    ASSUME NEW n \in Nat, NEW s \in Lists(n)
    PROVE  /\ DOMAIN s = 1..n
           /\ Len(s) = n
           /\ \A j \in 1..n : FeeOf(s, j) \in 0..MaxFee
<1>1. s \in Seq(Entries)
  BY DEF Lists
<1>2. QED
  BY <1>1 DEF Lists, Entries, FeeOf

(* The entries preceding u are a finite set of other positions, and the *)
(* rank counts them.                                                    *)
LEMMA BelowFacts ==
    ASSUME NEW n \in Nat, NEW s \in Lists(n), NEW u \in 1..n
    PROVE  /\ Below(s, u) \subseteq (1..n) \ {u}
           /\ IsFiniteSet(Below(s, u))
           /\ Cardinality(Below(s, u)) \in 0..(n - 1)
           /\ Rank(s, u) = Cardinality(Below(s, u)) + 1
<1>1. Below(s, u) \subseteq (1..n) \ {u}
  BY ListFacts DEF Below, Prec
<1>2. IsFiniteSet((1..n) \ {u}) /\ Cardinality((1..n) \ {u}) = n - 1
  <2>1. IsFiniteSet(1..n) /\ Cardinality(1..n) = n
    BY FS_Interval
  <2>2. QED
    BY <2>1, FS_RemoveElement
<1>3. IsFiniteSet(Below(s, u)) /\ Cardinality(Below(s, u)) <= n - 1
  BY <1>1, <1>2, FS_Subset
<1>4. Cardinality(Below(s, u)) \in Nat
  BY <1>3, FS_CardinalityType
<1>5. Rank(s, u) = Cardinality(Below(s, u)) + 1
  BY DEF Rank, Below, Prec
<1>6. QED
  BY <1>1, <1>3, <1>4, <1>5

(* Precedence is a strict total order on the positions of a list. *)
LEMMA PrecOrder ==
    ASSUME NEW n \in Nat, NEW s \in Lists(n), NEW u \in 1..n, NEW j \in 1..n, NEW k \in 1..n
    PROVE  /\ ~Prec(s, u, u)
           /\ Prec(s, j, u) /\ Prec(s, u, k) => Prec(s, j, k)
           /\ u # j => Prec(s, u, j) \/ Prec(s, j, u)
           /\ Prec(s, j, u) => ~Prec(s, u, j)
BY ListFacts DEF Prec

(* An entry that precedes another has a smaller rank. *)
LEMMA RankMonotone ==
    ASSUME NEW n \in Nat, NEW s \in Lists(n), NEW u \in 1..n, NEW j \in 1..n,
           Prec(s, j, u)
    PROVE  Rank(s, j) < Rank(s, u)
<1>1. Below(s, j) \subseteq Below(s, u)
  BY PrecOrder, ListFacts DEF Below
<1>2. j \in Below(s, u) /\ j \notin Below(s, j)
  BY PrecOrder, ListFacts DEF Below
<1>3. Cardinality(Below(s, j)) < Cardinality(Below(s, u))
  <2>1. IsFiniteSet(Below(s, u)) /\ Cardinality(Below(s, u)) \in Nat
        /\ Cardinality(Below(s, j)) \in Nat
    BY BelowFacts
  <2>2. Cardinality(Below(s, j)) <= Cardinality(Below(s, u))
        /\ (Cardinality(Below(s, u)) = Cardinality(Below(s, j)) => Below(s, u) = Below(s, j))
    BY <1>1, <2>1, FS_Subset
  <2>3. QED
    BY <1>2, <2>1, <2>2
<1>4. QED
  BY <1>3, BelowFacts
(* The ranks of a list are a permutation of its positions. *)
LEMMA RankPermutes ==
    ASSUME NEW n \in Nat, NEW s \in Lists(n)
    PROVE  /\ \A u \in 1..n : Rank(s, u) \in 1..n
           /\ \A u, j \in 1..n : Rank(s, u) = Rank(s, j) => u = j
           /\ \A k \in 1..n : \E u \in 1..n : Rank(s, u) = k
<1> DEFINE f == [u \in 1..n |-> Rank(s, u)]
<1>1. \A u \in 1..n : Rank(s, u) \in 1..n
  BY BelowFacts
<1>2. \A u, j \in 1..n : Rank(s, u) = Rank(s, j) => u = j
  <2> SUFFICES ASSUME NEW u \in 1..n, NEW j \in 1..n, u # j PROVE Rank(s, u) # Rank(s, j)
    OBVIOUS
  <2>1. Prec(s, u, j) \/ Prec(s, j, u)
    BY PrecOrder
  <2>2. Prec(s, u, j) => Rank(s, u) < Rank(s, j)
    BY RankMonotone
  <2>3. Prec(s, j, u) => Rank(s, j) < Rank(s, u)
    BY RankMonotone
  <2>4. Rank(s, u) \in Nat /\ Rank(s, j) \in Nat
    BY BelowFacts
  <2>5. QED
    BY <2>1, <2>2, <2>3, <2>4
<1>3. f \in Injection(1..n, 1..n)
  BY <1>1, <1>2 DEF Injection, IsInjective, f
<1>4. f \in Surjection(1..n, 1..n)
  BY <1>3, FS_Interval, FS_Injection
<1>5. QED
  BY <1>1, <1>2, <1>4 DEF Surjection, f

(* The stable sort puts the entry of rank k at position k. *)
LEMMA SortedAt ==
    ASSUME NEW n \in Nat, NEW s \in Lists(n)
    PROVE  /\ Len(SortByFee(s)) = n
           /\ \A k \in 1..n : \E u \in 1..n : Rank(s, u) = k /\ SortByFee(s)[k] = s[u]
<1>1. Len(s) = n /\ DOMAIN s = 1..n
  BY ListFacts
<1>2. SortByFee(s) = [k \in 1..n |-> s[CHOOSE u \in 1..n : Rank(s, u) = k]]
  BY <1>1 DEF SortByFee
<1>3. Len(SortByFee(s)) = n
  BY <1>2
<1>4. \A k \in 1..n : \E u \in 1..n : Rank(s, u) = k /\ SortByFee(s)[k] = s[u]
  <2> SUFFICES ASSUME NEW k \in 1..n
               PROVE  \E u \in 1..n : Rank(s, u) = k /\ SortByFee(s)[k] = s[u]
    OBVIOUS
  <2>1. \E u \in 1..n : Rank(s, u) = k
    BY RankPermutes
  <2>2. QED
    BY <1>2, <2>1
<1>5. QED
  BY <1>3, <1>4

(* The fee of the entry of rank k + 1 is the k-th smallest fee. *)
LEMMA OrderStatAt ==
    ASSUME NEW n \in Nat, NEW s \in Lists(n), NEW u \in 1..n, NEW k \in Nat,
           Rank(s, u) = k + 1
    PROVE  OrderStat(s, k) = FeeOf(s, u)
<1> DEFINE Up(g) == {j \in DOMAIN s : FeeOf(s, j) <= g}
           F == {g \in Fees(s) : Cardinality(Up(g)) > k}
<1>1. /\ DOMAIN s = 1..n
      /\ \A j \in 1..n : FeeOf(s, j) \in 0..MaxFee
      /\ IsFiniteSet(1..n)
  <2>1. DOMAIN s = 1..n /\ \A j \in 1..n : FeeOf(s, j) \in 0..MaxFee
    BY ListFacts
  <2>2. IsFiniteSet(1..n)
    BY FS_Interval
  <2>3. QED
    BY <2>1, <2>2
<1>2. ASSUME NEW g PROVE IsFiniteSet(Up(g)) /\ Cardinality(Up(g)) \in Nat
  <2>1. Up(g) \subseteq 1..n
    BY <1>1 DEF Up
  <2>2. IsFiniteSet(Up(g))
    BY <1>1, <2>1, FS_Subset
  <2>3. QED
    BY <2>2, FS_CardinalityType
<1>3. Cardinality(Up(FeeOf(s, u))) > k
  <2>1. Below(s, u) \cup {u} \subseteq Up(FeeOf(s, u))
    BY <1>1 DEF Below, Prec, Up
  <2>2. IsFiniteSet(Below(s, u)) /\ u \notin Below(s, u)
        /\ Cardinality(Below(s, u)) = k
    BY BelowFacts
  <2>3. Cardinality(Below(s, u) \cup {u}) = k + 1
    BY <2>2, FS_AddElement
  <2>4. Cardinality(Below(s, u) \cup {u}) <= Cardinality(Up(FeeOf(s, u)))
    BY <1>2, <2>1, FS_Subset
  <2>5. Cardinality(Up(FeeOf(s, u))) \in Nat
    BY <1>2
  <2>6. QED
    BY <2>3, <2>4, <2>5
<1>4. ASSUME NEW g \in Fees(s), g < FeeOf(s, u) PROVE Cardinality(Up(g)) <= k
  <2>1. Up(g) \subseteq Below(s, u)
    <3>1. g \in Nat
      BY <1>1, <1>4 DEF Fees
    <3>2. QED
      BY <1>1, <1>4, <3>1 DEF Up, Below, Prec
  <2>2. IsFiniteSet(Below(s, u)) /\ Cardinality(Below(s, u)) = k
    BY BelowFacts
  <2>3. QED
    BY <2>1, <2>2, FS_Subset
<1>5. Fees(s) \subseteq Nat /\ FeeOf(s, u) \in Fees(s)
  BY <1>1 DEF Fees
<1>6. FeeOf(s, u) \in F /\ \A g \in F : FeeOf(s, u) <= g
  <2>1. FeeOf(s, u) \in F
    BY <1>3, <1>5 DEF F
  <2>2. ASSUME NEW g \in F PROVE FeeOf(s, u) <= g
    <3>1. g \in Fees(s) /\ Cardinality(Up(g)) > k
      BY <2>2 DEF F
    <3>2. ~(g < FeeOf(s, u))
      BY <3>1, <1>2, <1>4
    <3>3. QED
      BY <3>1, <3>2, <1>5
  <2>3. QED
    BY <2>1, <2>2
<1>7. Min(F) \in F /\ \A g \in F : Min(F) <= g
  BY <1>6 DEF Min
<1>8. F \subseteq Nat
  BY <1>5 DEF F
<1>9. Min(F) = FeeOf(s, u)
  <2>1. Min(F) \in Nat /\ FeeOf(s, u) \in Nat
    BY <1>6, <1>7, <1>8
  <2>2. Min(F) <= FeeOf(s, u) /\ FeeOf(s, u) <= Min(F)
    BY <1>6, <1>7
  <2>3. QED
    BY <2>1, <2>2
<1>10. QED
  BY <1>9 DEF OrderStat, F, Up

(* The entry of the last rank carries the largest fee. *)
LEMMA MaxAt ==
    ASSUME NEW n \in Nat, NEW s \in Lists(n), NEW u \in 1..n, Rank(s, u) = n
    PROVE  Max(Fees(s)) = FeeOf(s, u)
<1>1. /\ DOMAIN s = 1..n
      /\ \A j \in 1..n : FeeOf(s, j) \in 0..MaxFee
  BY ListFacts
<1>2. Below(s, u) = (1..n) \ {u}
  <2>1. Below(s, u) \subseteq (1..n) \ {u} /\ Cardinality(Below(s, u)) = n - 1
    BY BelowFacts
  <2>2. IsFiniteSet((1..n) \ {u}) /\ Cardinality((1..n) \ {u}) = n - 1
    <3>1. IsFiniteSet(1..n) /\ Cardinality(1..n) = n
      BY FS_Interval
    <3>2. QED
      BY <3>1, FS_RemoveElement
  <2>3. QED
    BY <2>1, <2>2, FS_Subset
<1>3. \A j \in 1..n : FeeOf(s, j) <= FeeOf(s, u)
  BY <1>1, <1>2 DEF Below, Prec
<1>4. FeeOf(s, u) \in Fees(s) /\ \A g \in Fees(s) : g <= FeeOf(s, u)
  BY <1>1, <1>3 DEF Fees
<1>5. Max(Fees(s)) \in Fees(s) /\ \A g \in Fees(s) : Max(Fees(s)) >= g
  BY <1>4 DEF Max
<1>6. Fees(s) \subseteq Nat
  BY <1>1 DEF Fees
<1>7. QED
  BY <1>4, <1>5, <1>6
(***************************************************************************)
(* The index statistics.                                                  *)
(***************************************************************************)
(* The record of p_min, p_median, p_75, p_90, p_max and dist_fee_by_index *)
(* that the preparation reads off the sorted list l.                      *)
ByIndexOf(l) ==
    [pMin |-> Fee(l, 0), pMedian |-> Fee(l, Len(l) \div 2),
     p75 |-> Fee(l, (Len(l) * 75) \div 100), p90 |-> Fee(l, (Len(l) * 90) \div 100),
     pMax |-> FeeOf(l, Len(l)),
     dist |-> [p \in Pcts |-> DistByIndex(l, p)]]

(* The reference value of the p-th index percentile of a block s. *)
RefStat(s, p) == IF p = 100 THEN Max(Fees(s)) ELSE OrderStat(s, (Len(s) * p) \div 100)

(* The block the statistics are computed on is a nonempty list. *)
LEMMA SampleList ==
    ASSUME NEW s \in Inputs
    PROVE  \E n \in 1..(MaxLen + 1) : Sample(s) \in Lists(n)
<1>1. PICK m \in 0..MaxLen : s \in [1..m -> Entries]
  BY DEF Inputs
<1>2. CASE m = 0
  <2>1. s = <<>>
    BY <1>1, <1>2
  <2>2. <<0, 0>> \in Entries
    BY DEF Entries
  <2>3. Sample(s) = [k \in 1..1 |-> <<0, 0>>]
    BY <2>1 DEF Sample
  <2>4. QED
    BY <2>2, <2>3 DEF Lists
<1>3. CASE m # 0
  <2>1. s # <<>>
    BY <1>1, <1>3
  <2>2. QED
    BY <1>1, <1>3, <2>1 DEF Sample, Lists
<1>4. QED
  BY <1>2, <1>3

(* Reading the sorted list at index k gives the k-th smallest fee. *)
LEMMA FeeAtIndex ==
    ASSUME NEW n \in Nat, NEW t \in Lists(n), NEW k \in 0..(n - 1)
    PROVE  Fee(SortByFee(t), k) = OrderStat(t, k)
<1>1. Len(SortByFee(t)) = n
  BY SortedAt
<1>2. PICK u \in 1..n : Rank(t, u) = k + 1 /\ SortByFee(t)[k + 1] = t[u]
  BY SortedAt
<1>3. Fee(SortByFee(t), k) = FeeOf(t, u)
  BY <1>1, <1>2 DEF Fee, FeeOf
<1>4. QED
  BY <1>2, <1>3, OrderStatAt

(* The last entry of the sorted list carries the largest fee. *)
LEMMA LastFee ==
    ASSUME NEW n \in Nat \ {0}, NEW t \in Lists(n)
    PROVE  FeeOf(SortByFee(t), Len(SortByFee(t))) = Max(Fees(t))
<1>1. Len(SortByFee(t)) = n
  BY SortedAt
<1>2. PICK u \in 1..n : Rank(t, u) = n /\ SortByFee(t)[n] = t[u]
  BY SortedAt
<1>3. QED
  BY <1>1, <1>2, MaxAt DEF FeeOf

(* Below p100 the index len * p / 100 is inside the list. *)
LEMMA IndexInside ==
    ASSUME NEW n \in Nat \ {0}, NEW p \in Pcts \ {100}
    PROVE  (n * p) \div 100 \in 0..(n - 1)
<1>1. p \in 0..95
  BY DEF Pcts
<1>2. n * p <= n * 95
  BY <1>1
<1>3. QED
  BY <1>1, <1>2

(* Every index statistic of the preparation is the reference statistic. *)
LEMMA ByIndexCorrect ==
    ASSUME NEW n \in Nat \ {0}, NEW t \in Lists(n)
    PROVE  LET b == ByIndexOf(SortByFee(t))
           IN  /\ b.pMin = RefStat(t, 0)
               /\ b.pMedian = RefStat(t, 50)
               /\ b.p75 = RefStat(t, 75)
               /\ b.p90 = RefStat(t, 90)
               /\ b.pMax = RefStat(t, 100)
               /\ \A p \in Pcts : b.dist[p] = RefStat(t, p)
<1>1. Len(SortByFee(t)) = n /\ Len(t) = n
  BY SortedAt, ListFacts
<1>2. \A p \in Pcts \ {100} : Fee(SortByFee(t), (n * p) \div 100) = RefStat(t, p)
  <2> SUFFICES ASSUME NEW p \in Pcts \ {100}
               PROVE  Fee(SortByFee(t), (n * p) \div 100) = RefStat(t, p)
    OBVIOUS
  <2>1. (n * p) \div 100 \in 0..(n - 1)
    BY IndexInside
  <2>2. QED
    BY <1>1, <2>1, FeeAtIndex DEF RefStat
<1>3. FeeOf(SortByFee(t), n) = RefStat(t, 100)
  BY <1>1, LastFee DEF RefStat
<1>4. {0, 50, 75, 90} \subseteq Pcts \ {100} /\ 100 \in Pcts
  BY DEF Pcts
<1>5. n \div 2 = (n * 50) \div 100 /\ 0 = (n * 0) \div 100
  OBVIOUS
<1>6. \A p \in Pcts : DistByIndex(SortByFee(t), p) = RefStat(t, p)
  BY <1>1, <1>2, <1>3 DEF DistByIndex
<1>7. QED
  BY <1>1, <1>2, <1>3, <1>4, <1>5, <1>6 DEF ByIndexOf
(***************************************************************************)
(* The invariant: the preparation's index statistics are those of the     *)
(* sorted sample, and the returned PrioFeesStats carries them unchanged   *)
(* through the compute-unit loop.                                         *)
(***************************************************************************)
PInv ==
    /\ input \in Inputs
    /\ pc \in {"prepare", "loop", "done"}
    /\ pc \in {"loop", "done"} => byIndex = ByIndexOf(SortByFee(Sample(input)))
    /\ pc = "done" => stats.byIndex = byIndex

LEMMA InitPInv == Init => PInv
BY DEF Init, PInv

(* Each step of calculate_supp_stats preserves the invariant. *)
LEMMA PInvStep == PInv /\ [Next]_vars => PInv'
<1> SUFFICES ASSUME PInv, [Next]_vars PROVE PInv'
  OBVIOUS
<1>1. CASE Prepare
  <2>1. byIndex' = ByIndexOf(SortByFee(Sample(input)))
    BY <1>1 DEF Prepare, ByIndexOf
  <2>2. QED
    BY <1>1, <2>1 DEF Prepare, PInv
<1>2. CASE Accumulate
  BY <1>2 DEF Accumulate, PInv
<1>3. CASE Assemble
  BY <1>3 DEF Assemble, PInv
<1>4. CASE Returned \/ UNCHANGED vars
  BY <1>4 DEF Returned, vars, PInv
<1>5. QED
  BY <1>1, <1>2, <1>3, <1>4 DEF Next

(* The invariant implies that the returned index statistics are the     *)
(* order statistics of the block.                                       *)
LEMMA PInvMatch == PInv => IndexPercentilesMatch
<1> SUFFICES ASSUME PInv, pc = "done"
             PROVE  LET s == Sample(input)
                        n == Len(s)
                        Ref(p) == IF p = 100 THEN Max(Fees(s)) ELSE OrderStat(s, (n * p) \div 100)
                    IN  /\ stats.byIndex.pMin = Ref(0)
                        /\ stats.byIndex.pMedian = Ref(50)
                        /\ stats.byIndex.p75 = Ref(75)
                        /\ stats.byIndex.p90 = Ref(90)
                        /\ stats.byIndex.pMax = Ref(100)
                        /\ \A p \in Pcts : stats.byIndex.dist[p] = Ref(p)
  BY DEF IndexPercentilesMatch
<1>1. stats.byIndex = ByIndexOf(SortByFee(Sample(input)))
  BY DEF PInv
<1>2. PICK n \in 1..(MaxLen + 1) : Sample(input) \in Lists(n)
  BY SampleList DEF PInv
<1>3. LET b == ByIndexOf(SortByFee(Sample(input)))
      IN  /\ b.pMin = RefStat(Sample(input), 0)
          /\ b.pMedian = RefStat(Sample(input), 50)
          /\ b.p75 = RefStat(Sample(input), 75)
          /\ b.p90 = RefStat(Sample(input), 90)
          /\ b.pMax = RefStat(Sample(input), 100)
          /\ \A p \in Pcts : b.dist[p] = RefStat(Sample(input), p)
  BY <1>2, ByIndexCorrect
<1>4. QED
  BY <1>1, <1>3 DEF RefStat

(* calculate_supp_stats computes order statistics: for every block of     *)
(* every length, p_min, the median, p_75, p_90 and dist_fee_by_index      *)
(* below p100 are the fee of rank len * p / 100 of the block, and p_max  *)
(* and p100 its largest fee; no index is read past the end of the list.  *)
THEOREM IndexPercentilesCorrect == Spec => []IndexPercentilesMatch
<1>1. Spec => []PInv
  BY InitPInv, PInvStep, PTL DEF Spec
<1>2. QED
  BY <1>1, PInvMatch, PTL
=============================================================================
