--------------------------- MODULE NumericsProofs ---------------------------
(***************************************************************************)
(* Proofs about the three components that only compute, for every size of   *)
(* window, grid, neighbourhood and image.                                  *)
(*                                                                         *)
(* RollingStatistics: every sequence has a sorted copy, and the element at  *)
(* the rank of a percentile is the nearest rank of the samples.            *)
(*                                                                         *)
(* GridStrain: the sums of the normal equations are linear in what is       *)
(* summed, which is shown by the least number of terms for which they might *)
(* not be; three of the eight neighbours never lie on one line through the  *)
(* point; so the equations have one solution, and it is the gradient.       *)
(*                                                                         *)
(* GridSearch: the loops that walk the grid and the checks of the samples   *)
(* keep every read inside the image.                                       *)
(***************************************************************************)
EXTENDS Numerics, FiniteSetTheorems, SequenceTheorems, WellFoundedInduction, TLAPS

-----------------------------------------------------------------------------
(* Sorting.                                                                *)

(* The order of a stable sort: equal samples keep theirs.                   *)
Before(s, i, j) == s[i] < s[j] \/ (s[i] = s[j] /\ i < j)

(* The samples that come before one, and the place they leave to it.        *)
Earlier(s, i) == {j \in 1 .. Len(s) : Before(s, j, i)}
Place(s, i) == Cardinality(Earlier(s, i)) + 1

(* The samples that come before one are fewer than there are.               *)
LEMMA EarlierFinite ==
    ASSUME NEW s \in Seq(Int), NEW i \in 1 .. Len(s)
    PROVE  /\ IsFiniteSet(Earlier(s, i)) /\ Cardinality(Earlier(s, i)) \in Nat
           /\ Place(s, i) \in 1 .. Len(s)
<1> DEFINE all == 1 .. Len(s)
<1>1. Len(s) \in Nat /\ i \in Int
  OBVIOUS
<1>2. IsFiniteSet(all) /\ Cardinality(all) = Len(s)
  <2>1. IsFiniteSet(all) /\ Cardinality(all) = IF 1 > Len(s) THEN 0 ELSE Len(s) - 1 + 1
    BY <1>1, FS_Interval
  <2>2. QED  BY <1>1, <2>1
<1>3. Earlier(s, i) \in SUBSET all /\ i \notin Earlier(s, i)
  BY <1>1 DEF Earlier, Before
<1> HIDE DEF all
<1>4. IsFiniteSet(Earlier(s, i)) /\ Cardinality(Earlier(s, i)) <= Len(s)
        /\ (Cardinality(Earlier(s, i)) = Len(s) => Earlier(s, i) = all)
  BY <1>2, <1>3, FS_Subset
<1>5. i \in all
  BY DEF all
<1>6. Cardinality(Earlier(s, i)) # Len(s)
  BY <1>3, <1>4, <1>5
<1>7. Cardinality(Earlier(s, i)) \in Nat
  BY <1>4, FS_CardinalityType
<1>8. QED  BY <1>1, <1>4, <1>6, <1>7 DEF Place

(* One that comes before another has a place before it.                     *)
LEMMA PlaceOrders ==
    ASSUME NEW s \in Seq(Int), NEW i \in 1 .. Len(s), NEW j \in 1 .. Len(s), Before(s, i, j)
    PROVE  Place(s, i) < Place(s, j)
<1>1. \A k \in 1 .. Len(s) : k \in Int /\ s[k] \in Int
  OBVIOUS
<1>2. i \notin Earlier(s, i)
  BY <1>1 DEF Earlier, Before
<1>3. Earlier(s, i) \cup {i} \in SUBSET Earlier(s, j)
  BY <1>1 DEF Earlier, Before
<1>4. Cardinality(Earlier(s, i) \cup {i}) = Cardinality(Earlier(s, i)) + 1
  BY <1>2, EarlierFinite, FS_AddElement
<1>5. Cardinality(Earlier(s, i) \cup {i}) <= Cardinality(Earlier(s, j))
  BY <1>3, EarlierFinite, FS_Subset
<1>6. Cardinality(Earlier(s, i)) \in Nat /\ Cardinality(Earlier(s, j)) \in Nat
  BY EarlierFinite
<1>7. QED  BY <1>4, <1>5, <1>6 DEF Place

(* What Ascending chooses.                                                 *)
Sorts(p, s) ==
    /\ p \in [1 .. Len(s) -> 1 .. Len(s)]
    /\ \A i, j \in 1 .. Len(s) : i < j => p[i] # p[j] /\ s[p[i]] <= s[p[j]]

(* Any sequence of numbers can be sorted.                                   *)
LEMMA Sortable ==
    ASSUME NEW s \in Seq(Int)
    PROVE  \E p : Sorts(p, s)
<1> DEFINE all == 1 .. Len(s)
           f == [i \in all |-> Place(s, i)]
           p == [k \in all |-> CHOOSE i \in all : f[i] = k]
<1>1. Len(s) \in Nat /\ \A i \in all : i \in Int /\ s[i] \in Int
  OBVIOUS
<1>2. IsFiniteSet(all)
  BY <1>1, FS_Interval
<1>3. \A i \in all : Place(s, i) \in all
  BY EarlierFinite
<1>4. \A i, j \in all : Before(s, i, j) => Place(s, i) < Place(s, j)
  BY PlaceOrders
<1>5. \A i, j \in all : i = j \/ Before(s, i, j) \/ Before(s, j, i)
  BY <1>1 DEF Before
<1>6. \A i, j \in all : i # j => Place(s, i) # Place(s, j)
  <2> SUFFICES ASSUME NEW i \in all, NEW j \in all, i # j PROVE Place(s, i) # Place(s, j)
    OBVIOUS
  <2>1. Place(s, i) \in Int /\ Place(s, j) \in Int
    BY <1>3
  <2>2. Place(s, i) < Place(s, j) \/ Place(s, j) < Place(s, i)
    BY <1>4, <1>5
  <2>3. QED  BY <2>1, <2>2
<1>7. f \in [all -> all] /\ \A i \in all : f[i] = Place(s, i)
  BY <1>3
<1> HIDE DEF all, f
<1>8. f \in Injection(all, all)
  BY <1>6, <1>7 DEF Injection, IsInjective
<1>9. f \in Surjection(all, all)
  BY <1>2, <1>8, FS_Injection
<1>10. \A k \in all : \E i \in all : f[i] = k
  BY <1>9 DEF Surjection
<1>11. \A k \in all : p[k] \in all /\ f[p[k]] = k
  BY <1>10
<1>12. p \in [all -> all]
  BY <1>11
<1> HIDE DEF p
<1>13. ASSUME NEW i \in all, NEW j \in all, i < j PROVE p[i] # p[j] /\ s[p[i]] <= s[p[j]]
  <2>1. p[i] \in all /\ p[j] \in all /\ Place(s, p[i]) = i /\ Place(s, p[j]) = j
    BY <1>7, <1>11
  <2>2. i \in Int /\ j \in Int
    BY <1>1
  <2>3. p[i] # p[j]
    BY <1>13, <2>1, <2>2
  <2>4. ~Before(s, p[j], p[i])
    <3>1. Before(s, p[j], p[i]) => Place(s, p[j]) < Place(s, p[i])
      BY <1>4, <2>1
    <3>2. QED  BY <1>13, <2>1, <2>2, <3>1
  <2>5. Before(s, p[i], p[j])
    BY <1>5, <2>1, <2>3, <2>4
  <2>6. QED  BY <1>1, <2>1, <2>3, <2>5 DEF Before
<1>14. QED  BY <1>12, <1>13 DEF Sorts, all

(* The sorted copy of a sequence is as long, has its samples, each once, and *)
(* they ascend.                                                            *)
LEMMA AscendingSorts ==
    ASSUME NEW s \in Seq(Int)
    PROVE  \E p : Sorts(p, s) /\ Ascending(s) = [i \in 1 .. Len(s) |-> s[p[i]]]
<1> DEFINE order == CHOOSE p \in [DOMAIN s -> DOMAIN s] :
                      \A i, j \in DOMAIN s : i < j => p[i] # p[j] /\ s[p[i]] <= s[p[j]]
<1>1. DOMAIN s = 1 .. Len(s)
  OBVIOUS
<1>2. \E p \in [DOMAIN s -> DOMAIN s] :
        \A i, j \in DOMAIN s : i < j => p[i] # p[j] /\ s[p[i]] <= s[p[j]]
  BY <1>1, Sortable DEF Sorts
<1>3. Sorts(order, s)
  BY <1>1, <1>2 DEF Sorts
<1>4. Ascending(s) = [i \in DOMAIN s |-> s[order[i]]]
  BY DEF Ascending
<1> HIDE DEF order
<1>5. QED  BY <1>1, <1>3, <1>4

(* The samples that are not above a value, and those below it.              *)
NotAbove(s, value) == {i \in DOMAIN s : s[i] <= value}
Below(s, value) == {i \in DOMAIN s : s[i] < value}

(* Of a sorted sequence, k samples are not above the k-th, and fewer than k   *)
(* are below it.                                                           *)
LEMMA RankCounts ==
    ASSUME NEW s \in Seq(Int), NEW k \in 1 .. Len(s)
    PROVE  LET value == Ascending(s)[k]
           IN  /\ Contains(s, value) /\ value \in Int
               /\ Cardinality(NotAbove(s, value)) >= k
               /\ Cardinality(Below(s, value)) <= k - 1
               /\ Cardinality(NotAbove(s, value)) \in Nat
               /\ Cardinality(Below(s, value)) \in Nat
               /\ k = Len(s) => \A i \in 1 .. Len(s) : s[i] <= value
<1> DEFINE n == Len(s)
           all == 1 .. n
           value == Ascending(s)[k]
           below == {i \in all : s[i] < value}
           above == {i \in all : ~(s[i] < value)}
           upTo == {i \in all : s[i] <= value}
<1>1. PICK p : Sorts(p, s) /\ Ascending(s) = [i \in all |-> s[p[i]]]
  BY AscendingSorts
<1>2. n \in Nat /\ k \in all /\ DOMAIN s = all /\ \A i \in all : i \in Int /\ s[i] \in Int
  OBVIOUS
<1>3. /\ p \in [all -> all]
      /\ \A i, j \in all : i < j => p[i] # p[j] /\ s[p[i]] <= s[p[j]]
      /\ value = s[p[k]]
  BY <1>1 DEF Sorts
<1>4. IsFiniteSet(all) /\ Cardinality(all) = n
  <2>1. IsFiniteSet(all) /\ Cardinality(all) = IF 1 > n THEN 0 ELSE n - 1 + 1
    BY <1>2, FS_Interval
  <2>2. QED  BY <1>2, <2>1
<1> HIDE DEF n, value
<1>5. value \in Int /\ \A i \in all : s[i] \in Int /\ i \in Int /\ p[i] \in all
  BY <1>2, <1>3
<1>6. \A i, j \in all : i # j => p[i] # p[j]
  <2> SUFFICES ASSUME NEW i \in all, NEW j \in all, i # j PROVE p[i] # p[j]
    OBVIOUS
  <2>1. i < j \/ j < i
    BY <1>2
  <2>2. QED  BY <1>3, <2>1
<1>7. Cardinality(upTo) >= k /\ Cardinality(upTo) \in Nat
  <2> DEFINE f == [i \in 1 .. k |-> p[i]]
  <2>1. upTo \in SUBSET all
    OBVIOUS
  <2>2. IsFiniteSet(upTo) /\ Cardinality(upTo) \in Nat
    BY <1>4, <2>1, FS_Subset, FS_CardinalityType
  <2>3. ASSUME NEW i \in 1 .. k PROVE i \in all /\ p[i] \in upTo
    <3>1. i \in all /\ k \in all /\ (i = k \/ i < k)
      BY <1>2
    <3>2. s[p[i]] <= value
      BY <1>3, <1>5, <3>1
    <3>3. QED  BY <1>5, <3>1, <3>2
  <2>4. f \in [1 .. k -> upTo] /\ \A i \in 1 .. k : f[i] = p[i]
    BY <2>3
  <2>5. f \in Injection(1 .. k, upTo)
    <3> HIDE DEF f, upTo
    <3>1. QED  BY <1>6, <2>3, <2>4 DEF Injection, IsInjective
  <2>6. Cardinality(1 .. k) <= Cardinality(upTo)
    BY <2>2, <2>5, FS_Injection
  <2>7. Cardinality(1 .. k) = IF 1 > k THEN 0 ELSE k - 1 + 1
    BY <1>2, FS_Interval
  <2> HIDE DEF upTo
  <2>8. QED  BY <1>2, <2>2, <2>6, <2>7
<1>8. Cardinality(below) <= k - 1 /\ Cardinality(below) \in Nat
  <2> DEFINE f == [i \in k .. n |-> p[i]]
  <2>1. above \in SUBSET all /\ below \in SUBSET all
    OBVIOUS
  <2>2. /\ IsFiniteSet(above) /\ Cardinality(above) \in Nat
        /\ IsFiniteSet(below) /\ Cardinality(below) \in Nat
    BY <1>4, <2>1, FS_Subset, FS_CardinalityType
  <2>3. ASSUME NEW i \in k .. n PROVE i \in all /\ p[i] \in above
    <3>1. i \in all /\ k \in all /\ (i = k \/ k < i)
      BY <1>2
    <3>2. ~(s[p[i]] < value)
      <4>1. value = s[p[k]] /\ s[p[i]] \in Int /\ value \in Int
        BY <1>3, <1>5, <3>1
      <4>2. i = k \/ value <= s[p[i]]
        BY <1>3, <3>1
      <4>3. QED  BY <4>1, <4>2
    <3>3. QED  BY <1>5, <3>1, <3>2
  <2>4. f \in [k .. n -> above] /\ \A i \in k .. n : f[i] = p[i]
    BY <2>3
  <2>5. f \in Injection(k .. n, above)
    <3> HIDE DEF f, above
    <3>1. QED  BY <1>6, <2>3, <2>4 DEF Injection, IsInjective
  <2>6. Cardinality(k .. n) <= Cardinality(above)
    BY <2>2, <2>5, FS_Injection
  <2>7. Cardinality(k .. n) = IF k > n THEN 0 ELSE n - k + 1
    BY <1>2, FS_Interval
  <2>8. Cardinality(all) = Cardinality(above) + Cardinality(below) - Cardinality({})
    <3>1. above \cup below = all /\ above \cap below = {}
      OBVIOUS
    <3> HIDE DEF above, below, all
    <3>2. QED  BY <2>2, <3>1, FS_Union
  <2> HIDE DEF above, below
  <2>9. n - k + 1 <= Cardinality(above)
    BY <1>2, <2>6, <2>7
  <2>10. Cardinality(below) = n - Cardinality(above)
    BY <1>2, <1>4, <2>2, <2>8, FS_EmptySet
  <2>11. QED  BY <1>2, <2>2, <2>9, <2>10
<1>9. Contains(s, value)
  BY <1>2, <1>3, <1>5 DEF Contains, n
<1>10. ASSUME k = n, NEW i \in all PROVE s[i] <= value
  <2>1. Cardinality(upTo) = n
    <3>1. upTo \in SUBSET all
      OBVIOUS
    <3> HIDE DEF upTo
    <3>2. Cardinality(upTo) <= n
      BY <1>4, <3>1, FS_Subset
    <3>3. QED  BY <1>2, <1>7, <1>10, <3>2
  <2>2. upTo = all
    <3>1. upTo \in SUBSET all
      OBVIOUS
    <3> HIDE DEF upTo
    <3>2. QED  BY <1>4, <2>1, <3>1, FS_Subset
  <2>3. QED  BY <1>10, <2>2
<1>11. QED
  <2>1. upTo = NotAbove(s, value) /\ below = Below(s, value)
    BY <1>2 DEF NotAbove, Below
  <2> HIDE DEF upTo, below
  <2>2. QED  BY <1>5, <1>7, <1>8, <1>9, <1>10, <2>1 DEF n, value

(* The nearest rank, rounded up: 100 * rank >= q > 100 * (rank - 1).         *)
LEMMA RankRoundsUp ==
    \A q, n \in Nat : q > 0 /\ q <= 100 * n =>
        /\ (q + 99) \div 100 \in 1 .. n
        /\ 100 * ((q + 99) \div 100) >= q /\ 100 * ((q + 99) \div 100 - 1) < q
BY Z3

(* Percentile is the nearest-rank percentile of any samples.                *)
LEMMA PercentileIsRank ==
    ASSUME NEW s \in Seq(Int), s # <<>>, NEW percent \in {50, 95, 99}
    PROVE  IsPercentile(Percentile(Ascending(s), percent), s, percent)
<1> DEFINE n == Len(s)
           rank == (percent * n + 99) \div 100
<1>1. n \in Nat /\ n > 0 /\ percent \in Nat
  OBVIOUS
<1>2. PICK p : Sorts(p, s) /\ Ascending(s) = [i \in 1 .. n |-> s[p[i]]]
  BY AscendingSorts
<1>3. Len(Ascending(s)) = n
  BY <1>1, <1>2
<1> HIDE DEF n
<1>4. percent * n \in Nat /\ percent * n > 0 /\ percent * n <= 100 * n
  BY <1>1
<1>5. rank \in 1 .. n /\ 100 * rank >= percent * n /\ 100 * (rank - 1) < percent * n
  BY <1>1, <1>4, RankRoundsUp
<1> HIDE DEF rank
<1>6. AtMost(n - 1, AtLeast(1, rank) - 1) + 1 = rank
  BY <1>1, <1>5 DEF AtMost, AtLeast
<1>7. Percentile(Ascending(s), percent) = Ascending(s)[rank]
  BY <1>3, <1>6 DEF Percentile, rank
<1> DEFINE value == Ascending(s)[rank]
           upTo == Cardinality(NotAbove(s, value))
           below == Cardinality(Below(s, value))
<1>8. Contains(s, value) /\ upTo >= rank /\ below <= rank - 1 /\ upTo \in Nat /\ below \in Nat
  BY <1>5, RankCounts DEF n
<1> HIDE DEF upTo, below
<1>9. 100 * upTo >= percent * n /\ 100 * below < percent * n
  BY <1>1, <1>4, <1>5, <1>8
<1>10. QED  BY <1>7, <1>8, <1>9 DEF IsPercentile, NotAbove, Below, upTo, below, n

-----------------------------------------------------------------------------
(* The rolling statistics.                                                 *)

(* The window has the last samples, as many as there are up to Capacity.    *)
WindowInv ==
    /\ window \in Seq(Nat) /\ added \in Seq(Nat)
    /\ Len(window) = AtMost(Capacity, Len(added))
    /\ \A i \in 1 .. Len(window) : window[i] = added[Len(added) - Len(window) + i]

(* An empty window has them.                                               *)
LEMMA IdleWindow == StatisticsIdle => WindowInv
BY CapacityAssumption DEF StatisticsIdle, WindowInv, AtMost

(* A window that is full makes room by losing its oldest sample.            *)
LEMMA AddKeepsWindow == ASSUME WindowInv, Add PROVE WindowInv'
<1>1. CASE UNCHANGED statisticsVars
  BY <1>1 DEF WindowInv, statisticsVars
<1>2. CASE ~UNCHANGED statisticsVars
  <2>1. PICK value \in Samples :
          /\ window' = Append(IF Len(window) = Capacity THEN Tail(window) ELSE window, value)
          /\ added' = Append(added, value)
    <3>1. PICK value \in Samples \cup {-1} :
            IF value < 0 THEN UNCHANGED statisticsVars
            ELSE /\ Len(added) < MaxSamples
                 /\ window' = Append(IF Len(window) = Capacity THEN Tail(window) ELSE window, value)
                 /\ added' = Append(added, value)
      BY DEF Add
    <3>2. ~(value < 0)
      BY <1>2, <3>1
    <3>3. QED  BY <3>1, <3>2
  <2> DEFINE kept == IF Len(window) = Capacity THEN Tail(window) ELSE window
             lost == IF Len(window) = Capacity THEN 1 ELSE 0
             w == Len(window)
             a == Len(added)
  <2>2. /\ value \in Nat /\ Capacity \in Nat \ {0}
        /\ w \in Nat /\ a \in Nat /\ w = AtMost(Capacity, a)
        /\ window \in Seq(Nat) /\ added \in Seq(Nat)
    BY CapacityAssumption DEF WindowInv
  <2>3. kept \in Seq(Nat) /\ Len(kept) = w - lost /\ \A i \in 1 .. w - lost : kept[i] = window[i + lost]
    <3>1. CASE w = Capacity
      <4>1. window # <<>>
        BY <2>2, <3>1
      <4>2. Tail(window) \in Seq(Nat) /\ Len(Tail(window)) = w - 1
        BY <2>2, <4>1
      <4>3. \A i \in 1 .. w - 1 : Tail(window)[i] = window[i + 1]
        BY <2>2, <4>1, <4>2
      <4>4. QED  BY <3>1, <4>2, <4>3
    <3>2. CASE w # Capacity
      BY <2>2, <3>2
    <3>3. QED  BY <3>1, <3>2
  <2>4. window' = Append(kept, value) /\ added' = Append(added, value)
    BY <2>1
  <2>5. lost \in 0 .. 1 /\ w - lost + 1 = AtMost(Capacity, a + 1) /\ w - lost \in Nat
    <3> HIDE DEF w, a
    <3>1. lost = IF w = Capacity THEN 1 ELSE 0
      BY DEF w
    <3> HIDE DEF lost
    <3>2. QED  BY <2>2, <3>1 DEF AtMost
  <2>6. \A i \in 1 .. w : window[i] = added[a - w + i]
    BY DEF WindowInv
  <2>7. w <= a
    BY <2>2 DEF AtMost
  <2> HIDE DEF kept, lost, w, a
  <2>8. /\ window' \in Seq(Nat) /\ Len(window') = w - lost + 1
        /\ added' \in Seq(Nat) /\ Len(added') = a + 1
    BY <2>2, <2>3, <2>4 DEF a
  <2>9. ASSUME NEW i \in 1 .. w - lost + 1
        PROVE  window'[i] = added'[(a + 1) - (w - lost + 1) + i]
    <3>1. CASE i = w - lost + 1
      <4>1. window'[i] = value
        BY <2>2, <2>3, <2>4, <3>1
      <4>2. added'[a + 1] = value
        BY <2>2, <2>4 DEF a
      <4>3. (a + 1) - (w - lost + 1) + i = a + 1
        BY <2>2, <2>5, <3>1
      <4>4. QED  BY <4>1, <4>2, <4>3
    <3>2. CASE i \in 1 .. w - lost
      <4>1. window'[i] = window[i + lost]
        BY <2>2, <2>3, <2>4, <3>2
      <4>2. i + lost \in 1 .. w /\ (a + 1) - (w - lost + 1) + i = a - w + (i + lost)
        <5>1. i \in Int /\ lost \in Int /\ w \in Int /\ a \in Int /\ 1 <= i /\ i <= w - lost
              /\ 0 <= lost
          BY <2>2, <2>5, <3>2
        <5>2. QED  BY <5>1
      <4>3. a - w + (i + lost) \in 1 .. a
        BY <2>2, <2>7, <4>2
      <4>4. added'[a - w + (i + lost)] = added[a - w + (i + lost)]
        BY <2>2, <2>4, <4>3 DEF a
      <4>5. QED  BY <2>6, <4>1, <4>2, <4>4
    <3>3. i = w - lost + 1 \/ i \in 1 .. w - lost
      <4>1. w - lost \in Nat
        BY <2>2, <2>5
      <4>2. QED  BY <4>1
    <3>4. QED  BY <3>1, <3>2, <3>3
  <2>10. Len(window') = AtMost(Capacity, Len(added'))
    BY <2>5, <2>8
  <2>11. \A i \in 1 .. Len(window') : window'[i] = added'[Len(added') - Len(window') + i]
    BY <2>8, <2>9
  <2>12. QED  BY <2>8, <2>10, <2>11 DEF WindowInv
<1>3. QED  BY <1>1, <1>2

(* So does every step of the statistics, clear included.                    *)
LEMMA StatisticsKeepWindow == ASSUME WindowInv, [StatisticsNext]_statisticsVars PROVE WindowInv'
<1>1. CASE Clear
  BY <1>1, CapacityAssumption DEF Clear, WindowInv, AtMost
<1>2. CASE UNCHANGED statisticsVars
  BY <1>2 DEF WindowInv, statisticsVars
<1>3. QED  BY <1>1, <1>2, AddKeepsWindow DEF StatisticsNext

(* The statistics of such a window are those of the last samples.           *)
LEMMA WindowSnapshot == ASSUME WindowInv PROVE SnapshotIsOfTheLast
<1> DEFINE n == AtMost(Capacity, Len(added))
           last == SubSeq(added, Len(added) - n + 1, Len(added))
<1>1. /\ window \in Seq(Nat) /\ added \in Seq(Nat) /\ Len(window) = n /\ Len(added) \in Nat
      /\ n \in 0 .. Len(added)
  BY CapacityAssumption DEF WindowInv, AtMost
<1>2. last = window
  <2> DEFINE c == Len(added)
             m == c - n + 1
  <2>1. /\ m \in Int /\ c \in Int /\ c - m + 1 = n /\ n \in Nat
        /\ \A i \in m .. c : i \in 1 .. c /\ added[i] \in Nat
        /\ \A i \in 1 .. n : m + i - 1 = c - n + i
        /\ n = IF m <= c THEN c - m + 1 ELSE 0
    <3> HIDE DEF n
    <3>1. c \in Nat /\ n \in 0 .. c /\ added \in Seq(Nat)
      BY <1>1
    <3>2. m \in Int /\ c \in Int /\ c - m + 1 = n /\ n \in Nat
            /\ (\A i \in m .. c : i \in 1 .. c) /\ (\A i \in 1 .. n : m + i - 1 = c - n + i)
            /\ n = IF m <= c THEN c - m + 1 ELSE 0
      <4> HIDE DEF c
      <4>1. QED  BY <3>1
    <3>3. QED  BY <3>1, <3>2
  <2>2. last \in Seq(Nat) /\ Len(last) = n /\ \A i \in 1 .. n : last[i] = added[c - n + i]
    <3>1. last = SubSeq(added, m, c)
      OBVIOUS
    <3> HIDE DEF m, c, last, n
    <3>2. /\ SubSeq(added, m, c) \in Seq(Nat)
          /\ Len(SubSeq(added, m, c)) = IF m <= c THEN c - m + 1 ELSE 0
          /\ \A i \in 1 .. c - m + 1 : SubSeq(added, m, c)[i] = added[m + i - 1]
      BY <2>1, SubSeqProperties
    <3>3. QED  BY <2>1, <3>1, <3>2
  <2>3. \A i \in 1 .. n : window[i] = added[Len(added) - n + i]
    BY <1>1 DEF WindowInv
  <2> HIDE DEF last, n
  <2>4. QED  BY <1>1, <2>2, <2>3, SeqEqual
<1>3. window \in Seq(Int)
  BY <1>1
<1>4. PICK p : Sorts(p, window) /\ Ascending(window) = [i \in 1 .. Len(window) |-> window[p[i]]]
  BY <1>3, AscendingSorts
<1>5. Len(Ascending(window)) = n /\ (Ascending(window) = <<>> <=> n = 0)
  BY <1>1, <1>4
<1> HIDE DEF n, last
<1>6. CASE n = 0
  BY <1>5, <1>6 DEF SnapshotIsOfTheLast, Snapshot, n
<1>7. CASE n # 0
  <2>1. n > 0 /\ n \in 1 .. Len(window) /\ window # <<>>
    BY <1>1, <1>7
  <2>2. Snapshot = [count |-> n, total |-> Total(window),
                    p50 |-> Percentile(Ascending(window), 50),
                    p95 |-> Percentile(Ascending(window), 95),
                    p99 |-> Percentile(Ascending(window), 99),
                    maximum |-> Ascending(window)[n]]
    BY <1>5, <1>7 DEF Snapshot
  <2>3. /\ IsPercentile(Snapshot.p50, window, 50) /\ IsPercentile(Snapshot.p95, window, 95)
        /\ IsPercentile(Snapshot.p99, window, 99)
    BY <1>3, <2>1, <2>2, PercentileIsRank
  <2>4. Contains(window, Snapshot.maximum) /\ \A i \in 1 .. n : window[i] <= Snapshot.maximum
    BY <1>1, <1>3, <2>1, <2>2, RankCounts
  <2>5. DOMAIN window = 1 .. n
    BY <1>1
  <2>6. QED  BY <1>2, <2>1, <2>2, <2>3, <2>4, <2>5 DEF SnapshotIsOfTheLast, n, last
<1>8. QED  BY <1>6, <1>7

-----------------------------------------------------------------------------
(* Sums over a finite set, which SumFunction takes one element at a time.    *)

(* The element that is taken from a set.                                   *)
Taken(s) == CHOOSE x \in s : TRUE

(* Induction over the subsets of a finite set: a collection that has the    *)
(* empty set, and every set if it has the one with an element less.         *)
LEMMA SubsetInduction ==
    ASSUME NEW S, IsFiniteSet(S), NEW G, {} \in G,
           \A s \in SUBSET S : s # {} /\ s \ {Taken(s)} \in G => s \in G
    PROVE  \A s \in SUBSET S : s \in G
<1> DEFINE bad == {s \in SUBSET S : s \notin G}
           R == StrictSubsetOrdering(S)
<1>1. SUFFICES ASSUME bad # {} PROVE FALSE
  OBVIOUS
<1>2. IsWellFoundedOn(R, FiniteSubsetsOf(S))
  BY FS_StrictSubsetOrderingWellFounded
<1>3. bad \subseteq FiniteSubsetsOf(S)
  BY FS_FiniteSubsetsOfFinite
<1> HIDE DEF bad, R
<1>4. PICK s \in bad : \A t \in bad : ~(<<t, s>> \in R)
  BY <1>1, <1>2, <1>3, WFMin
<1>5. s \in SUBSET S /\ s \notin G /\ s # {}
  BY DEF bad
<1>6. Taken(s) \in s
  BY <1>5 DEF Taken
<1> DEFINE t == s \ {Taken(s)}
<1>7. t \in SUBSET S /\ t \subseteq s /\ t # s
  BY <1>5, <1>6
<1>8. <<t, s>> \in R
  BY <1>5, <1>7 DEF R, StrictSubsetOrdering
<1>9. t \in G
  BY <1>4, <1>7, <1>8 DEF bad
<1>10. QED  BY <1>5, <1>9

(* Every set of natural numbers with one has a least one.                   *)
LEMMA LeastNumber ==
    ASSUME NEW N \in SUBSET Nat, N # {}
    PROVE  \E m \in N : \A k \in N : m <= k
<1>1. PICK m \in N : \A k \in N : ~(<<k, m>> \in OpToRel(<, Nat))
  BY NatLessThanWellFounded, WFMin
<1>2. \A k \in N : ~(k < m)
  BY <1>1 DEF OpToRel
<1>3. QED  BY <1>2

(* What a sum is computed by: the partial sums over the subsets.            *)
Step(f, g, s) == IF s = {} THEN 0 ELSE f[Taken(s)] + g[s \ {Taken(s)}]
PartialSums(g, f, S) == g = [s \in SUBSET S |-> Step(f, g, s)]

(* There are partial sums: those of sets of up to n elements give those of  *)
(* sets with one more.                                                     *)
LEMMA PartialSumsExist ==
    ASSUME NEW S, IsFiniteSet(S), NEW f
    PROVE  \E g : PartialSums(g, f, S)
<1> DEFINE Upto(n) == {s \in SUBSET S : Cardinality(s) <= n}
           Good(n) == \E g : g = [s \in Upto(n) |-> Step(f, g, s)]
           bad == {n \in Nat : ~Good(n)}
<1>1. \A s \in SUBSET S : IsFiniteSet(s) /\ Cardinality(s) \in Nat
                            /\ Cardinality(s) <= Cardinality(S) /\ Cardinality(S) \in Nat
  BY FS_Subset, FS_CardinalityType
<1>2. Good(0)
  <2> DEFINE g == [s \in Upto(0) |-> 0]
  <2>1. \A s \in Upto(0) : s = {}
    BY <1>1, FS_EmptySet
  <2>2. g = [s \in Upto(0) |-> Step(f, g, s)]
    BY <2>1 DEF Step
  <2>3. QED  BY <2>2
<1>3. ASSUME NEW n \in Nat, Good(n) PROVE Good(n + 1)
  <2>1. PICK g : g = [s \in Upto(n) |-> Step(f, g, s)]
    BY <1>3
  <2> DEFINE h == [s \in Upto(n + 1) |-> Step(f, g, s)]
  <2>2. ASSUME NEW s \in Upto(n + 1), s # {}
        PROVE  h[s \ {Taken(s)}] = g[s \ {Taken(s)}]
    <3> DEFINE t == s \ {Taken(s)}
    <3>1. Taken(s) \in s /\ s \in SUBSET S /\ Cardinality(s) <= n + 1
      BY <2>2 DEF Taken
    <3>2. Cardinality(t) = Cardinality(s) - 1
      BY <1>1, <3>1, FS_RemoveElement
    <3>3. t \in SUBSET S /\ Cardinality(t) <= n /\ Cardinality(t) <= n + 1
      BY <1>1, <3>1, <3>2
    <3>4. t \in Upto(n) /\ t \in Upto(n + 1)
      BY <3>3
    <3> HIDE DEF t, Upto
    <3>5. h[t] = Step(f, g, t) /\ g[t] = Step(f, g, t)
      BY <2>1, <3>4
    <3>6. QED  BY <3>5 DEF t
  <2>3. h = [s \in Upto(n + 1) |-> Step(f, h, s)]
    <3> HIDE DEF Upto
    <3>1. \A s \in Upto(n + 1) : Step(f, g, s) = Step(f, h, s)
      <4> HIDE DEF h
      <4>1. QED  BY <2>2 DEF Step
    <3>2. QED  BY <3>1
  <2>4. QED  BY <2>3
<1> HIDE DEF Good
<1>4. bad = {}
  <2> SUFFICES ASSUME bad # {} PROVE FALSE
    OBVIOUS
  <2>1. PICK m \in bad : \A k \in bad : m <= k
    BY LeastNumber
  <2>2. m \in Nat /\ m # 0
    BY <1>2
  <2>3. m - 1 \in Nat /\ m - 1 \notin bad
    BY <2>1, <2>2
  <2>4. Good(m - 1)
    BY <2>3
  <2>5. Good(m - 1 + 1) /\ m - 1 + 1 = m
    BY <1>3, <2>2, <2>3, <2>4
  <2>6. Good(m)
    BY <2>5
  <2>7. QED  BY <2>1, <2>6
<1>5. Good(Cardinality(S))
  BY <1>1, <1>4
<1>6. Upto(Cardinality(S)) = SUBSET S
  BY <1>1
<1>7. QED  BY <1>5, <1>6 DEF Good, PartialSums

(* A sum is the partial sum over all.                                       *)
LEMMA SumIsPartialSum ==
    ASSUME NEW f, IsFiniteSet(DOMAIN f)
    PROVE  \E g : PartialSums(g, f, DOMAIN f) /\ SumFunction(f) = g[DOMAIN f]
<1> DEFINE g == CHOOSE h : h = [s \in SUBSET DOMAIN f |->
                              IF s = {} THEN 0
                              ELSE f[CHOOSE x \in s : TRUE] + h[s \ {CHOOSE x \in s : TRUE}]]
<1>1. SumFunction(f) = g[DOMAIN f]
  BY DEF SumFunction, SumFunctionOnSet, FoldFunctionOnSet, MapThenFoldSet
<1>2. \E h : h = [s \in SUBSET DOMAIN f |->
                    IF s = {} THEN 0
                    ELSE f[CHOOSE x \in s : TRUE] + h[s \ {CHOOSE x \in s : TRUE}]]
  <2>1. PICK h : PartialSums(h, f, DOMAIN f)
    BY PartialSumsExist
  <2>2. h = [s \in SUBSET DOMAIN f |->
               IF s = {} THEN 0
               ELSE f[CHOOSE x \in s : TRUE] + h[s \ {CHOOSE x \in s : TRUE}]]
    BY <2>1 DEF PartialSums, Step, Taken
  <2>3. QED  BY <2>2
<1>3. PartialSums(g, f, DOMAIN f)
  BY <1>2 DEF PartialSums, Step, Taken
<1>4. QED  BY <1>1, <1>3

(* A function whose values are a times those of one plus b times another's.  *)
Combines(h, a, f, b, g, S) == \A x \in S : h[x] = a * f[x] + b * g[x]

(* A sum of a multiple of each of two functions is that of their sums.       *)
LEMMA SumIsLinear ==
    ASSUME NEW S, IsFiniteSet(S), NEW a \in Int, NEW b \in Int,
           NEW f \in [S -> Int], NEW g \in [S -> Int], NEW h \in [S -> Int],
           Combines(h, a, f, b, g, S)
    PROVE  SumFunction(h) = a * SumFunction(f) + b * SumFunction(g)
<1>1. DOMAIN f = S /\ DOMAIN g = S /\ DOMAIN h = S
  OBVIOUS
<1>2. PICK F : PartialSums(F, f, S) /\ SumFunction(f) = F[S]
  BY <1>1, SumIsPartialSum
<1>3. PICK G : PartialSums(G, g, S) /\ SumFunction(g) = G[S]
  BY <1>1, SumIsPartialSum
<1>4. PICK H : PartialSums(H, h, S) /\ SumFunction(h) = H[S]
  BY <1>1, SumIsPartialSum
<1>5. \A s \in SUBSET S : F[s] = Step(f, F, s) /\ G[s] = Step(g, G, s) /\ H[s] = Step(h, H, s)
  BY <1>2, <1>3, <1>4 DEF PartialSums
<1> DEFINE Good == {s \in SUBSET S : F[s] \in Int /\ G[s] \in Int /\ H[s] = a * F[s] + b * G[s]}
<1>6. {} \in Good
  <2>1. F[{}] = 0 /\ G[{}] = 0 /\ H[{}] = 0
    BY <1>5 DEF Step
  <2>2. QED  BY <2>1
<1>7. ASSUME NEW s \in SUBSET S, s # {}, s \ {Taken(s)} \in Good PROVE s \in Good
  <2> DEFINE x == Taken(s)
             t == s \ {x}
  <2>1. x \in S
    BY <1>7 DEF Taken
  <2>2. F[s] = f[x] + F[t] /\ G[s] = g[x] + G[t] /\ H[s] = h[x] + H[t]
    BY <1>5, <1>7 DEF Step
  <2>3. F[t] \in Int /\ G[t] \in Int /\ H[t] = a * F[t] + b * G[t]
    BY <1>7
  <2>4. f[x] \in Int /\ g[x] \in Int /\ h[x] = a * f[x] + b * g[x]
    BY <2>1 DEF Combines
  <2> HIDE DEF x, t
  <2>5. H[s] = a * F[s] + b * G[s]
    BY <2>2, <2>3, <2>4
  <2>6. QED  BY <2>2, <2>3, <2>4, <2>5
<1> HIDE DEF Good
<1>8. S \in Good
  BY <1>6, <1>7, SubsetInduction
<1>9. QED  BY <1>2, <1>3, <1>4, <1>8 DEF Good

(* A sum of integers is one; of natural numbers, zero only if all are.      *)
LEMMA SumOfNumbers ==
    ASSUME NEW S, IsFiniteSet(S), NEW f \in [S -> Int]
    PROVE  /\ SumFunction(f) \in Int
           /\ (\A x \in S : f[x] >= 0) /\ SumFunction(f) = 0 => \A x \in S : f[x] = 0
<1>1. DOMAIN f = S
  OBVIOUS
<1>2. PICK F : PartialSums(F, f, S) /\ SumFunction(f) = F[S]
  BY <1>1, SumIsPartialSum
<1>3. \A s \in SUBSET S : F[s] = Step(f, F, s)
  BY <1>2 DEF PartialSums
<1> DEFINE Good == {s \in SUBSET S :
                      /\ F[s] \in Int
                      /\ (\A x \in S : f[x] >= 0) =>
                           F[s] >= 0 /\ (F[s] = 0 => \A x \in s : f[x] = 0)}
<1>4. {} \in Good
  <2>1. F[{}] = 0
    BY <1>3 DEF Step
  <2>2. QED  BY <2>1
<1>5. ASSUME NEW s \in SUBSET S, s # {}, s \ {Taken(s)} \in Good PROVE s \in Good
  <2> DEFINE x == Taken(s)
             t == s \ {x}
  <2>1. x \in S /\ s = t \cup {x}
    BY <1>5 DEF Taken
  <2>2. F[s] = f[x] + F[t]
    BY <1>3, <1>5 DEF Step
  <2>3. /\ F[t] \in Int
        /\ (\A y \in S : f[y] >= 0) => F[t] >= 0 /\ (F[t] = 0 => \A y \in t : f[y] = 0)
    BY <1>5
  <2>4. f[x] \in Int
    BY <2>1
  <2> HIDE DEF x, t
  <2>5. F[s] \in Int
    BY <2>2, <2>3, <2>4
  <2>6. ASSUME \A y \in S : f[y] >= 0
        PROVE  F[s] >= 0 /\ (F[s] = 0 => \A y \in s : f[y] = 0)
    BY <2>1, <2>2, <2>3, <2>4, <2>6
  <2>7. QED  BY <2>5, <2>6
<1> HIDE DEF Good
<1>6. S \in Good
  BY <1>4, <1>5, SubsetInduction
<1>7. QED  BY <1>2, <1>6 DEF Good

(* Identities of the fit, each of a few integers.                           *)
LEMMA SquareOfDifference ==
    \A a, b, x, y \in Int :
        (a * x - b * y) * (a * x - b * y)
            = ((a * a) * (x * x) + (-2 * a * b) * (x * y)) + (b * b) * (y * y)
BY Z3

(* The square of b dx - c dy, summed, is c times the determinant.           *)
LEMMA ZeroDeterminant ==
    \A a, b, c \in Int :
        a * c - b * b = 0 => ((c * c) * a + (-2 * c * b) * b) + (b * b) * c = 0
<1> SUFFICES ASSUME NEW a \in Int, NEW b \in Int, NEW c \in Int, a * c - b * b = 0
             PROVE  ((c * c) * a + (-2 * c * b) * b) + (b * b) * c = 0
  OBVIOUS
<1>1. ((c * c) * a + (-2 * c * b) * b) + (b * b) * c = c * (a * c - b * b)
  BY Z3
<1>2. QED  BY <1>1

(* A product vanishes only with a factor.                                   *)
LEMMA NoZeroDivisors == \A a, b \in Int : a * b = 0 => a = 0 \/ b = 0
BY Z3

(* A common factor that is not zero can be taken away.                      *)
LEMMA Cancellation == \A a, x, y \in Int : a * x = a * y => a = 0 \/ x = y
<1> SUFFICES ASSUME NEW a \in Int, NEW x \in Int, NEW y \in Int, a * x = a * y
             PROVE  a = 0 \/ x = y
  OBVIOUS
<1>1. a * (x - y) = a * x - a * y
  BY Z3
<1>2. a * (x - y) = 0 /\ x - y \in Int
  BY <1>1
<1>3. QED  BY <1>2, NoZeroDivisors

(* Every value of a function on a set is one of two; no two are the same.    *)
OneOf(f, c, d, U) == \A j \in U : f[j] = c \/ f[j] = d
AllDiffer(f, U) == \A j, k \in U : f[j] = f[k] => j = k

(* Three points do not have two places.                                     *)
LEMMA NotThreeInTwo ==
    ASSUME NEW U, IsFiniteSet(U), Cardinality(U) >= 3, NEW c, NEW d, NEW f,
           OneOf(f, c, d, U)
    PROVE  ~AllDiffer(f, U)
<1> SUFFICES ASSUME AllDiffer(f, U) PROVE FALSE
  OBVIOUS
<1> DEFINE g == [j \in U |-> f[j]]
<1>1. IsFiniteSet({c, d}) /\ Cardinality({c, d}) <= 2
  <2>1. IsFiniteSet({c}) /\ Cardinality({c}) = 1 /\ {c, d} = {c} \cup {d}
    BY FS_Singleton
  <2>2. QED  BY <2>1, FS_AddElement
<1>2. g \in Injection(U, {c, d})
  BY DEF Injection, IsInjective, OneOf, AllDiffer
<1> HIDE DEF g
<1>3. Cardinality(U) <= Cardinality({c, d})
  BY <1>1, <1>2, FS_Injection
<1>4. Cardinality(U) \in Nat /\ Cardinality({c, d}) \in Nat
  BY <1>1, FS_CardinalityType
<1>5. QED  BY <1>1, <1>3, <1>4

(* A function whose values are the products of those of two.                *)
Multiplies(p, f, g, U) == \A j \in U : p[j] = f[j] * g[j]

(* No two of the offsets of a set of points are the same, and none is zero.  *)
Surrounds(dx, dy, U) ==
    /\ \A j, k \in U : dx[j] = dx[k] /\ dy[j] = dy[k] => j = k
    /\ \A j \in U : dx[j] # 0 \/ dy[j] # 0

(* Around a point, three others one step away are never on one line through  *)
(* it, so that the fit has a solution.                                      *)
LEMMA ThreeNeighborsSuffice ==
    ASSUME NEW U, IsFiniteSet(U), Cardinality(U) >= 3,
           NEW S \in Int, S > 0, NEW dx \in [U -> {-S, 0, S}], NEW dy \in [U -> {-S, 0, S}],
           Surrounds(dx, dy, U),
           NEW xx \in [U -> Int], NEW xy \in [U -> Int], NEW yy \in [U -> Int],
           Multiplies(xx, dx, dx, U), Multiplies(xy, dx, dy, U), Multiplies(yy, dy, dy, U)
    PROVE  SumFunction(xx) * SumFunction(yy) - SumFunction(xy) * SumFunction(xy) # 0
<1> DEFINE a == SumFunction(xx)
           b == SumFunction(xy)
           c == SumFunction(yy)
<1>1. a \in Int /\ b \in Int /\ c \in Int
  BY SumOfNumbers
<1>2. \A j \in U : dx[j] \in Int /\ dy[j] \in Int /\ dx[j] \in {-S, 0, S} /\ dy[j] \in {-S, 0, S}
  OBVIOUS
<1>3. \A j \in U : xx[j] = dx[j] * dx[j] /\ xy[j] = dx[j] * dy[j] /\ yy[j] = dy[j] * dy[j]
  BY DEF Multiplies
<1>4. SUFFICES ASSUME a * c - b * b = 0 PROVE FALSE
  OBVIOUS
<1>5. CASE c = 0
  <2>1. \A j \in U : yy[j] >= 0
    <3> SUFFICES ASSUME NEW j \in U PROVE yy[j] >= 0
      OBVIOUS
    <3>1. dy[j] * dy[j] >= 0
      BY <1>2
    <3>2. QED  BY <1>3, <3>1
  <2>2. \A j \in U : yy[j] = 0
    BY <1>5, <2>1, SumOfNumbers
  <2>3. \A j \in U : dy[j] = 0
    <3> SUFFICES ASSUME NEW j \in U PROVE dy[j] = 0
      OBVIOUS
    <3>1. dy[j] * dy[j] = 0 /\ dy[j] \in Int
      BY <1>2, <1>3, <2>2
    <3>2. QED  BY <3>1, NoZeroDivisors
  <2>5. OneOf(dx, -S, S, U)
    BY <1>2, <2>3 DEF OneOf, Surrounds
  <2>6. AllDiffer(dx, U)
    BY <2>3 DEF AllDiffer, Surrounds
  <2>7. QED  BY <2>5, <2>6, NotThreeInTwo
<1>6. CASE c # 0
  <2> DEFINE e == [j \in U |-> c * dx[j] - b * dy[j]]
             r == [j \in U |-> (c * c) * xx[j] + (-2 * c * b) * xy[j]]
             q == [j \in U |-> e[j] * e[j]]
  <2> HIDE DEF a, b, c
  <2>1. c * c \in Int /\ -2 * c * b \in Int /\ b * b \in Int
    BY <1>1
  <2>2. e \in [U -> Int] /\ q \in [U -> Int] /\ \A j \in U : e[j] = c * dx[j] - b * dy[j]
    BY <1>1, <1>2
  <2>3. r \in [U -> Int] /\ \A j \in U : r[j] = (c * c) * xx[j] + (-2 * c * b) * xy[j]
    BY <2>1
  <2>4. \A j \in U : q[j] = 1 * r[j] + (b * b) * yy[j]
    <3> SUFFICES ASSUME NEW j \in U PROVE q[j] = 1 * r[j] + (b * b) * yy[j]
      OBVIOUS
    <3>1. q[j] = (c * dx[j] - b * dy[j]) * (c * dx[j] - b * dy[j])
      BY <2>2
    <3>2. r[j] = (c * c) * (dx[j] * dx[j]) + (-2 * c * b) * (dx[j] * dy[j]) /\ r[j] \in Int
      BY <1>3, <2>3
    <3> HIDE DEF q, r, e
    <3>3. q[j] = ((c * c) * (dx[j] * dx[j]) + (-2 * c * b) * (dx[j] * dy[j]))
                    + (b * b) * (dy[j] * dy[j])
      BY <1>1, <1>2, <3>1, SquareOfDifference
    <3>4. QED  BY <1>3, <3>2, <3>3
  <2> HIDE DEF e, q, r
  <2>5. SumFunction(r) = (c * c) * a + (-2 * c * b) * b
    <3> DEFINE m == c * c
               n == -2 * c * b
    <3>1. m \in Int /\ n \in Int /\ Combines(r, m, xx, n, xy, U)
      BY <2>1, <2>3 DEF Combines
    <3>4. r \in [U -> Int] /\ IsFiniteSet(U)
      BY <2>3
    <3> HIDE DEF m, n
    <3>2. SumFunction(r) = m * SumFunction(xx) + n * SumFunction(xy)
      BY <3>1, <3>4, SumIsLinear
    <3>3. QED  BY <3>2 DEF m, n, a, b
  <2>6. SumFunction(q) = 1 * SumFunction(r) + (b * b) * c
    <3> DEFINE m == b * b
    <3>1. m \in Int /\ Combines(q, 1, r, m, yy, U)
      BY <2>1, <2>4 DEF Combines
    <3>4. r \in [U -> Int] /\ q \in [U -> Int] /\ 1 \in Int
      BY <2>2, <2>3
    <3> HIDE DEF m
    <3>2. SumFunction(q) = 1 * SumFunction(r) + m * SumFunction(yy)
      BY <3>1, <3>4, SumIsLinear
    <3>3. QED  BY <3>2 DEF m, c
  <2>7. SumFunction(q) = 0
    <3>1. SumFunction(r) \in Int
      BY <2>3, SumOfNumbers
    <3>2. SumFunction(q) = ((c * c) * a + (-2 * c * b) * b) + (b * b) * c
      BY <2>5, <2>6, <3>1
    <3>3. QED  BY <1>1, <1>4, <3>2, ZeroDeterminant DEF a, b, c
  <2>8. \A j \in U : q[j] >= 0
    <3> SUFFICES ASSUME NEW j \in U PROVE q[j] >= 0
      OBVIOUS
    <3>1. q[j] = e[j] * e[j] /\ e[j] \in Int
      BY <2>2 DEF q
    <3>2. QED  BY <3>1
  <2>9. \A j \in U : q[j] = 0
    BY <2>2, <2>7, <2>8, SumOfNumbers
  <2>10. \A j \in U : c * dx[j] = b * dy[j]
    <3> SUFFICES ASSUME NEW j \in U PROVE c * dx[j] = b * dy[j]
      OBVIOUS
    <3>1. e[j] * e[j] = 0 /\ e[j] \in Int
      BY <2>2, <2>9 DEF q
    <3>2. e[j] = 0
      BY <3>1, NoZeroDivisors
    <3> DEFINE m == c * dx[j]
               n == b * dy[j]
    <3>3. m - n = 0 /\ m \in Int /\ n \in Int
      BY <1>1, <1>2, <2>2, <3>2
    <3> HIDE DEF m, n
    <3>4. m = n
      BY <3>3
    <3>5. QED  BY <3>4 DEF m, n
  <2>11. \A j \in U : dy[j] # 0
    <3> SUFFICES ASSUME NEW j \in U, dy[j] = 0 PROVE FALSE
      OBVIOUS
    <3>1. c * dx[j] = 0
      BY <1>1, <2>10
    <3>2. dx[j] = 0
      BY <1>1, <1>2, <1>6, <3>1, NoZeroDivisors
    <3>3. QED  BY <3>2 DEF Surrounds
  <2>12. OneOf(dy, -S, S, U)
    BY <1>2, <2>11 DEF OneOf
  <2>13. ASSUME NEW j \in U, NEW k \in U, dy[j] = dy[k] PROVE j = k
    <3>1. c * dx[j] = c * dx[k]
      BY <2>10, <2>13
    <3>2. dx[j] = dx[k]
      BY <1>1, <1>2, <1>6, <3>1, Cancellation
    <3>3. QED  BY <2>13, <3>2 DEF Surrounds
  <2>14. AllDiffer(dy, U)
    BY <2>13 DEF AllDiffer
  <2>15. QED  BY <2>12, <2>14, NotThreeInTwo
<1>7. QED  BY <1>5, <1>6

(* Cramer's rule.                                                          *)
LEMMA FirstUnknown ==
    \A a, b, c, p, q \in Int : c * (p * a + q * b) - b * (p * b + q * c) = p * (a * c - b * b)
BY Z3

(* And for the second.                                                      *)
LEMMA SecondUnknown ==
    \A a, b, c, p, q \in Int : a * (p * b + q * c) - b * (p * a + q * b) = q * (a * c - b * b)
BY Z3

-----------------------------------------------------------------------------
(* The strain estimator.                                                   *)

(* What topology_matches compares.                                          *)
CoordinatesOf(all) == [i \in DOMAIN all |-> <<all[i].x, all[i].y>>]

(* What was applied last is a result of an engine.                          *)
FieldInv ==
    \E layout \in Layouts : \E valid \in SUBSET DOMAIN layout :
        gradient \in Gradients /\ points = Measured(layout, valid, gradient)

(* The neighbours that are kept are those of the points applied last, and    *)
(* each strain was computed from them.                                     *)
StrainInv ==
    /\ points = <<>> \/ FieldInv
    /\ coordinates = CoordinatesOf(points)
    /\ neighbors = [i \in DOMAIN points |-> NeighborsIn(coordinates, i)]
    /\ strains = [i \in DOMAIN points |-> Fit(points, i, neighbors[i])]

(* Before the first result there is nothing.                                *)
LEMMA IdleStrain == StrainIdle => StrainInv
BY DEF StrainIdle, StrainInv, CoordinatesOf

(* The points of a result are a sequence, with the coordinates of a layout.  *)
LEMMA MeasuredType ==
    ASSUME NEW layout \in Layouts, NEW valid, NEW g
    PROVE  /\ Len(layout) \in Nat /\ DOMAIN Measured(layout, valid, g) = 1 .. Len(layout)
           /\ Len(Measured(layout, valid, g)) = Len(layout)
           /\ \A i \in 1 .. Len(layout) :
                /\ layout[i] \in Int \X Int
                /\ Measured(layout, valid, g)[i].x = layout[i][1]
                /\ Measured(layout, valid, g)[i].y = layout[i][2]
BY StrainAssumption DEF Measured

(* Neighbours are found again unless every point is where it was.           *)
LEMMA ApplyKeepsTopology ==
    ASSUME StrainInv, Apply
    PROVE  StrainInv'
<1>1. PICK layout \in Layouts, g \in Gradients :
        \E valid \in SUBSET DOMAIN layout :
           LET new == Measured(layout, valid, g)
           IN  /\ IF TopologyMatches(new) THEN UNCHANGED <<coordinates, neighbors>>
                  ELSE RebuildTopology(new)
               /\ points' = new
               /\ strains' = [i \in DOMAIN new |-> Fit(new, i, neighbors'[i])]
               /\ gradient' = g
  BY DEF Apply
<1>2. PICK valid \in SUBSET DOMAIN layout :
           LET new == Measured(layout, valid, g)
           IN  /\ IF TopologyMatches(new) THEN UNCHANGED <<coordinates, neighbors>>
                  ELSE RebuildTopology(new)
               /\ points' = new
               /\ strains' = [i \in DOMAIN new |-> Fit(new, i, neighbors'[i])]
               /\ gradient' = g
  BY <1>1
<1> DEFINE new == Measured(layout, valid, g)
<1>3. FieldInv'
  BY <1>2 DEF FieldInv
<1>4. DOMAIN new = 1 .. Len(new) /\ Len(new) \in Nat
  BY MeasuredType
<1> HIDE DEF new
<1>5. points' = new /\ strains' = [i \in DOMAIN new |-> Fit(new, i, neighbors'[i])]
  BY <1>2 DEF new
<1>6. CASE RebuildTopology(new)
  <2>1. coordinates' = CoordinatesOf(new)
    BY <1>6 DEF RebuildTopology, CoordinatesOf
  <2>2. neighbors' = [i \in DOMAIN new |-> NeighborsIn(coordinates', i)]
    BY <1>6 DEF RebuildTopology
  <2>3. QED  BY <1>3, <1>5, <2>1, <2>2 DEF StrainInv
<1>7. CASE TopologyMatches(new) /\ UNCHANGED <<coordinates, neighbors>>
  <2>1. Len(coordinates) = Len(new) /\ \A i \in DOMAIN new : coordinates[i] = <<new[i].x, new[i].y>>
    BY <1>7 DEF TopologyMatches
  <2>2. DOMAIN points = 1 .. Len(points) /\ Len(points) \in Nat
    <3>1. CASE points = <<>>
      BY <3>1
    <3>2. CASE FieldInv
      BY <3>2, MeasuredType DEF FieldInv
    <3>3. QED  BY <3>1, <3>2 DEF StrainInv
  <2>3. coordinates = CoordinatesOf(points) /\ neighbors = [i \in DOMAIN points |-> NeighborsIn(coordinates, i)]
    BY DEF StrainInv
  <2>4. Len(coordinates) = Len(points)
    BY <2>2, <2>3 DEF CoordinatesOf
  <2>5. DOMAIN points = DOMAIN new
    BY <1>4, <2>1, <2>2, <2>4
  <2>6. coordinates = CoordinatesOf(new)
    BY <2>1, <2>3, <2>5 DEF CoordinatesOf
  <2>7. coordinates' = CoordinatesOf(new) /\ neighbors' = [i \in DOMAIN new |-> NeighborsIn(coordinates', i)]
    BY <1>7, <2>3, <2>5, <2>6
  <2>8. QED  BY <1>3, <1>5, <2>7 DEF StrainInv
<1>8. QED  BY <1>2, <1>6, <1>7 DEF new

(* The points around one that have a displacement.                          *)
Around(i) ==
    {j \in DOMAIN points \ {i} :
       /\ points[j].valid
       /\ points[j].x - points[i].x \in {-GridStep, 0, GridStep}
       /\ points[j].y - points[i].y \in {-GridStep, 0, GridStep}}

(* A point is fitted to exactly those.                                      *)
LEMMA FittedToAround ==
    ASSUME StrainInv, NEW i \in DOMAIN points
    PROVE  /\ {j \in neighbors[i] : points[j].valid} = Around(i)
           /\ strains[i] = LET sums == NormalEquations(points, i, Around(i))
                           IN  IF ~points[i].valid \/ Cardinality(Around(i)) < 3
                                    \/ Determinant(sums) = 0
                               THEN NoStrain ELSE Solution(sums)
<1>1. coordinates = CoordinatesOf(points) /\ neighbors[i] = NeighborsIn(coordinates, i)
  BY DEF StrainInv
<1>2. DOMAIN coordinates = DOMAIN points
        /\ \A j \in DOMAIN points : coordinates[j][1] = points[j].x /\ coordinates[j][2] = points[j].y
  BY <1>1 DEF CoordinatesOf
<1>3. {j \in neighbors[i] : points[j].valid} = Around(i)
  BY <1>1, <1>2 DEF NeighborsIn, Around
<1>4. strains[i] = Fit(points, i, neighbors[i])
  BY DEF StrainInv
<1>5. QED  BY <1>3, <1>4 DEF Fit

(* With three of them, the fit is the gradient of the field.                *)
LEMMA FitIsGradient ==
    ASSUME FieldInv, NEW i \in DOMAIN points, points[i].valid, Cardinality(Around(i)) >= 3
    PROVE  LET sums == NormalEquations(points, i, Around(i))
               det == Determinant(sums)
           IN  /\ det # 0
               /\ sums.ayy * sums.bux - sums.axy * sums.buy = gradient.ux * det
               /\ sums.axx * sums.bvy - sums.axy * sums.bvx = gradient.vy * det
               /\ (sums.axx * sums.buy - sums.axy * sums.bux)
                    + (sums.ayy * sums.bvx - sums.axy * sums.bvy)
                    = (gradient.uy + gradient.vx) * det
<1> DEFINE U == Around(i)
           Dx(j) == points[j].x - points[i].x
           Dy(j) == points[j].y - points[i].y
           Du(j) == points[j].u - points[i].u
           Dv(j) == points[j].v - points[i].v
           dx == [j \in U |-> Dx(j)]
           dy == [j \in U |-> Dy(j)]
           xx == [j \in U |-> Dx(j) * Dx(j)]
           xy == [j \in U |-> Dx(j) * Dy(j)]
           yy == [j \in U |-> Dy(j) * Dy(j)]
           xu == [j \in U |-> Dx(j) * Du(j)]
           yu == [j \in U |-> Dy(j) * Du(j)]
           xv == [j \in U |-> Dx(j) * Dv(j)]
           yv == [j \in U |-> Dy(j) * Dv(j)]
           g == gradient
<1>0. PICK layout \in Layouts : \E valid \in SUBSET DOMAIN layout :
        gradient \in Gradients /\ points = Measured(layout, valid, gradient)
  BY DEF FieldInv
<1>1. PICK valid \in SUBSET DOMAIN layout :
        gradient \in Gradients /\ points = Measured(layout, valid, gradient)
  BY <1>0
<1>2. g.ux \in Int /\ g.uy \in Int /\ g.vx \in Int /\ g.vy \in Int
  BY <1>1, StrainAssumption
<1>3. DOMAIN points = 1 .. Len(layout) /\ Len(layout) \in Nat
  BY <1>1, MeasuredType
<1>4. \A j \in DOMAIN points : /\ points[j].x \in Int /\ points[j].y \in Int
                               /\ points[j].x = layout[j][1] /\ points[j].y = layout[j][2]
                               /\ layout[j] = <<layout[j][1], layout[j][2]>>
  BY <1>1, <1>3, MeasuredType
<1>5. \A j, k \in DOMAIN points : points[j].x = points[k].x /\ points[j].y = points[k].y => j = k
  <2>1. \A j, k \in DOMAIN points : layout[j] = layout[k] => j = k
    <3>1. \A j, k \in DOMAIN layout : layout[j] = layout[k] => j = k
      BY StrainAssumption
    <3>2. DOMAIN layout = 1 .. Len(layout)
      BY StrainAssumption
    <3>3. QED  BY <1>3, <3>1, <3>2
  <2>2. QED  BY <1>4, <2>1
<1>6. \A j \in DOMAIN points : points[j].valid =>
         /\ points[j].u = g.ux * points[j].x + g.uy * points[j].y
         /\ points[j].v = g.vx * points[j].x + g.vy * points[j].y
  <2>1. DOMAIN points = DOMAIN layout
    BY <1>1 DEF Measured
  <2>2. \A j \in DOMAIN points :
          /\ points[j].valid = (j \in valid)
          /\ j \in valid => /\ points[j].u = g.ux * layout[j][1] + g.uy * layout[j][2]
                            /\ points[j].v = g.vx * layout[j][1] + g.vy * layout[j][2]
    BY <1>1, <2>1 DEF Measured
  <2>3. QED  BY <1>4, <2>2
<1>7. U \in SUBSET (DOMAIN points \ {i}) /\ \A j \in U : /\ points[j].valid
                                                        /\ Dx(j) \in {-GridStep, 0, GridStep}
                                                        /\ Dy(j) \in {-GridStep, 0, GridStep}
  BY DEF Around
<1>8. IsFiniteSet(U) /\ Cardinality(U) >= 3
  <2>1. IsFiniteSet(1 .. Len(layout))
    BY <1>3, FS_Interval
  <2>2. U \in SUBSET (1 .. Len(layout))
    BY <1>3, <1>7
  <2>3. QED  BY <2>1, <2>2, FS_Subset
<1> HIDE DEF U
<1>9. ASSUME NEW j \in U
      PROVE  /\ Dx(j) \in Int /\ Dy(j) \in Int
             /\ Du(j) = g.ux * Dx(j) + g.uy * Dy(j) /\ Du(j) \in Int
             /\ Dv(j) = g.vx * Dx(j) + g.vy * Dy(j) /\ Dv(j) \in Int
  <2> DEFINE x == points[j].x
             y == points[j].y
             xi == points[i].x
             yi == points[i].y
  <2>1. j \in DOMAIN points /\ x \in Int /\ y \in Int /\ xi \in Int /\ yi \in Int
    BY <1>4, <1>7
  <2>2. /\ Du(j) = (g.ux * x + g.uy * y) - (g.ux * xi + g.uy * yi)
        /\ Dv(j) = (g.vx * x + g.vy * y) - (g.vx * xi + g.vy * yi)
    BY <1>6, <1>7, <2>1
  <2> HIDE DEF g, x, y, xi, yi
  <2>3. \A a, b, c, d, e, f \in Int : (a * c + b * d) - (a * e + b * f) = a * (c - e) + b * (d - f)
    BY Z3
  <2>4. QED  BY <1>2, <2>1, <2>2, <2>3 DEF x, y, xi, yi
<1> HIDE DEF Dx, Dy, Du, Dv
<1>10. /\ xx \in [U -> Int] /\ xy \in [U -> Int] /\ yy \in [U -> Int] /\ xu \in [U -> Int]
       /\ yu \in [U -> Int] /\ xv \in [U -> Int] /\ yv \in [U -> Int]
  BY <1>9
<1>11. /\ dx \in [U -> {-GridStep, 0, GridStep}] /\ dy \in [U -> {-GridStep, 0, GridStep}]
       /\ Surrounds(dx, dy, U)
  <2>1. \A j \in U : dx[j] = Dx(j) /\ dy[j] = Dy(j)
    OBVIOUS
  <2>2. \A j \in U : Dx(j) # 0 \/ Dy(j) # 0
    BY <1>4, <1>5, <1>7 DEF Dx, Dy
  <2>3. \A j, k \in U : Dx(j) = Dx(k) /\ Dy(j) = Dy(k) => j = k
    BY <1>4, <1>5, <1>7 DEF Dx, Dy
  <2>4. QED  BY <1>7, <2>1, <2>2, <2>3 DEF Surrounds, Dx, Dy
<1>12. Multiplies(xx, dx, dx, U) /\ Multiplies(xy, dx, dy, U) /\ Multiplies(yy, dy, dy, U)
  BY DEF Multiplies
<1> DEFINE a == SumFunction(xx)
           b == SumFunction(xy)
           c == SumFunction(yy)
<1>13. a * c - b * b # 0
  <2>1. GridStep \in Int /\ GridStep > 0
    BY StrainAssumption
  <2> HIDE DEF xx, xy, yy, dx, dy
  <2>2. QED  BY <1>8, <1>10, <1>11, <1>12, <2>1, ThreeNeighborsSuffice
<1>14. /\ Combines(xu, g.ux, xx, g.uy, xy, U) /\ Combines(yu, g.ux, xy, g.uy, yy, U)
       /\ Combines(xv, g.vx, xx, g.vy, xy, U) /\ Combines(yv, g.vx, xy, g.vy, yy, U)
  <2>1. \A x, y, p, q \in Int : /\ x * (p * x + q * y) = p * (x * x) + q * (x * y)
                               /\ y * (p * x + q * y) = p * (x * y) + q * (y * y)
    BY Z3
  <2>2. ASSUME NEW j \in U
        PROVE  /\ xu[j] = g.ux * xx[j] + g.uy * xy[j] /\ yu[j] = g.ux * xy[j] + g.uy * yy[j]
               /\ xv[j] = g.vx * xx[j] + g.vy * xy[j] /\ yv[j] = g.vx * xy[j] + g.vy * yy[j]
    BY <1>2, <1>9, <2>1
  <2> HIDE DEF xx, xy, yy, xu, yu, xv, yv
  <2>3. QED  BY <2>2 DEF Combines
<1> HIDE DEF xx, xy, yy, xu, yu, xv, yv, g
<1>15. SumFunction(xu) = g.ux * a + g.uy * b /\ SumFunction(yu) = g.ux * b + g.uy * c
  BY <1>2, <1>8, <1>10, <1>14, SumIsLinear
<1>16. SumFunction(xv) = g.vx * a + g.vy * b /\ SumFunction(yv) = g.vx * b + g.vy * c
  BY <1>2, <1>8, <1>10, <1>14, SumIsLinear
<1>17. a \in Int /\ b \in Int /\ c \in Int
  BY <1>8, <1>10, SumOfNumbers
<1> DEFINE sums == NormalEquations(points, i, U)
<1>18. sums = [axx |-> a, axy |-> b, ayy |-> c, bux |-> SumFunction(xu), buy |-> SumFunction(yu),
              bvx |-> SumFunction(xv), bvy |-> SumFunction(yv)]
  BY DEF NormalEquations, xx, xy, yy, xu, yu, xv, yv, Dx, Dy, Du, Dv
<1> HIDE DEF a, b, c, sums
<1> DEFINE det == a * c - b * b
<1>19. Determinant(sums) = det
  BY <1>18 DEF Determinant
<1>20. /\ c * (g.ux * a + g.uy * b) - b * (g.ux * b + g.uy * c) = g.ux * det
       /\ a * (g.vx * b + g.vy * c) - b * (g.vx * a + g.vy * b) = g.vy * det
       /\ a * (g.ux * b + g.uy * c) - b * (g.ux * a + g.uy * b) = g.uy * det
       /\ c * (g.vx * a + g.vy * b) - b * (g.vx * b + g.vy * c) = g.vx * det
  BY <1>2, <1>17, FirstUnknown, SecondUnknown
<1>21. det \in Int /\ g.uy * det + g.vx * det = (g.uy + g.vx) * det
  BY <1>2, <1>17
<1> HIDE DEF det
<1>22. /\ sums.ayy * sums.bux - sums.axy * sums.buy = g.ux * det
       /\ sums.axx * sums.bvy - sums.axy * sums.bvx = g.vy * det
       /\ sums.axx * sums.buy - sums.axy * sums.bux = g.uy * det
       /\ sums.ayy * sums.bvx - sums.axy * sums.bvy = g.vx * det
  BY <1>15, <1>16, <1>18, <1>20
<1>23. det # 0
  BY <1>13 DEF det
<1>24. QED  BY <1>19, <1>21, <1>22, <1>23 DEF sums, U, g

(* So the strains are those of the field, where there are enough points.    *)
LEMMA StrainOfField == ASSUME StrainInv PROVE StrainIsOfTheField
<1> SUFFICES ASSUME NEW i \in DOMAIN points
             PROVE  LET s == strains[i]
                    IN  IF points[i].valid /\ Cardinality(Around(i)) >= 3
                        THEN /\ s.valid
                             /\ s.exx = gradient.ux * s.scale
                             /\ s.eyy = gradient.vy * s.scale
                             /\ s.exy = (gradient.uy + gradient.vx) * s.scale
                        ELSE s = NoStrain
  BY DEF StrainIsOfTheField, Around
<1>1. FieldInv /\ Cardinality(Around(i)) \in Nat
  <2>1. points # <<>>
    OBVIOUS
  <2>2. FieldInv
    BY <2>1 DEF StrainInv
  <2>3. IsFiniteSet(DOMAIN points)
    <3>1. PICK n \in Nat : DOMAIN points = 1 .. n
      BY <2>2, MeasuredType DEF FieldInv
    <3>2. QED  BY <3>1, FS_Interval
  <2>4. Around(i) \in SUBSET DOMAIN points
    BY DEF Around
  <2>5. QED  BY <2>2, <2>3, <2>4, FS_Subset, FS_CardinalityType
<1> DEFINE sums == NormalEquations(points, i, Around(i))
<1>2. strains[i] = IF ~points[i].valid \/ Cardinality(Around(i)) < 3 \/ Determinant(sums) = 0
                   THEN NoStrain ELSE Solution(sums)
  BY FittedToAround
<1>3. CASE points[i].valid /\ Cardinality(Around(i)) >= 3
  <2>1. /\ Determinant(sums) # 0
        /\ sums.ayy * sums.bux - sums.axy * sums.buy = gradient.ux * Determinant(sums)
        /\ sums.axx * sums.bvy - sums.axy * sums.bvx = gradient.vy * Determinant(sums)
        /\ (sums.axx * sums.buy - sums.axy * sums.bux)
             + (sums.ayy * sums.bvx - sums.axy * sums.bvy)
             = (gradient.uy + gradient.vx) * Determinant(sums)
    BY <1>1, <1>3, FitIsGradient
  <2> HIDE DEF sums
  <2>2. strains[i] = Solution(sums)
    BY <1>1, <1>2, <1>3, <2>1
  <2>3. QED  BY <1>3, <2>1, <2>2 DEF Solution
<1>4. CASE ~(points[i].valid /\ Cardinality(Around(i)) >= 3)
  <2> HIDE DEF sums
  <2>1. strains[i] = NoStrain
    BY <1>1, <1>2, <1>4
  <2>2. QED  BY <1>4, <2>1
<1>5. QED  BY <1>3, <1>4

-----------------------------------------------------------------------------
(* The walk over the grid.                                                 *)

(* What a refinement that goes on has behind it: steps that did not          *)
(* converge, so that nothing it may leave behind is accepted.               *)
RefinedInv ==
    /\ refined \in [u : Int, scoredAt : Int, iterations : Nat, converged : BOOLEAN,
                    valid : BOOLEAN]
    /\ round \in 0 .. MaxRefinements - 1
    /\ ~refined.converged

(* While a point is worked on its search window is in the image.            *)
CenterInv ==
    /\ engine \in {"hybrid", "zncc"} /\ center \in Int /\ translation \in Int
    /\ center >= Margin(engine)
    /\ stage \in {"search", "refine"} => center + Margin(engine) < Width
    /\ stage = "refine" => engine = "hybrid" /\ RefinedInv

GridInv == CenterInv /\ ReadsStayInside /\ ValidMeansMeasured

(* The margin is a natural number; one pixel wider for the hybrid engine.   *)
LEMMA MarginType == \A e : Margin(e) \in Nat /\ Margin(e) >= SubsetRadius + SearchRadius
BY GridAssumption DEF Margin

(* The loop never goes on at a point whose window leaves the image.         *)
LEMMA VisitKeepsWindow ==
    ASSUME CenterInv, UNCHANGED engine, Visit(center + PointStep, engine)
    PROVE  /\ center' \in Int /\ center' >= Margin(engine')
           /\ stage' \in {"search", "done"}
           /\ stage' = "search" => center' + Margin(engine') < Width
BY MarginType, GridAssumption DEF CenterInv, Visit, StageAt, Margin

(* Whatever the estimate, the samples that are taken lie in the image.      *)
LEMMA SamplesStayInside ==
    ASSUME CenterInv, SampleAt
    PROVE  ReadsStayInside'
<1>1. \A o \in Sampled : o \in Int /\ SampleExists(o)
  <2> SUFFICES ASSUME NEW o \in Sampled PROVE o \in Int /\ SampleExists(o)
    OBVIOUS
  <2>1. o \in -SubsetRadius .. SubsetRadius
    BY DEF Sampled, Subset
  <2>2. o \in -SubsetRadius .. o
    BY <2>1, GridAssumption
  <2>3. QED  BY <2>1, <2>2, GridAssumption DEF Sampled
<1>2. \A o \in Sampled : LeftPixel(o) \in Int
  BY <1>1, GridAssumption DEF LeftPixel, CenterInv
<1>3. \A o \in Sampled : {LeftPixel(o), LeftPixel(o) + 1} \subseteq 0 .. Width - 1
  BY <1>1, <1>2, GridAssumption DEF SampleExists
<1>4. QED  BY <1>3 DEF SampleAt, ReadsStayInside

(* A point is kept only if its refinement converged.                        *)
LEMMA KeptIsMeasured ==
    ASSUME NEW r, KeepPoint(r), engine = "hybrid",
           r.valid /\ r.converged =>
              /\ r.iterations \in 1 .. MaxRefinements
              /\ Magnitude(r.u - r.scoredAt) <= Tolerance,
           r \in [u : {r.u}, scoredAt : {r.scoredAt}, iterations : {r.iterations},
                  converged : BOOLEAN, valid : BOOLEAN]
    PROVE  ValidMeansMeasured'
<1>1. PICK ok \in BOOLEAN : point' = [r EXCEPT !.valid = Accepted(r) /\ ok]
  BY DEF KeepPoint
<1>2. /\ point'.valid => r.valid /\ r.converged
      /\ point'.converged = r.converged /\ point'.iterations = r.iterations
      /\ point'.u = r.u /\ point'.scoredAt = r.scoredAt
  BY <1>1 DEF Accepted
<1>3. QED  BY <1>2 DEF ValidMeansMeasured, Magnitude

(* GridInv holds initially.                                                 *)
LEMMA GridInitial == GridInit => GridInv
BY MarginType, GridAssumption
   DEF GridInit, GridInv, CenterInv, StageAt, Margin, ReadsStayInside, ValidMeansMeasured, NoMatch

(* The whole-pixel search keeps it.                                         *)
LEMMA SearchKeeps == ASSUME GridInv, Search PROVE GridInv'
<1> USE DEF GridInv
<1>1. ReadsStayInside'
  <2>1. /\ center \in Int /\ Margin(engine) \in Nat /\ Margin(engine) >= SubsetRadius + SearchRadius
        /\ center >= Margin(engine) /\ center + Margin(engine) < Width
    BY MarginType DEF Search, CenterInv
  <2>2. reads' = (center - SubsetRadius - SearchRadius) .. (center + SubsetRadius + SearchRadius)
    BY DEF Search
  <2>3. \A pixel \in reads' : pixel \in 0 .. Width - 1
    BY <2>1, <2>2, GridAssumption
  <2>4. QED  BY <2>3 DEF ReadsStayInside
<1>2. PICK best \in -SearchRadius .. SearchRadius, wellMatched \in BOOLEAN :
        IF engine = "hybrid"
        THEN /\ translation' = best * Parts /\ stage' = "refine"
             /\ UNCHANGED <<center, point>>
        ELSE /\ point' = [NoMatch EXCEPT !.u = best * Parts, !.scoredAt = best * Parts,
                                          !.valid = wellMatched]
             /\ Visit(center + PointStep, engine)
             /\ UNCHANGED translation
  BY DEF Search
<1>3. UNCHANGED engine /\ round' = 0 /\ refined' = NoMatch /\ stage = "search"
  BY DEF Search
<1>4. RefinedInv'
  BY <1>3, GridAssumption DEF RefinedInv, NoMatch
<1>5. CASE engine = "hybrid"
  <2>1. best * Parts \in Int
    BY GridAssumption
  <2>2. CenterInv'
    BY <1>2, <1>3, <1>4, <1>5, <2>1 DEF CenterInv, Margin
  <2>3. ValidMeansMeasured'
    BY <1>2, <1>3, <1>5 DEF ValidMeansMeasured
  <2>4. QED  BY <1>1, <2>2, <2>3
<1>6. CASE engine # "hybrid"
  <2>1. CenterInv'
    BY <1>2, <1>3, <1>6, VisitKeepsWindow DEF CenterInv
  <2>2. ValidMeansMeasured'
    BY <1>3, <1>6 DEF ValidMeansMeasured
  <2>3. QED  BY <1>1, <2>1, <2>2
<1>7. QED  BY <1>5, <1>6

(* Whatever result the refinement ends with, the walk goes on in the image.  *)
LEMMA KeepMovesOn ==
    ASSUME NEW r, CenterInv, KeepPoint(r)
    PROVE  CenterInv'
BY VisitKeepsWindow DEF CenterInv, KeepPoint

(* A refinement that stops leaves a result that did not converge.           *)
LEMMA StopsKeep == ASSUME GridInv, RefinementStops PROVE GridInv'
<1> USE DEF GridInv
<1>1. engine = "hybrid" /\ RefinedInv
  BY DEF RefinementStops, CenterInv
<1> DEFINE missing == [refined EXCEPT !.u = translation, !.iterations = round]
           singular == [refined EXCEPT !.u = translation, !.iterations = round + 1]
<1>2. CASE reads' = {} /\ KeepPoint(NoMatch)
  <2>1. ValidMeansMeasured'
    BY <1>1, <1>2, KeptIsMeasured DEF NoMatch
  <2>2. QED  BY <1>2, <2>1, KeepMovesOn DEF ReadsStayInside
<1>3. CASE SampleAt /\ KeepPoint(missing)
  <2>1. ~missing.converged
    BY <1>1 DEF RefinedInv
  <2>2. missing \in [u : {missing.u}, scoredAt : {missing.scoredAt},
                     iterations : {missing.iterations}, converged : BOOLEAN, valid : BOOLEAN]
    BY <1>1 DEF RefinedInv
  <2> HIDE DEF missing
  <2>3. ValidMeansMeasured'
    BY <1>1, <1>3, <2>1, <2>2, KeptIsMeasured
  <2>4. QED  BY <1>3, <2>3, KeepMovesOn, SamplesStayInside
<1>4. CASE SampleAt /\ KeepPoint(singular)
  <2>1. ~singular.converged
    BY <1>1 DEF RefinedInv
  <2>2. singular \in [u : {singular.u}, scoredAt : {singular.scoredAt},
                      iterations : {singular.iterations}, converged : BOOLEAN, valid : BOOLEAN]
    BY <1>1 DEF RefinedInv
  <2> HIDE DEF singular
  <2>3. ValidMeansMeasured'
    BY <1>1, <1>4, <2>1, <2>2, KeptIsMeasured
  <2>4. QED  BY <1>4, <2>3, KeepMovesOn, SamplesStayInside
<1>5. QED  BY <1>2, <1>3, <1>4 DEF RefinementStops

(* A step is kept if it is small enough, or there are no more iterations.   *)
LEMMA StepKeeps == ASSUME GridInv, GaussNewtonStep PROVE GridInv'
<1> USE DEF GridInv
<1>1. engine = "hybrid" /\ RefinedInv /\ SampleAt
  BY DEF GaussNewtonStep, CenterInv
<1> DEFINE result(delta) == [u |-> translation + delta, scoredAt |-> translation,
                             iterations |-> round + 1,
                             converged |-> Magnitude(delta) <= Tolerance, valid |-> TRUE]
<1>2. PICK delta \in Deltas :
        IF result(delta).converged \/ round + 1 = MaxRefinements THEN KeepPoint(result(delta))
        ELSE /\ translation' = result(delta).u /\ round' = round + 1
             /\ refined' = result(delta)
             /\ UNCHANGED <<engine, stage, center, point>>
  BY DEF GaussNewtonStep
<1> DEFINE r == result(delta)
<1>3. /\ delta \in Int /\ translation \in Int /\ round \in 0 .. MaxRefinements - 1
      /\ r \in [u : Int, scoredAt : Int, iterations : Nat, converged : BOOLEAN, valid : BOOLEAN]
      /\ r.u = translation + delta /\ r.scoredAt = translation /\ r.iterations = round + 1
      /\ r.converged = (Magnitude(delta) <= Tolerance)
  <2>1. delta \in Int /\ translation \in Int /\ round \in 0 .. MaxRefinements - 1
    BY <1>1, GridAssumption DEF RefinedInv, CenterInv
  <2>2. translation + delta \in Int /\ round + 1 \in Nat
    BY <2>1
  <2>3. (Magnitude(delta) <= Tolerance) \in BOOLEAN
    BY <2>1, GridAssumption DEF Magnitude
  <2>4. QED  BY <2>1, <2>2, <2>3
<1> HIDE DEF result
<1>4. ReadsStayInside'
  BY <1>1, SamplesStayInside
<1>5. CASE KeepPoint(r)
  <2>1. r.u - r.scoredAt = delta
    BY <1>3
  <2>2. r.iterations \in 1 .. MaxRefinements
    BY <1>3, GridAssumption
  <2>3. r.valid /\ r.converged => /\ r.iterations \in 1 .. MaxRefinements
                                  /\ Magnitude(r.u - r.scoredAt) <= Tolerance
    BY <1>3, <2>1, <2>2
  <2>4. r \in [u : {r.u}, scoredAt : {r.scoredAt}, iterations : {r.iterations},
               converged : BOOLEAN, valid : BOOLEAN]
    BY <1>3
  <2>5. ValidMeansMeasured'
    BY <1>1, <1>5, <2>3, <2>4, KeptIsMeasured
  <2>6. QED  BY <1>4, <1>5, <2>5, KeepMovesOn
<1>6. CASE /\ ~r.converged /\ round + 1 # MaxRefinements
           /\ translation' = r.u /\ round' = round + 1 /\ refined' = r
           /\ UNCHANGED <<engine, stage, center, point>>
  <2>1. RefinedInv'
    BY <1>3, <1>6, GridAssumption DEF RefinedInv
  <2>2. CenterInv'
    BY <1>3, <1>6, <2>1 DEF CenterInv, Margin
  <2>3. ValidMeansMeasured'
    BY <1>6 DEF ValidMeansMeasured
  <2>4. QED  BY <1>4, <2>2, <2>3
<1>7. QED  BY <1>2, <1>5, <1>6

(* A step that is not finite is never valid.                                *)
LEMMA DivergenceKeeps == ASSUME GridInv, GaussNewtonDiverges PROVE GridInv'
<1> USE DEF GridInv
<1> DEFINE r == [u |-> NotFinite, scoredAt |-> translation, iterations |-> round + 1,
                 converged |-> FALSE, valid |-> FALSE]
<1>1. engine = "hybrid" /\ SampleAt /\ KeepPoint(r)
  BY DEF GaussNewtonDiverges, CenterInv
<1>2. ~r.valid /\ r \in [u : {r.u}, scoredAt : {r.scoredAt}, iterations : {r.iterations},
                         converged : BOOLEAN, valid : BOOLEAN]
  OBVIOUS
<1> HIDE DEF r
<1>3. ValidMeansMeasured'
  BY <1>1, <1>2, KeptIsMeasured
<1>4. QED  BY <1>1, <1>3, KeepMovesOn, SamplesStayInside

-----------------------------------------------------------------------------
(* The three of them.                                                      *)

NumericsInv ==
    /\ StrainInv /\ WindowInv
    /\ (part = "grid" /\ GridInv) \/ (part # "grid" /\ GridIdle)

(* A variable of a component that does not run does not change.             *)
LEMMA StrainRests == StrainInv /\ UNCHANGED strainVars => StrainInv'
BY DEF strainVars, StrainInv, FieldInv, CoordinatesOf

(* NumericsInv is an invariant of the three, whichever runs.                *)
THEOREM NumericsInvariant == NumericsSpec => []NumericsInv
<1>1. NumericsInit => NumericsInv
  BY IdleStrain, IdleWindow, GridInitial DEF NumericsInit, NumericsInv, StrainInit, StatisticsInit
<1>2. ASSUME NumericsInv, [NumericsNext]_numericsVars PROVE NumericsInv'
  <2> USE <1>2 DEF NumericsInv
  <2>1. CASE part = "strain" /\ StrainNext /\ UNCHANGED <<part, statisticsVars, gridVars>>
    <3>1. StrainInv'
      BY <2>1, ApplyKeepsTopology DEF StrainNext
    <3>2. WindowInv'
      BY <2>1, StatisticsKeepWindow
    <3>3. GridIdle' /\ part' # "grid"
      BY <2>1 DEF GridIdle, gridVars
    <3>4. QED  BY <3>1, <3>2, <3>3
  <2>2. CASE part = "statistics" /\ StatisticsNext /\ UNCHANGED <<part, strainVars, gridVars>>
    <3>1. StrainInv' /\ WindowInv'
      BY <2>2, StrainRests, StatisticsKeepWindow
    <3>2. GridIdle' /\ part' # "grid"
      BY <2>2 DEF GridIdle, gridVars
    <3>3. QED  BY <3>1, <3>2
  <2>3. CASE part = "grid" /\ GridNext /\ UNCHANGED <<part, strainVars, statisticsVars>>
    <3>1. StrainInv' /\ WindowInv'
      BY <2>3, StrainRests, StatisticsKeepWindow
    <3>2. GridInv' /\ part' = "grid"
      BY <2>3, SearchKeeps, StopsKeep, StepKeeps, DivergenceKeeps DEF GridNext
    <3>3. QED  BY <3>1, <3>2
  <2>4. CASE UNCHANGED numericsVars
    <3>1. StrainInv' /\ WindowInv' /\ part' = part /\ UNCHANGED gridVars
      BY <2>4, StrainRests, StatisticsKeepWindow DEF numericsVars
    <3>2. GridIdle => GridIdle'
      BY <3>1 DEF GridIdle, gridVars
    <3>3. GridInv => GridInv'
      BY <3>1 DEF gridVars, GridInv, CenterInv, RefinedInv, ReadsStayInside,
                  ValidMeansMeasured, Margin, Magnitude
    <3>4. QED  BY <3>1, <3>2, <3>3
  <2>5. QED  BY <2>1, <2>2, <2>3, <2>4 DEF NumericsNext
<1>3. QED  BY <1>1, <1>2, PTL DEF NumericsSpec

(* Whatever the capacity and the samples, the snapshot has the number, the   *)
(* total, the nearest-rank percentiles and the maximum of the last samples   *)
(* since the last clear (RollingStatistics::snapshot).                      *)
THEOREM StatisticsAreOfTheLast == NumericsSpec => []SnapshotIsOfTheLast
<1>1. NumericsInv => SnapshotIsOfTheLast  BY WindowSnapshot DEF NumericsInv
<1>2. QED  BY <1>1, NumericsInvariant, PTL

(* Whatever the grids, the step and the gradients, and whichever points are  *)
(* missing, a strain is that of the field applied last, and there is one     *)
(* exactly where three of the points around are known                       *)
(* (GridStrainEstimator::apply).                                           *)
THEOREM StrainFollowsTheField == NumericsSpec => []StrainIsOfTheField
<1>1. NumericsInv => StrainIsOfTheField  BY StrainOfField DEF NumericsInv
<1>2. QED  BY <1>1, NumericsInvariant, PTL

(* Neither engine reads a pixel outside the image, whatever its width, the   *)
(* radii and the steps of the refinement (sample_bilinear, margin).         *)
THEOREM EnginesReadTheImage == NumericsSpec => []ReadsStayInside
<1>1. GridIdle => ReadsStayInside  BY DEF GridIdle, ReadsStayInside
<1>2. NumericsInv => ReadsStayInside  BY <1>1 DEF NumericsInv, GridInv
<1>3. QED  BY <1>2, NumericsInvariant, PTL

(* A valid point of the hybrid engine converged within the tolerance, and    *)
(* none is left over from an earlier iteration (refine_translation_znssd).   *)
THEOREM ValidPointsConverged == NumericsSpec => []ValidMeansMeasured
<1>1. GridIdle => ValidMeansMeasured  BY DEF GridIdle, ValidMeansMeasured
<1>2. NumericsInv => ValidMeansMeasured  BY <1>1 DEF NumericsInv, GridInv
<1>3. QED  BY <1>2, NumericsInvariant, PTL
=============================================================================
