------------------------- MODULE RollingStatistics -------------------------
(***************************************************************************)
(* RollingStatistics: the last samples of a duration and their order        *)
(* statistics (include/p2dic/performance_stats.hpp).  The pipeline and the   *)
(* writer keep ten of them; STATUS shows them.  Samples are small numbers;  *)
(* -1 stands for one that is negative or not finite.                       *)
(***************************************************************************)
EXTENDS Integers, Sequences, SequencesExt

CONSTANTS
    Capacity,       \* capacity_
    Samples,        \* values that are added
    MaxSamples      \* bound: samples between two calls of clear

ASSUME CapacityAssumption == Capacity \in Nat \ {0} /\ Samples \subseteq Nat

VARIABLES
    window,     \* values_, the oldest first
    added       \* history: the samples since the last clear

statisticsVars == <<window, added>>

StatisticsIdle == window = <<>> /\ added = <<>>

StatisticsInit == StatisticsIdle

(* A full window loses its oldest sample; -1 is ignored.                    *)
Add ==
    \E value \in Samples \cup {-1} :
        IF value < 0 THEN UNCHANGED statisticsVars
        ELSE /\ Len(added) < MaxSamples
             /\ window' = Append(IF Len(window) = Capacity THEN Tail(window) ELSE window, value)
             /\ added' = Append(added, value)

Clear == window' = <<>> /\ added' = <<>>

StatisticsNext == Add \/ Clear

AtLeast(m, n) == IF n < m THEN m ELSE n
AtMost(m, n) == IF n > m THEN m ELSE n

(* Bug for a mutant: the rank is rounded down.                             *)
PercentileRoundedDown(sorted, percent) ==
    LET rank == (percent * Len(sorted)) \div 100
    IN  sorted[AtMost(Len(sorted) - 1, AtLeast(1, rank) - 1) + 1]

(* std::ceil of a fraction of the count is the exact one for every count up *)
(* to 1024, the capacity in use; an index counts from 0.                   *)
Percentile(sorted, percent) ==
    LET rank == (percent * Len(sorted) + 99) \div 100
    IN  sorted[AtMost(Len(sorted) - 1, AtLeast(1, rank) - 1) + 1]

(* std::sort of a copy.                                                    *)
Ascending(s) ==
    LET order == CHOOSE p \in [DOMAIN s -> DOMAIN s] :
                   \A i, j \in DOMAIN s : i < j => p[i] # p[j] /\ s[p[i]] <= s[p[j]]
    IN  [i \in DOMAIN s |-> s[order[i]]]

Total(s) == FoldLeft(+, 0, s)

Snapshot ==
    LET sorted == Ascending(window)
    IN  IF sorted = <<>> THEN [count |-> 0]
        ELSE [count |-> Len(sorted),
              total |-> Total(window),
              p50 |-> Percentile(sorted, 50),
              p95 |-> Percentile(sorted, 95),
              p99 |-> Percentile(sorted, 99),
              maximum |-> sorted[Len(sorted)]]

(* A value is the nearest-rank percentile of a sequence: it occurs, at       *)
(* least percent of the samples are not above it, and fewer are below it.   *)
IsPercentile(value, s, percent) ==
    /\ Contains(s, value)
    /\ 100 * Cardinality({i \in DOMAIN s : s[i] <= value}) >= percent * Len(s)
    /\ 100 * Cardinality({i \in DOMAIN s : s[i] < value}) < percent * Len(s)

(* The snapshot is that of the last Capacity samples since the last clear,   *)
(* for one sample, a window that is filling, and one that has wrapped.      *)
SnapshotIsOfTheLast ==
    LET n == AtMost(Capacity, Len(added))
        last == SubSeq(added, Len(added) - n + 1, Len(added))
    IN  /\ Snapshot.count = n
        /\ n > 0 =>
             /\ Snapshot.total = Total(last)
             /\ IsPercentile(Snapshot.p50, last, 50)
             /\ IsPercentile(Snapshot.p95, last, 95)
             /\ IsPercentile(Snapshot.p99, last, 99)
             /\ Contains(last, Snapshot.maximum)
             /\ \A i \in DOMAIN last : last[i] <= Snapshot.maximum
=============================================================================
