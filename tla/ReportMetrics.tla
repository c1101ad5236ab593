---------------------------- MODULE ReportMetrics ----------------------------
(* The numbers of the pipeline's report that are computed from recorded     *)
(* times: the 99th percentile, and the iterations of a contender inside the *)
(* measured window.                                                         *)
EXTENDS Integers, Sequences, FiniteSets

\* percentile_99(): the index into the n sorted values, counted from zero
PercentileIndex(n) == (n * 99 + 99) \div 100 - 1

\* The nearest rank: the least one that covers 99 of 100 values
NearestRank(n, i) == i \in 0 .. n - 1 /\ (i + 1) * 100 >= n * 99 /\ i * 100 < n * 99

\* std::lower_bound(): how many elements of a sorted sequence precede value
LowerBound(s, value) ==
    CHOOSE i \in 0 .. Len(s) :
        /\ \A k \in 1 .. i : s[k] < value
        /\ \A k \in i + 1 .. Len(s) : s[k] >= value

window_iterations(completions, start, end) ==
    LowerBound(completions, end) - LowerBound(completions, start)

\* The iterations that the report means: completed in the half-open window
InHalfOpen(completions, start, end) ==
    Cardinality({k \in DOMAIN completions : completions[k] >= start /\ completions[k] < end})

=============================================================================
