---------------------------- MODULE MCBagSession -----------------------------
(* Instances of BagSession: what may go wrong in each input mode, and the  *)
(* recordings.                                                             *)
EXTENDS BagSession, ReportMetrics

CONSTANT h1    \* a contender

Rows(stamps) == [i \in DOMAIN stamps |-> [stamp |-> stamps[i], ordinal |-> i]]
Indexed(stamps) == [path |-> TRUE, rows |-> Rows(stamps)]
Unindexed == [path |-> FALSE, rows |-> <<>>]

\* An imu message and the second frame of the bag, both in the window
Frame == [bag    |-> [imu |-> <<2>>, camera |-> <<1, 2>>],
          offset |-> [imu |-> 0, camera |-> 1],
          index  |-> [imu |-> Indexed(<<2>>), camera |-> Indexed(<<1, 2>>)]]
\* A frame of warm-up, one that the index does not know, and a measured one
WarmUp == [bag    |-> [imu |-> <<>>, camera |-> <<1, 7, 2>>],
           offset |-> [imu |-> 0, camera |-> 0],
           index  |-> [imu |-> Unindexed, camera |-> Indexed(<<1, 2>>)]]
\* The stamps of the index go back: the adapter does not start.
Unordered == [Frame EXCEPT !.index.camera = Indexed(<<2, 1>>)]

\* Imu messages only: one before a window of two, or a window that holds one
\* message more than the script expects
ImuOnly(stamps) == [bag    |-> [imu |-> stamps, camera |-> <<>>],
                    offset |-> [imu |-> 0, camera |-> 0],
                    index  |-> [imu |-> Indexed(stamps), camera |-> Unindexed]]

Bags == {Frame, WarmUp, Unordered, ImuOnly(<<1, 2, 3>>), ImuOnly(<<2, 3, 4>>)}
Expectation == [imu |-> 2, camera |-> 1]
OneBag == {Frame}
OneFrame == [imu |-> 0, camera |-> 1]

Synthetic == [window_stats |-> FALSE, faulty |-> {"vision", h1}, slow |-> {"vision"},
              hogs |-> {h1}, late |-> {"vision"}]
Harness == [window_stats |-> TRUE, faulty |-> {"adapter"}, slow |-> {}, hogs |-> {},
            late |-> {"imu", "audit_camera"}]
BothModes == [synthetic |-> Synthetic, external |-> Harness]
BagOnly == [external |-> [Harness EXCEPT !.late = {}]]

\* Over every sorted record of at most three stamps the report counts the
\* completions of the half-open window, and the percentile is a nearest rank.
ASSUME MetricsExact ==
    /\ \A n \in 0 .. 3 : \A c \in [1 .. n -> 0 .. 3] :
           (\A i, j \in 1 .. n : i < j => c[i] <= c[j]) =>
               \A from, to \in 0 .. 3 : from <= to =>
                   window_iterations(c, from, to) = InHalfOpen(c, from, to)
    /\ \A n \in 1 .. 300 : NearestRank(n, PercentileIndex(n))

=============================================================================
