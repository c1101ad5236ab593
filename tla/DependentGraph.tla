--------------------------- MODULE DependentGraph ---------------------------
(***************************************************************************)
(* The dependency graph of the dependent workload: two bounded inboxes of  *)
(* processed measurements, one estimator batch at a time, the snapshot the *)
(* last completed batch left, and the control ticks that read it.  The     *)
(* caller serialises the calls and supplies the time of each.              *)
(*                                                                         *)
(* A call that the class answers with an exception changes none of its     *)
(* fields, so the guards below are the conditions under which it does not  *)
(* throw.                                                                  *)
(***************************************************************************)
EXTENDS Integers, Sequences, FiniteSets

CONSTANTS Capacity,         \* of each inbox
          Limit             \* measurements per batch

ASSUME LimitsAssumption == Capacity \in Nat \ {0} /\ Limit \in Nat \ {0}

VARIABLES inbox,            \* per stream, oldest first
          accounting,       \* per stream: offered, dropped, consumed
          last_sequence,    \* per stream; -1 before the first offer
          running,          \* the batch at the estimator
          latest,           \* the snapshot of the last completed batch
          next_batch, next_tick,
          clock_time,
          control           \* what the last control() returned

graphVars == <<inbox, accounting, last_sequence, running, latest, next_batch,
               next_tick, clock_time, control>>

-----------------------------------------------------------------------------
Stream == {"imu", "camera"}

Measurement == [stream : Stream, sequence : Nat, source_time : Nat]

\* An empty optional<Measurement>, older than every measurement
NoMeasurement == [stream |-> "none", sequence |-> 0, source_time |-> -1]

Counts == [offered : Nat, dropped : Nat, consumed : Nat]

Batch == [id : Nat \ {0}, inputs : Seq(Measurement)]
NoBatch == [id |-> 0, inputs |-> <<>>]

Snapshot == [batch_id : Nat, completed : Nat,
             newest : [Stream -> Measurement \cup {NoMeasurement}]]
NoSnapshot == [batch_id |-> 0, completed |-> 0,
               newest |-> [s \in Stream |-> NoMeasurement]]

Outcome == {"usable", "stale", "missing"}

Control == [tick : Nat, release : Nat, outcome : Outcome, snapshot : Snapshot]

GraphTypeOK ==
    /\ inbox \in [Stream -> Seq(Measurement)]
    /\ \A s \in Stream : Len(inbox[s]) <= Capacity
    /\ accounting \in [Stream -> Counts]
    /\ last_sequence \in [Stream -> Nat \cup {-1}]
    /\ running \in Batch \cup {NoBatch}
    /\ latest \in Snapshot
    /\ next_batch \in Nat \ {0} /\ next_tick \in Nat \ {0}
    /\ clock_time \in Nat
    /\ control \in Control

GraphInit ==
    /\ inbox = [s \in Stream |-> <<>>]
    /\ accounting = [s \in Stream |-> [offered |-> 0, dropped |-> 0, consumed |-> 0]]
    /\ last_sequence = [s \in Stream |-> -1]
    /\ running = NoBatch
    /\ latest = NoSnapshot
    /\ next_batch = 1 /\ next_tick = 1
    /\ clock_time = 0
    /\ control = [tick |-> 0, release |-> 0, outcome |-> "missing",
                  snapshot |-> NoSnapshot]

-----------------------------------------------------------------------------
\* advance(): the clock of the caller never moves backwards
Advance(t) == t >= clock_time /\ clock_time' = t

IsFull(s) == Len(inbox[s]) = Capacity

AcceptsInOrder(m, arrival) == m.sequence > last_sequence[m.stream]    \* mutant
AcceptsPast(m, arrival) == m.source_time <= arrival                   \* mutant
\* The identity and the time of a measurement that offer() does not reject
\* with an exception
Accepts(m, arrival) ==
    m.source_time <= arrival /\ m.sequence > last_sequence[m.stream]

CountAccepted(c, full) == [c EXCEPT !.offered = @ + 1]                \* mutant
CountOffer(c, full) ==
    [offered |-> c.offered + 1, consumed |-> c.consumed,
     dropped |-> IF full THEN c.dropped + 1 ELSE c.dropped]

\* offer(): a full inbox rejects the new measurement and counts the drop
Offer(m, arrival) ==
    LET s == m.stream
    IN  /\ Accepts(m, arrival)
        /\ Advance(arrival)
        /\ last_sequence' = [last_sequence EXCEPT ![s] = m.sequence]
        /\ accounting' = [accounting EXCEPT ![s] = CountOffer(@, IsFull(s))]
        /\ inbox' = IF IsFull(s) THEN inbox
                    ELSE [inbox EXCEPT ![s] = Append(@, m)]
        /\ UNCHANGED <<running, latest, next_batch, next_tick, control>>

-----------------------------------------------------------------------------
(* select() pops measurements one by one into a batch.  The pops are a     *)
(* function from positions of the batch to streams.                        *)

\* How many of the first k pops come from stream s
Popped(pops, k, s) == Cardinality({i \in 1 .. k : pops[i] = s})

BatchSize ==
    LET total == Len(inbox["imu"]) + Len(inbox["camera"])
    IN  IF total < Limit THEN total ELSE Limit

\* Sequences of pops that an inbox of this length allows
Merges == {pops \in [1 .. BatchSize -> Stream] :
               \A s \in Stream : Popped(pops, BatchSize, s) <= Len(inbox[s])}

\* mutant: equal source times prefer the camera
CameraNextOnTie(i, c) ==
    \/ i = Len(inbox["imu"])
    \/ /\ c < Len(inbox["camera"])
       /\ inbox["camera"][c + 1].source_time <= inbox["imu"][i + 1].source_time

\* With i and c measurements popped, the next one is the camera's when the imu
\* inbox is exhausted or the camera's front is strictly older.
CameraNext(i, c) ==
    \/ i = Len(inbox["imu"])
    \/ /\ c < Len(inbox["camera"])
       /\ inbox["camera"][c + 1].source_time < inbox["imu"][i + 1].source_time

OldestFirstPops(pops) ==
    \A k \in DOMAIN pops :
        pops[k] = "camera" <=> CameraNext(Popped(pops, k - 1, "imu"),
                                          Popped(pops, k - 1, "camera"))

Inputs(pops) ==
    [k \in 1 .. BatchSize |-> inbox[pops[k]][Popped(pops, k, pops[k])]]

\* select(): nothing while a batch is running or when both inboxes are empty
Select(t) ==
    /\ Advance(t)
    /\ IF running # NoBatch \/ BatchSize = 0
       THEN UNCHANGED <<inbox, running, next_batch>>
       ELSE \E pops \in Merges :
                /\ OldestFirstPops(pops)
                /\ running' = [id |-> next_batch, inputs |-> Inputs(pops)]
                /\ inbox' = [s \in Stream |->
                       SubSeq(inbox[s], Popped(pops, BatchSize, s) + 1, Len(inbox[s]))]
                /\ next_batch' = next_batch + 1
    /\ UNCHANGED <<accounting, last_sequence, latest, next_tick, control>>

\* in_flight(): measurements of stream s in the running batch
InFlight(s) ==
    Cardinality({k \in DOMAIN running.inputs : running.inputs[k].stream = s})

\* The positions of the batch where the loop of complete() replaces the newest
\* measurement of stream s: those not older than any before them.
Replacing(s) ==
    {k \in DOMAIN running.inputs :
        /\ running.inputs[k].stream = s
        /\ running.inputs[k].source_time >= latest.newest[s].source_time
        /\ \A i \in DOMAIN running.inputs :
               i < k /\ running.inputs[i].stream = s =>
                   running.inputs[i].source_time <= running.inputs[k].source_time}

\* mutant: the last measurement of the batch wins, whatever its time
NewestByPosition(s) ==
    LET ks == {k \in DOMAIN running.inputs : running.inputs[k].stream = s}
    IN  IF ks = {} THEN latest.newest[s]
        ELSE running.inputs[CHOOSE k \in ks : \A i \in ks : i <= k]

LastReplacing(s) == {k \in Replacing(s) : \A i \in Replacing(s) : i <= k}

Newest(s) == IF LastReplacing(s) = {} THEN latest.newest[s]
             ELSE running.inputs[CHOOSE k \in LastReplacing(s) : TRUE]

Complete(id, t) ==
    /\ running # NoBatch /\ running.id = id
    /\ Advance(t)
    /\ accounting' = [s \in Stream |->
           [offered |-> accounting[s].offered, dropped |-> accounting[s].dropped,
            consumed |-> accounting[s].consumed + InFlight(s)]]
    /\ latest' = [batch_id |-> id, completed |-> t,
                  newest |-> [s \in Stream |-> Newest(s)]]
    /\ running' = NoBatch
    /\ UNCHANGED <<inbox, last_sequence, next_batch, next_tick, control>>

\* control(): the tick is judged against the snapshot of completed work only
TakeControl(t, max_imu_age) ==
    LET imu == latest.newest["imu"]
    IN  /\ Advance(t)
        /\ control' = [tick |-> next_tick, release |-> t, snapshot |-> latest,
                       outcome |-> IF imu = NoMeasurement THEN "missing"
                                   ELSE IF t - imu.source_time <= max_imu_age
                                        THEN "usable" ELSE "stale"]
        /\ next_tick' = next_tick + 1
        /\ UNCHANGED <<inbox, accounting, last_sequence, running, latest, next_batch>>

-----------------------------------------------------------------------------
(* The graph on its own, driven by a caller that passes any arguments the  *)
(* class accepts.                                                          *)

CONSTANTS MaxTime,          \* bound: times are 0 .. MaxTime
          MaxSequence,      \* bound: sequence numbers per stream
          MaxTick,          \* bound: control ticks
          MaxImuAge         \* the age up to which imu data is usable

ASSUME BoundsAssumption == MaxTime \in Nat /\ MaxSequence \in Nat
                           /\ MaxTick \in Nat /\ MaxImuAge \in Nat

CallOffer ==
    \E s \in Stream, n \in 0 .. MaxSequence, src \in 0 .. MaxTime, t \in 0 .. MaxTime :
        Offer([stream |-> s, sequence |-> n, source_time |-> src], t)

CallSelect == \E t \in 0 .. MaxTime : Select(t)

CallComplete == \E id \in {running.id}, t \in 0 .. MaxTime : Complete(id, t)

CallControl ==
    /\ next_tick <= MaxTick
    /\ \E t \in 0 .. MaxTime : TakeControl(t, MaxImuAge)

GraphNext == CallOffer \/ CallSelect \/ CallComplete \/ CallControl

GraphSpec == GraphInit /\ [][GraphNext]_graphVars

-----------------------------------------------------------------------------
(* Safety.                                                                 *)

(* Every measurement ever offered is dropped, consumed, waiting or in the    *)
(* running batch, and in exactly one of them: the identity that the tests    *)
(* of the graph call conserved().                                            *)
Conserved ==
    \A s \in Stream :
        accounting[s].offered = accounting[s].dropped + accounting[s].consumed
                                + Len(inbox[s]) + InFlight(s)

(* No measurement in the graph is younger than the graph's clock, so that    *)
(* the unsigned age that control() subtracts can never wrap around.          *)
NoFutureSource ==
    /\ \A s \in Stream : \A k \in 1 .. Len(inbox[s]) :
           inbox[s][k].source_time <= clock_time
    /\ \A k \in DOMAIN running.inputs : running.inputs[k].source_time <= clock_time
    /\ \A s \in Stream : latest.newest[s].source_time <= clock_time
    /\ control.snapshot.newest["imu"].source_time <= control.release

(* What the estimator hands to control never gets older: a later snapshot    *)
(* has a larger batch id, and per stream a source time at least as large.    *)
SnapshotsAdvance ==
    [][latest' # latest =>
        /\ latest'.batch_id > latest.batch_id
        /\ latest'.completed >= latest.completed
        /\ \A s \in Stream :
              latest'.newest[s].source_time >= latest.newest[s].source_time]_graphVars

\* Where the measurements of stream s are in the running batch
RunningOf(s) == {k \in DOMAIN running.inputs : running.inputs[k].stream = s}

(* Per stream, the running batch followed by the inbox is in offer order:    *)
(* neither the merge nor the cut at the batch limit reorders, duplicates or  *)
(* skips a measurement.                                                      *)
StreamOrder ==
    \A s \in Stream :
        /\ \A i, k \in RunningOf(s) :
              i < k => running.inputs[i].sequence < running.inputs[k].sequence
        /\ \A i \in RunningOf(s), k \in 1 .. Len(inbox[s]) :
              running.inputs[i].sequence < inbox[s][k].sequence
        /\ \A i, k \in 1 .. Len(inbox[s]) :
              i < k => inbox[s][i].sequence < inbox[s][k].sequence
        /\ \A i \in RunningOf(s) : running.inputs[i].sequence <= last_sequence[s]
        /\ \A k \in 1 .. Len(inbox[s]) :
              inbox[s][k].stream = s /\ inbox[s][k].sequence <= last_sequence[s]

\* The measurements that wait in stream s are in the order of their times
TimeSorted(s) ==
    \A i, j \in 1 .. Len(inbox[s]) :
        i < j => inbox[s][i].source_time <= inbox[s][j].source_time

(* When both inboxes are sorted by source time, a new batch holds the oldest *)
(* measurements there are, in order, and prefers the imu among equals.       *)
OldestFirst ==
    [][(\A s \in Stream : TimeSorted(s)) /\ running = NoBatch /\ running' # NoBatch =>
        /\ \A i, j \in DOMAIN running'.inputs :
              i < j => \/ running'.inputs[i].source_time < running'.inputs[j].source_time
                       \/ /\ running'.inputs[i].source_time = running'.inputs[j].source_time
                          /\ ~(running'.inputs[i].stream = "camera"
                               /\ running'.inputs[j].stream = "imu")
        /\ \A i \in DOMAIN running'.inputs, s \in Stream :
              \A k \in 1 .. Len(inbox'[s]) :
                  running'.inputs[i].source_time <= inbox'[s][k].source_time]_graphVars

-----------------------------------------------------------------------------
(* The inductive invariant behind Conserved, NoFutureSource and            *)
(* SnapshotsAdvance.                                                       *)

\* An inbox only holds measurements of its stream: popping from inbox s and
\* counting stream s are the same thing.
OwnStream ==
    \A s \in Stream : \A k \in 1 .. Len(inbox[s]) : inbox[s][k].stream = s

\* Batch ids are handed out in order, one at a time.
BatchOrder ==
    /\ latest.batch_id < next_batch /\ latest.completed <= clock_time
    /\ running # NoBatch => latest.batch_id < running.id /\ running.id < next_batch

GraphInv == GraphTypeOK /\ OwnStream /\ BatchOrder /\ Conserved /\ NoFutureSource
=============================================================================
