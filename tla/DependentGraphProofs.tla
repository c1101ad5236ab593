------------------------ MODULE DependentGraphProofs ------------------------
(***************************************************************************)
(* Accounting, ages and snapshots of the dependency graph, for every       *)
(* capacity, batch limit and sequence of calls.                            *)
(***************************************************************************)
EXTENDS DependentGraph, FiniteSetTheorems, SequenceTheorems, WellFoundedInduction, TLAPS

(* Every nonempty set of numbers has a least element, and a greatest one      *)
(* when it is bounded.                                                       *)
LEMMA LeastNumber ==
    ASSUME NEW T, T \subseteq Nat, T # {}
    PROVE  \E x \in T : \A y \in T : x <= y
<1> DEFINE less == {ss \in Nat \X Nat : ss[1] < ss[2]}
<1>1. IsWellFoundedOn(less, Nat)
    BY NatLessThanWellFounded DEF OpToRel
<1>2. \A y, x \in Nat : y < x => <<y, x>> \in less
    OBVIOUS
<1> HIDE DEF less
<1>3. PICK x \in T : \A y \in T : ~(<<y, x>> \in less)
    BY <1>1, WFMin
<1>4. \A y \in T : ~(y < x)
    BY <1>2, <1>3
<1> QED
    BY <1>4

LEMMA GreatestNumber ==
    ASSUME NEW n \in Nat, NEW T, T \subseteq 0 .. n, T # {}
    PROVE  \E x \in T : \A y \in T : y <= x
<1> DEFINE gap == {d \in Nat : n - d \in T}
<1>1. \A y \in T : n - y \in gap
    OBVIOUS
<1>2. PICK d \in gap : \A e \in gap : d <= e
    BY <1>1, LeastNumber
<1> QED
    BY <1>1, <1>2

(* The size of a batch is a number between zero and the number waiting.      *)
LEMMA BatchSizeType == GraphTypeOK => BatchSize \in Nat
BY LimitsAssumption DEF GraphTypeOK, BatchSize, Stream

(* What the pop counts of a merge can be.                                    *)
LEMMA PoppedBounds ==
    ASSUME NEW n \in Nat, NEW pops \in [1 .. n -> Stream], NEW k \in 0 .. n,
           NEW s \in Stream
    PROVE  /\ IsFiniteSet({i \in 1 .. k : pops[i] = s})
           /\ Popped(pops, k, s) \in Nat
           /\ Popped(pops, k, s) <= Popped(pops, n, s)
           /\ k # 0 /\ pops[k] = s => Popped(pops, k, s) >= 1
<1> DEFINE front == {i \in 1 .. k : pops[i] = s}
           all   == {i \in 1 .. n : pops[i] = s}
<1>1. IsFiniteSet(1 .. n)
    BY FS_Interval
<1>2. IsFiniteSet(all) /\ IsFiniteSet(front) /\ Cardinality(front) <= Cardinality(all)
    <2>1. all \subseteq 1 .. n /\ front \subseteq all
        OBVIOUS
    <2> QED
        BY <1>1, <2>1, FS_Subset
<1>3. Cardinality(front) \in Nat
    BY <1>2, FS_CardinalityType
<1>4. ASSUME k # 0, pops[k] = s PROVE Cardinality(front) >= 1
    <2>1. k \in front
        BY <1>4
    <2>2. Cardinality(front) # 0
        BY <2>1, <1>2, FS_EmptySet
    <2> QED
        BY <2>2, <1>3
<1> QED
    BY <1>2, <1>3, <1>4 DEF Popped

(* Popping adds one to the count of the popped stream, so the counts grow      *)
(* with the batch.                                                           *)
LEMMA PoppedGrows ==
    ASSUME NEW n \in Nat, NEW pops \in [1 .. n -> Stream], NEW s \in Stream,
           NEW i \in 0 .. n, NEW k \in 0 .. n, i < k
    PROVE  /\ Popped(pops, i, s) <= Popped(pops, k, s)
           /\ pops[k] = s => Popped(pops, i, s) < Popped(pops, k, s)
<1> DEFINE front == {x \in 1 .. i : pops[x] = s}
           more  == {x \in 1 .. k : pops[x] = s}
<1>1. IsFiniteSet(front) /\ IsFiniteSet(more)
    BY PoppedBounds
<1>2. front \subseteq more
    OBVIOUS
<1>3. Cardinality(front) \in Nat /\ Cardinality(more) \in Nat
      /\ Cardinality(front) <= Cardinality(more)
    BY <1>1, <1>2, FS_Subset, FS_CardinalityType
<1>4. ASSUME pops[k] = s PROVE Cardinality(front) < Cardinality(more)
    <2>1. k \in more /\ k \notin front
        BY <1>4
    <2>2. Cardinality(front) # Cardinality(more)
        BY <1>1, <1>2, <2>1, FS_Subset
    <2> QED
        BY <1>3, <2>2
<1> QED
    BY <1>3, <1>4 DEF Popped

LEMMA PoppedStep ==
    ASSUME NEW n \in Nat, NEW pops \in [1 .. n -> Stream], NEW k \in 1 .. n
    PROVE  Popped(pops, k, pops[k]) = Popped(pops, k - 1, pops[k]) + 1
<1> DEFINE s == pops[k]
           front == {x \in 1 .. k - 1 : pops[x] = s}
           more  == {x \in 1 .. k : pops[x] = s}
<1>1. IsFiniteSet(front)
    <2>1. k - 1 \in 0 .. n /\ s \in Stream
        OBVIOUS
    <2> QED
        BY <2>1, PoppedBounds
<1>2. more = front \cup {k} /\ k \notin front
    OBVIOUS
<1>3. Cardinality(front \cup {k}) = Cardinality(front) + 1
    BY <1>1, <1>2, FS_AddElement
<1> QED
    BY <1>2, <1>3 DEF Popped

(* The batch that a merge makes takes what was at the front of the inboxes.  *)
LEMMA SelectedBatch ==
    ASSUME GraphTypeOK, OwnStream, NEW pops \in Merges
    PROVE  /\ Inputs(pops) \in Seq(Measurement)
           /\ DOMAIN Inputs(pops) = 1 .. BatchSize
           /\ \A k \in 1 .. BatchSize :
                 /\ Popped(pops, k, pops[k]) \in 1 .. Len(inbox[pops[k]])
                 /\ pops[k] \in Stream
                 /\ Inputs(pops)[k] = inbox[pops[k]][Popped(pops, k, pops[k])]
                 /\ Inputs(pops)[k].stream = pops[k]
<1>1. BatchSize \in Nat
    BY BatchSizeType
<1>2. /\ pops \in [1 .. BatchSize -> Stream]
      /\ \A s \in Stream : Popped(pops, BatchSize, s) <= Len(inbox[s])
    BY DEF Merges
<1>3. ASSUME NEW k \in 1 .. BatchSize
      PROVE  /\ pops[k] \in Stream
             /\ Popped(pops, k, pops[k]) \in 1 .. Len(inbox[pops[k]])
             /\ inbox[pops[k]][Popped(pops, k, pops[k])] \in Measurement
             /\ inbox[pops[k]][Popped(pops, k, pops[k])].stream = pops[k]
    <2>1. pops[k] \in Stream /\ inbox[pops[k]] \in Seq(Measurement)
        BY <1>2 DEF GraphTypeOK
    <2>2. /\ Popped(pops, k, pops[k]) \in Nat
          /\ Popped(pops, k, pops[k]) <= Popped(pops, BatchSize, pops[k])
          /\ Popped(pops, k, pops[k]) >= 1
        <3>1. k \in 0 .. BatchSize /\ k # 0
            BY <1>1
        <3> QED
            BY <1>1, <1>2, <2>1, <3>1, PoppedBounds
    <2>4. Popped(pops, BatchSize, pops[k]) \in Nat
        <3>1. BatchSize \in 0 .. BatchSize
            BY <1>1
        <3> QED
            BY <1>1, <1>2, <2>1, <3>1, PoppedBounds
    <2>3. Popped(pops, k, pops[k]) \in 1 .. Len(inbox[pops[k]])
        BY <2>1, <2>2, <2>4, <1>2
    <2> QED
        BY <2>1, <2>3 DEF OwnStream
<1>4. Inputs(pops) \in [1 .. BatchSize -> Measurement]
    BY <1>3 DEF Inputs
<1>5. Inputs(pops) \in Seq(Measurement)
    BY <1>1, <1>4, SeqDef
<1> QED
    BY <1>3, <1>4, <1>5 DEF Inputs

(* What a merge leaves in an inbox is what it had behind the popped ones.    *)
LEMMA SelectedRest ==
    ASSUME GraphTypeOK, NEW pops \in Merges, NEW s \in Stream,
           inbox' = [r \in Stream |->
               SubSeq(inbox[r], Popped(pops, BatchSize, r) + 1, Len(inbox[r]))]
    PROVE  /\ inbox'[s] \in Seq(Measurement)
           /\ Popped(pops, BatchSize, s) \in 0 .. Len(inbox[s])
           /\ Len(inbox'[s]) = Len(inbox[s]) - Popped(pops, BatchSize, s)
           /\ Len(inbox'[s]) \in Nat /\ Len(inbox[s]) \in Nat
           /\ \A k \in 1 .. Len(inbox'[s]) :
                 /\ Popped(pops, BatchSize, s) + k \in 1 .. Len(inbox[s])
                 /\ inbox'[s][k] = inbox[s][Popped(pops, BatchSize, s) + k]
<1> DEFINE p == Popped(pops, BatchSize, s)
           n == Len(inbox[s])
<1>0. p \in 0 .. n
    <2>1. BatchSize \in Nat /\ pops \in [1 .. BatchSize -> Stream] /\ BatchSize \in 0 .. BatchSize
        BY BatchSizeType DEF Merges
    <2>2. Popped(pops, BatchSize, s) \in Nat
        BY <2>1, PoppedBounds
    <2>3. Len(inbox[s]) \in Nat
        BY LenProperties DEF GraphTypeOK
    <2> QED
        BY <2>2, <2>3 DEF Merges
<1>1. inbox[s] \in Seq(Measurement) /\ n \in Nat /\ p \in 0 .. n
    BY <1>0, LenProperties DEF GraphTypeOK
<1>2. inbox'[s] = SubSeq(inbox[s], p + 1, n)
    OBVIOUS
<1>a. \A i \in 1 .. Len(inbox[s]) : inbox[s][i] \in Measurement
    BY <1>1, ElementOfSeq
<1> HIDE DEF p, n
<1>3. \A i \in p + 1 .. n : inbox[s][i] \in Measurement
    BY <1>1, <1>a DEF n
<1>4. /\ SubSeq(inbox[s], p + 1, n) \in Seq(Measurement)
      /\ Len(SubSeq(inbox[s], p + 1, n))
             = IF p + 1 <= n THEN n - (p + 1) + 1 ELSE 0
      /\ \A i \in 1 .. n - (p + 1) + 1 :
            SubSeq(inbox[s], p + 1, n)[i] = inbox[s][p + 1 + i - 1]
    BY <1>1, <1>3, SubSeqProperties
<1>5. Len(inbox'[s]) = n - p
    <2>1. p + 1 <= n => n - (p + 1) + 1 = n - p
        BY <1>1
    <2>2. ~(p + 1 <= n) => n - p = 0
        BY <1>1
    <2>3. Len(SubSeq(inbox[s], p + 1, n)) = n - p
        BY <1>4, <2>1, <2>2
    <2> QED
        BY <1>2, <2>3
<1>6. \A k \in 1 .. n - p : p + 1 + k - 1 = p + k /\ k \in 1 .. n - (p + 1) + 1
                            /\ p + k \in 1 .. n
    BY <1>1
<1> QED
    BY SMTT(30), <1>1, <1>2, <1>4, <1>5, <1>6 DEF p, n

(* The inputs of the running batch are measurements; there are none without   *)
(* a batch.                                                                  *)
LEMMA RunningInputs ==
    ASSUME GraphTypeOK
    PROVE  /\ running.inputs \in Seq(Measurement)
           /\ IsFiniteSet(DOMAIN running.inputs)
           /\ \A k \in DOMAIN running.inputs : running.inputs[k] \in Measurement
<1>1. running.inputs \in Seq(Measurement)
    <2>1. CASE running \in Batch
        BY <2>1 DEF Batch
    <2>2. CASE running = NoBatch
        <3>1. running.inputs = <<>>
            BY <2>2 DEF NoBatch
        <3> QED
            BY <3>1, EmptySeq
    <2> QED
        BY <2>1, <2>2 DEF GraphTypeOK
<1>2. DOMAIN running.inputs = 1 .. Len(running.inputs) /\ Len(running.inputs) \in Nat
    BY <1>1, LenProperties
<1>3. IsFiniteSet(DOMAIN running.inputs)
    BY <1>2, FS_Interval
<1>4. \A k \in DOMAIN running.inputs : running.inputs[k] \in Measurement
    BY <1>1, <1>2, ElementOfSeq
<1> QED
    BY <1>1, <1>3, <1>4

(* The source time of a measurement or of its absence is a number.           *)
LEMMA NewestType ==
    ASSUME GraphTypeOK, NEW s \in Stream
    PROVE  /\ latest.newest[s] \in Measurement \cup {NoMeasurement}
           /\ latest.newest[s].source_time \in Int
<1>1. latest.newest \in [Stream -> Measurement \cup {NoMeasurement}]
    BY DEF GraphTypeOK, Snapshot
<1>2. latest.newest[s] \in Measurement \cup {NoMeasurement}
    BY <1>1
<1> QED
    BY <1>2 DEF Measurement, NoMeasurement

(* What offer() does to the counts of its stream.                            *)
LEMMA CountOfferEffect ==
    ASSUME NEW c \in Counts, NEW full \in BOOLEAN
    PROVE  /\ CountOffer(c, full) \in Counts
           /\ CountOffer(c, full).offered = c.offered + 1
           /\ CountOffer(c, full).consumed = c.consumed
           /\ CountOffer(c, full).dropped = IF full THEN c.dropped + 1 ELSE c.dropped
BY DEF CountOffer, Counts

(* How many measurements of a stream the running batch holds.                *)
LEMMA InFlightType ==
    ASSUME GraphTypeOK, NEW s \in Stream
    PROVE  InFlight(s) \in Nat
<1> DEFINE ks == {k \in DOMAIN running.inputs : running.inputs[k].stream = s}
<1>1. IsFiniteSet(ks)
    BY RunningInputs, FS_Subset
<1> QED
    BY <1>1, FS_CardinalityType DEF InFlight

-----------------------------------------------------------------------------
(* offer() keeps the invariant.                                             *)
LEMMA OfferInv ==
    ASSUME GraphInv, NEW m \in Measurement, NEW t \in Nat, Offer(m, t)
    PROVE  GraphInv'
<1> DEFINE s == m.stream
<1> USE DEF GraphInv, GraphTypeOK
<1>1. s \in Stream /\ m.source_time \in Nat /\ m.sequence \in Nat
    BY DEF Measurement
<1>2. /\ inbox[s] \in Seq(Measurement) /\ accounting[s] \in Counts
      /\ m.source_time <= t /\ t >= clock_time /\ clock_time' = t
      /\ UNCHANGED <<running, latest, next_batch, next_tick, control>>
      /\ inbox' = IF IsFull(s) THEN inbox ELSE [inbox EXCEPT ![s] = Append(@, m)]
      /\ accounting' = [accounting EXCEPT ![s] = CountOffer(@, IsFull(s))]
      /\ last_sequence' = [last_sequence EXCEPT ![s] = m.sequence]
    BY <1>1 DEF Offer, Accepts, Advance
<1>0. IsFull(s) \in BOOLEAN
    BY DEF IsFull
<1>3. \A r \in Stream :
          /\ inbox'[r] \in Seq(Measurement)
          /\ ~(r = s /\ ~IsFull(s)) => inbox'[r] = inbox[r]
          /\ r = s /\ ~IsFull(s) =>
                /\ Len(inbox'[r]) = Len(inbox[r]) + 1
                /\ inbox'[r][Len(inbox[r]) + 1] = m
                /\ \A k \in 1 .. Len(inbox[r]) : inbox'[r][k] = inbox[r][k]
    BY <1>1, <1>2, AppendProperties
<1>4. \A r \in Stream : Len(inbox[r]) \in Nat /\ Len(inbox'[r]) \in Nat
    BY <1>3, LenProperties
<1>5. GraphTypeOK'
    <2>1. inbox' \in [Stream -> Seq(Measurement)]
        BY <1>1, <1>2, AppendProperties
    <2>2. \A r \in Stream : Len(inbox'[r]) <= Capacity
        BY <1>3, <1>4, LimitsAssumption DEF IsFull
    <2>3. accounting' \in [Stream -> Counts]
        BY <1>0, <1>1, <1>2, CountOfferEffect
    <2> QED
        BY <1>1, <1>2, <2>1, <2>2, <2>3
<1>6. OwnStream'
    <2> SUFFICES ASSUME NEW r \in Stream, NEW k \in 1 .. Len(inbox'[r])
                 PROVE  inbox'[r][k].stream = r
        BY DEF OwnStream
    <2>1. CASE ~(r = s /\ ~IsFull(s))
        BY <1>3, <2>1 DEF OwnStream
    <2>2. CASE r = s /\ ~IsFull(s)
        <3>1. CASE k = Len(inbox[r]) + 1
            BY <1>3, <2>2, <3>1
        <3>2. CASE k \in 1 .. Len(inbox[r])
            <4>1. inbox[r][k].stream = r
                BY <3>2 DEF OwnStream
            <4>2. inbox'[r][k] = inbox[r][k]
                BY <1>3, <2>2, <3>2
            <4> QED
                BY <4>1, <4>2
        <3> QED
            BY <1>3, <1>4, <2>2, <3>1, <3>2
    <2> QED
        BY <2>1, <2>2
<1>7. BatchOrder'
    BY <1>2 DEF BatchOrder, Snapshot
<1>8. Conserved'
    <2> SUFFICES ASSUME NEW r \in Stream
                 PROVE  accounting'[r].offered = accounting'[r].dropped
                        + accounting'[r].consumed + Len(inbox'[r]) + InFlight(r)'
        BY DEF Conserved
    <2>1. InFlight(r)' = InFlight(r) /\ InFlight(r) \in Nat
        BY <1>2, InFlightType DEF InFlight
    <2>2. accounting[r] \in Counts
        OBVIOUS
    <2>3. CASE r # s
        BY <1>1, <1>2, <1>3, <2>1, <2>3 DEF Conserved
    <2>4. CASE r = s
        <3>1. accounting'[r].offered = accounting[r].offered + 1
              /\ accounting'[r].consumed = accounting[r].consumed
              /\ accounting'[r].dropped = IF IsFull(s) THEN accounting[r].dropped + 1
                                          ELSE accounting[r].dropped
            BY <1>0, <1>1, <1>2, <2>2, <2>4, CountOfferEffect
        <3>2. Len(inbox'[r]) = IF IsFull(s) THEN Len(inbox[r]) ELSE Len(inbox[r]) + 1
            BY <1>1, <1>3, <2>4
        <3>3. /\ accounting[r].offered \in Nat /\ accounting[r].dropped \in Nat
              /\ accounting[r].consumed \in Nat
            BY <2>2 DEF Counts
        <3>4. accounting[r].offered = accounting[r].dropped + accounting[r].consumed
                                      + Len(inbox[r]) + InFlight(r)
            BY DEF Conserved
        <3> QED
            BY <1>4, <2>1, <3>1, <3>2, <3>3, <3>4
    <2> QED
        BY <2>3, <2>4
<1>9. NoFutureSource'
    <2>1. \A r \in Stream : \A k \in 1 .. Len(inbox'[r]) : inbox'[r][k].source_time <= t
        <3> TAKE r \in Stream
        <3> TAKE k \in 1 .. Len(inbox'[r])
        <3>1. CASE r = s /\ ~IsFull(s) /\ k = Len(inbox[r]) + 1
            BY <1>1, <1>2, <1>3, <3>1
        <3>2. CASE ~(r = s /\ ~IsFull(s) /\ k = Len(inbox[r]) + 1)
            <4>1. k \in 1 .. Len(inbox[r]) /\ inbox'[r][k] = inbox[r][k]
                BY <1>3, <1>4, <3>2
            <4>2. inbox[r][k] \in Measurement
                BY <4>1, ElementOfSeq
            <4> QED
                BY SMTT(30), <1>2, <4>1, <4>2 DEF NoFutureSource, Measurement
        <3> QED
            BY <3>1, <3>2
    <2>2. /\ \A k \in DOMAIN running.inputs : running.inputs[k] \in Measurement
          /\ \A r \in Stream : latest.newest[r].source_time \in Int
        BY RunningInputs, NewestType
    <2> QED
        BY <1>2, <2>1, <2>2 DEF NoFutureSource, Measurement
<1> QED
    BY <1>5, <1>6, <1>7, <1>8, <1>9

(* select() keeps the invariant: it moves measurements from the inboxes to    *)
(* the batch, and the batch holds of each stream what its inbox lost.         *)
LEMMA SelectInv ==
    ASSUME GraphInv, NEW t \in Nat, Select(t)
    PROVE  GraphInv'
<1> USE DEF GraphInv
<1>1. /\ t >= clock_time /\ clock_time' = t /\ clock_time \in Nat
      /\ UNCHANGED <<accounting, last_sequence, latest, next_tick, control>>
    BY DEF Select, Advance, GraphTypeOK
<1>2. \A k \in DOMAIN running.inputs : running.inputs[k].source_time <= t
    <2>1. \A k \in DOMAIN running.inputs : running.inputs[k].source_time \in Nat
        BY RunningInputs DEF Measurement
    <2> QED
        BY <1>1, <2>1 DEF NoFutureSource
<1>3. \A s \in Stream : latest.newest[s].source_time <= t
    BY <1>1, NewestType DEF NoFutureSource
<1>4. \A s \in Stream : \A k \in 1 .. Len(inbox[s]) :
          inbox[s][k] \in Measurement /\ inbox[s][k].source_time <= t
    <2> TAKE s \in Stream
    <2> TAKE k \in 1 .. Len(inbox[s])
    <2>1. inbox[s] \in Seq(Measurement)
        BY DEF GraphTypeOK
    <2>2. inbox[s][k] \in Measurement
        BY <2>1, ElementOfSeq
    <2>3. inbox[s][k].source_time \in Nat
        BY <2>2 DEF Measurement
    <2> QED
        BY <1>1, <2>2, <2>3 DEF NoFutureSource
<1>5. CASE running # NoBatch \/ BatchSize = 0
    <2>1. UNCHANGED <<inbox, running, next_batch>>
        BY <1>5 DEF Select
    <2>2. GraphTypeOK' /\ OwnStream'
        BY <1>1, <2>1 DEF GraphTypeOK, OwnStream
    <2>3. Conserved'
        BY <1>1, <2>1 DEF Conserved, InFlight
    <2>4. NoFutureSource'
        BY <1>1, <1>2, <1>3, <1>4, <2>1 DEF NoFutureSource
    <2>5. BatchOrder'
        BY <1>1, <2>1 DEF BatchOrder, GraphTypeOK, Snapshot
    <2> QED
        BY <2>2, <2>3, <2>4, <2>5
<1>6. CASE ~(running # NoBatch \/ BatchSize = 0)
    <2>0. PICK pops \in Merges :
            /\ running' = [id |-> next_batch, inputs |-> Inputs(pops)]
            /\ inbox' = [s \in Stream |->
                   SubSeq(inbox[s], Popped(pops, BatchSize, s) + 1, Len(inbox[s]))]
            /\ next_batch' = next_batch + 1
        BY <1>6 DEF Select
    <2>1. BatchSize \in Nat /\ pops \in [1 .. BatchSize -> Stream]
        BY BatchSizeType DEF Merges
    <2>2. \A s \in Stream : Popped(pops, BatchSize, s) \in 0 .. Len(inbox[s])
        <3> TAKE s \in Stream
        <3>1. BatchSize \in 0 .. BatchSize
            BY <2>1
        <3>2. Popped(pops, BatchSize, s) \in Nat
            BY <2>1, <3>1, PoppedBounds
        <3>3. Len(inbox[s]) \in Nat
            BY LenProperties DEF GraphTypeOK
        <3> QED
            BY <3>2, <3>3 DEF Merges
    <2>3. \A s \in Stream :
              /\ inbox'[s] \in Seq(Measurement)
              /\ Len(inbox'[s]) = Len(inbox[s]) - Popped(pops, BatchSize, s)
              /\ Len(inbox'[s]) \in Nat /\ Len(inbox[s]) \in Nat
              /\ \A k \in 1 .. Len(inbox'[s]) :
                    /\ Popped(pops, BatchSize, s) + k \in 1 .. Len(inbox[s])
                    /\ inbox'[s][k] = inbox[s][Popped(pops, BatchSize, s) + k]
        BY <2>0, SelectedRest
    <2>4. \A k \in 1 .. BatchSize :
              /\ Inputs(pops)[k] \in Measurement /\ Inputs(pops)[k].source_time <= t
              /\ Inputs(pops)[k].stream = pops[k]
        BY <1>4, SelectedBatch
    <2>5. /\ running'.inputs = Inputs(pops) /\ running'.id = next_batch
          /\ DOMAIN running'.inputs = 1 .. BatchSize
        BY <2>0, SelectedBatch
    <2>6. GraphTypeOK'
        <3>1. running' \in Batch
            BY <2>0, SelectedBatch DEF GraphTypeOK, Batch
        <3>2. inbox' \in [Stream -> Seq(Measurement)]
            BY <2>0, <2>3
        <3>3. \A s \in Stream : Len(inbox'[s]) <= Capacity
            BY <2>2, <2>3, LimitsAssumption DEF GraphTypeOK
        <3> QED
            BY <1>1, <2>0, <3>1, <3>2, <3>3 DEF GraphTypeOK
    <2>7. OwnStream'
        <3> SUFFICES ASSUME NEW s \in Stream, NEW k \in 1 .. Len(inbox'[s])
                     PROVE  inbox'[s][k].stream = s
            BY DEF OwnStream
        <3>1. inbox[s][Popped(pops, BatchSize, s) + k].stream = s
            BY <2>3 DEF OwnStream
        <3> QED
            BY <2>3, <3>1
    <2>8. BatchOrder'
        BY <1>1, <2>0, <2>5 DEF BatchOrder, GraphTypeOK, Snapshot
    <2>9. Conserved'
        <3> SUFFICES ASSUME NEW s \in Stream
                     PROVE  accounting'[s].offered = accounting'[s].dropped
                            + accounting'[s].consumed + Len(inbox'[s]) + InFlight(s)'
            BY DEF Conserved
        <3>1. InFlight(s)' = Popped(pops, BatchSize, s)
            <4>1. {k \in DOMAIN running'.inputs : running'.inputs[k].stream = s}
                    = {k \in 1 .. BatchSize : pops[k] = s}
                BY <2>4, <2>5
            <4> QED
                BY <4>1 DEF InFlight, Popped
        <3>2. InFlight(s) = 0
            <4>1. running.inputs = <<>>
                BY <1>6 DEF NoBatch
            <4>2. {k \in DOMAIN running.inputs : running.inputs[k].stream = s} = {}
                BY <4>1
            <4> QED
                BY <4>2, FS_EmptySet DEF InFlight
        <3>3. accounting[s].offered = accounting[s].dropped + accounting[s].consumed
                                      + Len(inbox[s]) + 0
            BY <3>2 DEF Conserved
        <3>4. accounting[s].offered \in Nat /\ accounting[s].dropped \in Nat
              /\ accounting[s].consumed \in Nat
            BY DEF GraphTypeOK, Counts
        <3>5. Len(inbox[s]) \in Nat /\ Popped(pops, BatchSize, s) \in Nat
              /\ Len(inbox'[s]) = Len(inbox[s]) - Popped(pops, BatchSize, s)
            BY <2>2, <2>3
        <3>8. /\ accounting'[s].offered = accounting[s].offered
              /\ accounting'[s].dropped = accounting[s].dropped
              /\ accounting'[s].consumed = accounting[s].consumed
            BY <1>1
        <3>9. accounting[s].offered = accounting[s].dropped + accounting[s].consumed
                                      + Len(inbox'[s]) + Popped(pops, BatchSize, s)
            BY SMTT(30), <3>3, <3>4, <3>5
        <3> QED
            BY <3>1, <3>8, <3>9
    <2>10. NoFutureSource'
        <3>1. \A s \in Stream : \A k \in 1 .. Len(inbox'[s]) : inbox'[s][k].source_time <= t
            BY <1>4, <2>3
        <3> QED
            BY <1>1, <1>3, <2>4, <2>5, <3>1 DEF NoFutureSource
    <2> QED
        BY <2>6, <2>7, <2>8, <2>9, <2>10
<1> QED
    BY <1>5, <1>6

(* The newest measurement of a stream after complete() is a measurement of    *)
(* the batch or the one before, and not older than the one before.            *)
LEMMA NewestAdvances ==
    ASSUME GraphInv, NEW s \in Stream
    PROVE  /\ Newest(s) \in Measurement \cup {NoMeasurement}
           /\ Newest(s).source_time >= latest.newest[s].source_time
           /\ Newest(s).source_time <= clock_time
<1>1. CASE LastReplacing(s) = {}
    BY <1>1, NewestType DEF GraphInv, Newest, NoFutureSource
<1>2. CASE LastReplacing(s) # {}
    <2> PICK k \in LastReplacing(s) : Newest(s) = running.inputs[k]
        BY <1>2 DEF Newest
    <2>1. k \in DOMAIN running.inputs
          /\ running.inputs[k].source_time >= latest.newest[s].source_time
        BY DEF LastReplacing, Replacing
    <2>2. running.inputs[k] \in Measurement
        BY <2>1, RunningInputs DEF GraphInv
    <2> QED
        BY <2>1, <2>2 DEF GraphInv, NoFutureSource
<1> QED
    BY <1>1, <1>2

(* A batch with a measurement of stream s leaves one in the snapshot: its     *)
(* first one replaces the absent measurement at least.                       *)
LEMMA NewestInFlight ==
    ASSUME GraphInv, NEW s \in Stream, InFlight(s) # 0
    PROVE  Newest(s).source_time \in Nat
<1> USE DEF GraphInv
<1>1. /\ Newest(s).source_time >= latest.newest[s].source_time
      /\ Newest(s) \in Measurement \cup {NoMeasurement}
    BY NewestAdvances
<1>2. CASE latest.newest[s] \in Measurement
    <2>1. latest.newest[s].source_time \in Nat
        BY <1>2 DEF Measurement
    <2>2. Newest(s).source_time \in Int
        BY <1>1 DEF Measurement, NoMeasurement
    <2> QED
        BY <1>1, <2>1, <2>2
<1>3. CASE latest.newest[s] = NoMeasurement
    <2> DEFINE ks == {k \in DOMAIN running.inputs : running.inputs[k].stream = s}
               n == Len(running.inputs)
    <2>1. /\ DOMAIN running.inputs = 1 .. n /\ n \in Nat
          /\ \A k \in DOMAIN running.inputs : running.inputs[k] \in Measurement
        BY RunningInputs, LenProperties
    <2>2. ks \subseteq Nat /\ ks # {}
        <3>1. ks # {}
            <4>1. InFlight(s) = Cardinality(ks)
                BY DEF InFlight
            <4> QED
                BY <4>1, FS_EmptySet
        <3>2. ks \subseteq Nat
            BY <2>1
        <3> QED
            BY <3>1, <3>2
    <2>3. PICK k \in ks : \A i \in ks : k <= i
        <3> HIDE DEF ks
        <3> QED
            BY <2>2, LeastNumber
    <2>4. k \in Replacing(s)
        <3>1. /\ k \in DOMAIN running.inputs /\ running.inputs[k].stream = s
              /\ running.inputs[k].source_time \in Nat
            BY <2>1 DEF Measurement
        <3>2. running.inputs[k].source_time >= latest.newest[s].source_time
            BY <1>3, <3>1 DEF NoMeasurement
        <3>3. \A i \in DOMAIN running.inputs : i < k => running.inputs[i].stream # s
            BY <2>1, <2>3
        <3> QED
            BY <3>1, <3>2, <3>3 DEF Replacing
    <2>5. PICK l \in Replacing(s) : \A i \in Replacing(s) : i <= l
        <3>1. Replacing(s) \subseteq 0 .. n
            BY <2>1 DEF Replacing
        <3> QED
            BY <2>1, <2>4, <3>1, GreatestNumber
    <2>6. LastReplacing(s) # {}
        BY <2>5 DEF LastReplacing
    <2>7. PICK m \in LastReplacing(s) : Newest(s) = running.inputs[m]
        BY <2>6 DEF Newest
    <2>8. m \in DOMAIN running.inputs
        BY DEF LastReplacing, Replacing
    <2> QED
        BY <2>1, <2>7, <2>8 DEF Measurement
<1> QED
    BY <1>2, <1>3, NewestType

(* complete() keeps the invariant.                                          *)
LEMMA CompleteInv ==
    ASSUME GraphInv, NEW id, NEW t \in Nat, Complete(id, t)
    PROVE  GraphInv'
<1> USE DEF GraphInv
<1>1. /\ t >= clock_time /\ clock_time' = t /\ clock_time \in Nat
      /\ running # NoBatch /\ running.id = id /\ running' = NoBatch
      /\ UNCHANGED <<inbox, last_sequence, next_batch, next_tick, control>>
      /\ latest' = [batch_id |-> id, completed |-> t,
                    newest |-> [s \in Stream |-> Newest(s)]]
      /\ accounting' = [s \in Stream |->
             [offered |-> accounting[s].offered, dropped |-> accounting[s].dropped,
              consumed |-> accounting[s].consumed + InFlight(s)]]
    BY DEF Complete, Advance, GraphTypeOK
<1>2. id \in Nat \ {0}
    BY <1>1 DEF GraphTypeOK, Batch
<1>3. \A s \in Stream : /\ accounting[s].offered \in Nat /\ accounting[s].dropped \in Nat
                         /\ accounting[s].consumed \in Nat /\ InFlight(s) \in Nat
    BY InFlightType DEF GraphTypeOK, Counts
<1>4. GraphTypeOK'
    <2>1. latest' \in Snapshot
        BY <1>1, <1>2, NewestAdvances DEF Snapshot
    <2>2. accounting' \in [Stream -> Counts]
        BY <1>1, <1>3 DEF Counts
    <2> QED
        BY <1>1, <2>1, <2>2 DEF GraphTypeOK
<1>5. OwnStream'
    BY <1>1 DEF OwnStream
<1>6. BatchOrder'
    BY <1>1, <1>2 DEF BatchOrder, GraphTypeOK
<1>7. running'.inputs = <<>>
    BY <1>1 DEF NoBatch
<1>8. Conserved'
    <2> SUFFICES ASSUME NEW s \in Stream
                 PROVE  accounting'[s].offered = accounting'[s].dropped
                        + accounting'[s].consumed + Len(inbox'[s]) + InFlight(s)'
        BY DEF Conserved
    <2>1. InFlight(s)' = 0
        <3>1. {k \in DOMAIN running'.inputs : running'.inputs[k].stream = s} = {}
            BY <1>7
        <3> QED
            BY <3>1, FS_EmptySet DEF InFlight
    <2>2. /\ accounting'[s].offered = accounting[s].offered
          /\ accounting'[s].dropped = accounting[s].dropped
          /\ accounting'[s].consumed = accounting[s].consumed + InFlight(s)
        BY <1>1
    <2>3. accounting[s].offered = accounting[s].dropped + accounting[s].consumed
                                  + Len(inbox[s]) + InFlight(s)
        BY DEF Conserved
    <2>4. Len(inbox[s]) \in Nat
        BY LenProperties DEF GraphTypeOK
    <2> QED
        BY SMTT(30), <1>1, <1>3, <2>1, <2>2, <2>3, <2>4
<1>9. NoFutureSource'
    <2>1. \A s \in Stream : \A k \in 1 .. Len(inbox[s]) : inbox[s][k].source_time <= t
        <3> TAKE s \in Stream
        <3> TAKE k \in 1 .. Len(inbox[s])
        <3>1. inbox[s][k] \in Measurement
            BY ElementOfSeq DEF GraphTypeOK
        <3> QED
            BY <1>1, <3>1 DEF NoFutureSource, Measurement
    <2>2. \A s \in Stream : latest'.newest[s].source_time <= t
        <3> TAKE s \in Stream
        <3>1. Newest(s) \in Measurement \cup {NoMeasurement}
              /\ Newest(s).source_time <= clock_time
            BY NewestAdvances
        <3>2. Newest(s).source_time \in Int
            BY <3>1 DEF Measurement, NoMeasurement
        <3> QED
            BY <1>1, <3>1, <3>2
    <2>3. DOMAIN running'.inputs = {}
        BY <1>7
    <2> QED
        BY <1>1, <2>1, <2>2, <2>3 DEF NoFutureSource
<1> QED
    BY <1>4, <1>5, <1>6, <1>8, <1>9

(* control() keeps the invariant, and the snapshot it freezes is no younger   *)
(* than its own release.                                                      *)
LEMMA ControlInv ==
    ASSUME GraphInv, NEW t \in Nat, NEW age \in Nat, TakeControl(t, age)
    PROVE  GraphInv'
<1> USE DEF GraphInv
<1>1. /\ t >= clock_time /\ clock_time' = t /\ clock_time \in Nat
      /\ UNCHANGED <<inbox, accounting, last_sequence, running, latest, next_batch>>
      /\ next_tick' = next_tick + 1
      /\ control'.release = t /\ control'.snapshot = latest
      /\ control' \in Control
    BY DEF TakeControl, Advance, GraphTypeOK, Control, Outcome
<1>2. GraphTypeOK' /\ OwnStream' /\ Conserved'
    BY <1>1 DEF GraphTypeOK, OwnStream, Conserved, InFlight
<1>3. BatchOrder'
    BY <1>1 DEF BatchOrder, GraphTypeOK, Snapshot
<1>4. NoFutureSource'
    <2>1. \A s \in Stream : \A k \in 1 .. Len(inbox[s]) : inbox[s][k].source_time <= t
        <3> TAKE s \in Stream
        <3> TAKE k \in 1 .. Len(inbox[s])
        <3>1. inbox[s][k] \in Measurement
            BY ElementOfSeq DEF GraphTypeOK
        <3> QED
            BY <1>1, <3>1 DEF NoFutureSource, Measurement
    <2>2. \A s \in Stream : latest.newest[s].source_time <= t
        BY <1>1, NewestType DEF NoFutureSource
    <2>3. \A k \in DOMAIN running.inputs : running.inputs[k].source_time <= t
        BY <1>1, RunningInputs DEF NoFutureSource, Measurement
    <2> QED
        BY <1>1, <2>1, <2>2, <2>3 DEF NoFutureSource, Stream
<1> QED
    BY <1>2, <1>3, <1>4

-----------------------------------------------------------------------------
(* GraphInv is inductive.                                                   *)
LEMMA GraphInvInit == GraphInit => GraphInv
<1> SUFFICES ASSUME GraphInit PROVE GraphInv
    OBVIOUS
<1> USE DEF GraphInit
<1>1. NoSnapshot \in Snapshot
    BY DEF NoSnapshot, Snapshot
<1>2. GraphTypeOK
    <2>1. inbox \in [Stream -> Seq(Measurement)] /\ \A s \in Stream : Len(inbox[s]) = 0
        BY EmptySeq
    <2>2. accounting \in [Stream -> Counts]
        BY DEF Counts
    <2>3. control \in Control
        BY <1>1 DEF Control, Outcome
    <2> QED
        BY <1>1, <2>1, <2>2, <2>3, LimitsAssumption DEF GraphTypeOK
<1>3. \A s \in Stream : InFlight(s) = 0 /\ Len(inbox[s]) = 0
    <2> TAKE s \in Stream
    <2>1. {k \in DOMAIN running.inputs : running.inputs[k].stream = s} = {}
        BY DEF NoBatch
    <2> QED
        BY <2>1, FS_EmptySet, EmptySeq DEF InFlight
<1>4. Conserved /\ OwnStream
    BY <1>3 DEF Conserved, OwnStream
<1>5. BatchOrder
    BY DEF BatchOrder, NoSnapshot
<1>6. NoFutureSource
    BY <1>3 DEF NoFutureSource, NoSnapshot, NoMeasurement, NoBatch, Stream
<1> QED
    BY <1>2, <1>4, <1>5, <1>6 DEF GraphInv

(* Every call keeps the invariant, and so does a stuttering step.           *)
LEMMA GraphInvNext == GraphInv /\ [GraphNext]_graphVars => GraphInv'
<1> SUFFICES ASSUME GraphInv, [GraphNext]_graphVars PROVE GraphInv'
    OBVIOUS
<1>0. \A t \in 0 .. MaxTime : t \in Nat
    BY BoundsAssumption
<1>1. CASE CallOffer
    <2> PICK s \in Stream, n \in 0 .. MaxSequence, src \in 0 .. MaxTime,
    t \in 0 .. MaxTime :
            Offer([stream |-> s, sequence |-> n, source_time |-> src], t)
        BY <1>1 DEF CallOffer
    <2>1. [stream |-> s, sequence |-> n,
    source_time |-> src] \in Measurement /\ t \in Nat
        BY BoundsAssumption DEF Measurement
    <2> QED
        BY <2>1, OfferInv
<1>2. CASE CallSelect
    BY <1>0, <1>2, SelectInv DEF CallSelect
<1>3. CASE CallComplete
    BY <1>0, <1>3, CompleteInv DEF CallComplete
<1>4. CASE CallControl
    BY <1>0, <1>4, ControlInv, BoundsAssumption DEF CallControl
<1>5. CASE UNCHANGED graphVars
    <2>1. \A s \in Stream : InFlight(s)' = InFlight(s)
        BY <1>5 DEF graphVars, InFlight
    <2> QED
        BY <1>5, <2>1 DEF graphVars, GraphInv, GraphTypeOK, OwnStream, BatchOrder,
           Conserved, NoFutureSource
<1> QED
    BY <1>1, <1>2, <1>3, <1>4, <1>5 DEF GraphNext

(* After any sequence of offer(), select(), complete() and control() calls   *)
(* the graph is well typed, its batch ids are in order, its counts add up    *)
(* and nothing in it is from the future.                                     *)
THEOREM GraphInvariance == GraphSpec => []GraphInv
BY GraphInvInit, GraphInvNext, PTL DEF GraphSpec

(* Offered measurements are exactly the dropped, consumed, waiting and        *)
(* running ones, whatever the capacity, the batch limit and the calls.        *)
THEOREM ConservedHolds == GraphSpec => []Conserved
<1>1. GraphInv => Conserved
    BY DEF GraphInv
<1> QED
    BY <1>1, GraphInvariance, PTL

(* No measurement is younger than the clock: control() never computes the     *)
(* age of a measurement from the future.                                      *)
THEOREM NoFutureSourceHolds == GraphSpec => []NoFutureSource
<1>1. GraphInv => NoFutureSource
    BY DEF GraphInv
<1> QED
    BY <1>1, GraphInvariance, PTL

(* Snapshots only move forward.                                              *)
THEOREM SnapshotsAdvanceHolds == GraphSpec => SnapshotsAdvance
<1> DEFINE A == latest' # latest =>
        /\ latest'.batch_id > latest.batch_id
        /\ latest'.completed >= latest.completed
        /\ \A s \in Stream :
              latest'.newest[s].source_time >= latest.newest[s].source_time
<1>1. GraphInv /\ [GraphNext]_graphVars => [A]_graphVars
    <2> SUFFICES ASSUME GraphInv, [GraphNext]_graphVars, latest' # latest
                 PROVE  A
        OBVIOUS
    <2>1. PICK id \in {running.id}, t \in 0 .. MaxTime : Complete(id, t)
        BY ZenonT(40) DEF GraphNext, CallOffer, Offer, CallSelect, Select, CallComplete,
           CallControl, TakeControl, graphVars
    <2>2. /\ running # NoBatch /\ running.id = id /\ t >= clock_time
          /\ latest' = [batch_id |-> id, completed |-> t,
                        newest |-> [s \in Stream |-> Newest(s)]]
        BY <2>1 DEF Complete, Advance
    <2>3. id > latest.batch_id /\ t >= latest.completed
        BY <2>2, BoundsAssumption DEF GraphInv, BatchOrder, GraphTypeOK, Snapshot, Batch
    <2> QED
        BY <2>2, <2>3, NewestAdvances
<1> QED
    BY <1>1, GraphInvariance, PTL DEF GraphSpec, SnapshotsAdvance

-----------------------------------------------------------------------------
(* The order of the measurements.                                          *)

(* A select() that starts a batch, position by position.                     *)
LEMMA SelectShape ==
    ASSUME GraphInv, NEW t \in Nat, Select(t), running = NoBatch, running' # NoBatch
    PROVE  \E pops \in Merges :
              /\ OldestFirstPops(pops) /\ BatchSize \in Nat
              /\ pops \in [1 .. BatchSize -> Stream]
              /\ DOMAIN running'.inputs = 1 .. BatchSize
              /\ \A k \in 1 .. BatchSize :
                    /\ Popped(pops, k, pops[k]) \in 1 .. Len(inbox[pops[k]])
                    /\ running'.inputs[k] = inbox[pops[k]][Popped(pops, k, pops[k])]
                    /\ running'.inputs[k].stream = pops[k]
              /\ \A s \in Stream :
                    /\ Len(inbox'[s]) \in Nat /\ Len(inbox[s]) \in Nat
                    /\ Popped(pops, BatchSize, s) \in 0 .. Len(inbox[s])
                    /\ \A k \in 1 .. Len(inbox'[s]) :
                          /\ Popped(pops, BatchSize, s) + k \in 1 .. Len(inbox[s])
                          /\ inbox'[s][k] = inbox[s][Popped(pops, BatchSize, s) + k]
<1>1. GraphTypeOK /\ OwnStream
    BY DEF GraphInv
<1>2. PICK pops \in Merges :
         /\ OldestFirstPops(pops)
         /\ running' = [id |-> next_batch, inputs |-> Inputs(pops)]
         /\ inbox' = [r \in Stream |->
               SubSeq(inbox[r], Popped(pops, BatchSize, r) + 1, Len(inbox[r]))]
    BY DEF Select
<1>3. BatchSize \in Nat /\ pops \in [1 .. BatchSize -> Stream]
    BY <1>1, BatchSizeType DEF Merges
<1>4. running'.inputs = Inputs(pops)
    BY <1>2
<1>5. /\ DOMAIN running'.inputs = 1 .. BatchSize
      /\ \A k \in 1 .. BatchSize :
            /\ Popped(pops, k, pops[k]) \in 1 .. Len(inbox[pops[k]])
            /\ running'.inputs[k] = inbox[pops[k]][Popped(pops, k, pops[k])]
            /\ running'.inputs[k].stream = pops[k]
    BY <1>1, <1>4, SelectedBatch
<1>6. \A s \in Stream :
         /\ Len(inbox'[s]) \in Nat /\ Len(inbox[s]) \in Nat
         /\ Popped(pops, BatchSize, s) \in 0 .. Len(inbox[s])
         /\ \A k \in 1 .. Len(inbox'[s]) :
               /\ Popped(pops, BatchSize, s) + k \in 1 .. Len(inbox[s])
               /\ inbox'[s][k] = inbox[s][Popped(pops, BatchSize, s) + k]
    BY <1>1, <1>2, SelectedRest
<1> QED
    BY <1>2, <1>3, <1>5, <1>6

(* offer() puts a measurement behind everything that was offered before.     *)
LEMMA OfferStreamOrder ==
    ASSUME GraphInv, StreamOrder, NEW m \in Measurement, NEW t \in Nat, Offer(m, t)
    PROVE  StreamOrder'
<1> DEFINE s == m.stream
<1> USE DEF GraphInv
<1>1. s \in Stream /\ m.sequence \in Nat
    BY DEF Measurement
<1>2. /\ inbox[s] \in Seq(Measurement) /\ last_sequence[s] \in Int
      /\ m.sequence > last_sequence[s] /\ running' = running
      /\ inbox' = IF IsFull(s) THEN inbox ELSE [inbox EXCEPT ![s] = Append(@, m)]
      /\ last_sequence' = [last_sequence EXCEPT ![s] = m.sequence]
    BY <1>1 DEF Offer, Accepts, GraphTypeOK
<1>3. last_sequence'[s] = m.sequence
      /\ \A r \in Stream : r # s => last_sequence'[r] = last_sequence[r] /\ inbox'[r] = inbox[r]
    BY <1>1, <1>2 DEF GraphTypeOK
<1>4. \A r : RunningOf(r)' = RunningOf(r)
    BY <1>2 DEF RunningOf
<1>5. /\ Len(inbox[s]) \in Nat
      /\ \A k \in 1 .. Len(inbox[s]) : inbox[s][k].sequence \in Nat
      /\ \A k \in RunningOf(s) : running.inputs[k].sequence \in Nat
    <2>1. \A k \in 1 .. Len(inbox[s]) : inbox[s][k] \in Measurement
        BY <1>2, ElementOfSeq
    <2>2. \A k \in RunningOf(s) : running.inputs[k] \in Measurement
        BY RunningInputs DEF RunningOf
    <2> QED
        BY <1>2, <2>1, <2>2, LenProperties DEF Measurement
<1>6. /\ \A k \in RunningOf(s) : running.inputs[k].sequence < m.sequence
      /\ \A k \in 1 .. Len(inbox[s]) : inbox[s][k].sequence < m.sequence
    BY SMTT(30), <1>1, <1>2, <1>5 DEF StreamOrder
<1>7. /\ Len(inbox'[s]) \in {Len(inbox[s]), Len(inbox[s]) + 1}
      /\ \A k \in 1 .. Len(inbox[s]) : inbox'[s][k] = inbox[s][k]
      /\ Len(inbox'[s]) = Len(inbox[s]) + 1 => inbox'[s][Len(inbox[s]) + 1] = m
    <2>1. CASE IsFull(s)
        <3>1. inbox' = inbox
            BY <1>2, <2>1
        <3> QED
            BY <1>5, <3>1
    <2>2. CASE ~IsFull(s)
        <3>1. inbox'[s] = Append(inbox[s], m)
            BY <1>1, <1>2, <2>2 DEF GraphTypeOK
        <3> QED
            BY <1>2, <3>1, AppendProperties
    <2> QED
        BY <2>1, <2>2
<1> SUFFICES ASSUME NEW r \in Stream
             PROVE  /\ \A i, k \in RunningOf(r) :
                          i < k => running.inputs[i].sequence < running.inputs[k].sequence
                    /\ \A i \in RunningOf(r), k \in 1 .. Len(inbox'[r]) :
                          running.inputs[i].sequence < inbox'[r][k].sequence
                    /\ \A i, k \in 1 .. Len(inbox'[r]) :
                          i < k => inbox'[r][i].sequence < inbox'[r][k].sequence
                    /\ \A i \in RunningOf(r) : running.inputs[i].sequence <= last_sequence'[r]
                    /\ \A k \in 1 .. Len(inbox'[r]) : /\ inbox'[r][k].stream = r
                                                      /\ inbox'[r][k].sequence <= last_sequence'[r]
    BY SMTT(30), <1>2, <1>4 DEF StreamOrder
<1>8. CASE r # s
    BY <1>3, <1>8 DEF StreamOrder
<1>9. CASE r = s
    <2> DEFINE n == Len(inbox[s])
    <2> HIDE DEF s
    <2>0. Len(inbox'[s]) = n \/ Len(inbox'[s]) = n + 1
        BY <1>7
    <2>1. \A k \in 1 .. Len(inbox'[s]) :
             \/ k \in 1 .. n /\ inbox'[s][k] = inbox[s][k]
             \/ k = n + 1 /\ inbox'[s][k] = m
        BY <1>5, <1>7, <2>0
    <2>2. \A i, k \in RunningOf(s) :
             i < k => running.inputs[i].sequence < running.inputs[k].sequence
        BY <1>1 DEF StreamOrder
    <2>3. \A i \in RunningOf(s), k \in 1 .. Len(inbox'[s]) :
             running.inputs[i].sequence < inbox'[s][k].sequence
        BY <1>1, <1>6, <2>1 DEF StreamOrder
    <2>4. \A i, k \in 1 .. Len(inbox'[s]) :
             i < k => inbox'[s][i].sequence < inbox'[s][k].sequence
        <3> SUFFICES ASSUME NEW i \in 1 .. Len(inbox'[s]), NEW k \in 1 .. Len(inbox'[s]), i < k
                     PROVE  inbox'[s][i].sequence < inbox'[s][k].sequence
            OBVIOUS
        <3>1. i \in 1 .. n /\ inbox'[s][i] = inbox[s][i]
            BY SMTT(30), <1>5, <2>0, <2>1
        <3>2. CASE k \in 1 .. n /\ inbox'[s][k] = inbox[s][k]
            BY <1>1, <3>1, <3>2 DEF StreamOrder
        <3>3. CASE k = n + 1 /\ inbox'[s][k] = m
            BY <1>6, <3>1, <3>3
        <3> QED
            BY <2>1, <3>2, <3>3
    <2>5. \A i \in RunningOf(s) : running.inputs[i].sequence <= last_sequence'[s]
        BY <1>1, <1>3, <1>5, <1>6
    <2>6. \A k \in 1 .. Len(inbox'[s]) : /\ inbox'[s][k].stream = s
                                         /\ inbox'[s][k].sequence <= last_sequence'[s]
        <3> TAKE k \in 1 .. Len(inbox'[s])
        <3>1. CASE k \in 1 .. n /\ inbox'[s][k] = inbox[s][k]
            <4>1. inbox[s][k].stream = s /\ inbox[s][k].sequence < m.sequence
                BY <1>1, <1>6, <3>1 DEF StreamOrder
            <4> QED
                BY <1>1, <1>3, <1>5, <3>1, <4>1
        <3>2. CASE k = n + 1 /\ inbox'[s][k] = m
            BY <1>1, <1>3, <3>2 DEF s
        <3> QED
            BY <2>1, <3>1, <3>2
    <2> QED
        BY <1>9, <2>2, <2>3, <2>4, <2>5, <2>6
<1> QED
    BY <1>8, <1>9

(* The merge takes each stream's measurements in the order of its inbox.     *)
LEMMA SelectStreamOrder ==
    ASSUME GraphInv, StreamOrder, NEW t \in Nat, Select(t), running = NoBatch,
           running' # NoBatch
    PROVE  StreamOrder'
<1>1. PICK pops \in Merges :
         /\ OldestFirstPops(pops) /\ BatchSize \in Nat
         /\ pops \in [1 .. BatchSize -> Stream]
         /\ DOMAIN running'.inputs = 1 .. BatchSize
         /\ \A k \in 1 .. BatchSize :
               /\ Popped(pops, k, pops[k]) \in 1 .. Len(inbox[pops[k]])
               /\ running'.inputs[k] = inbox[pops[k]][Popped(pops, k, pops[k])]
               /\ running'.inputs[k].stream = pops[k]
         /\ \A s \in Stream :
               /\ Len(inbox'[s]) \in Nat /\ Len(inbox[s]) \in Nat
               /\ Popped(pops, BatchSize, s) \in 0 .. Len(inbox[s])
               /\ \A k \in 1 .. Len(inbox'[s]) :
                     /\ Popped(pops, BatchSize, s) + k \in 1 .. Len(inbox[s])
                     /\ inbox'[s][k] = inbox[s][Popped(pops, BatchSize, s) + k]
    BY SelectShape
<1>2. last_sequence' = last_sequence
    BY DEF Select
<1> SUFFICES ASSUME NEW s \in Stream
             PROVE  /\ \A i, k \in RunningOf(s)' :
                          i < k => running'.inputs[i].sequence < running'.inputs[k].sequence
                    /\ \A i \in RunningOf(s)', k \in 1 .. Len(inbox'[s]) :
                          running'.inputs[i].sequence < inbox'[s][k].sequence
                    /\ \A i, k \in 1 .. Len(inbox'[s]) :
                          i < k => inbox'[s][i].sequence < inbox'[s][k].sequence
                    /\ \A i \in RunningOf(s)' : running'.inputs[i].sequence <= last_sequence[s]
                    /\ \A k \in 1 .. Len(inbox'[s]) : /\ inbox'[s][k].stream = s
                                                      /\ inbox'[s][k].sequence <= last_sequence[s]
    BY <1>2 DEF StreamOrder
<1> DEFINE from(k) == Popped(pops, k, s)
           p == Popped(pops, BatchSize, s)
<1>3. \A k \in RunningOf(s)' :
         /\ k \in 1 .. BatchSize /\ pops[k] = s /\ from(k) \in 1 .. Len(inbox[s])
         /\ running'.inputs[k] = inbox[s][from(k)] /\ from(k) <= p
    <2> TAKE k \in RunningOf(s)'
    <2>1. k \in 1 .. BatchSize /\ running'.inputs[k].stream = s
        BY <1>1 DEF RunningOf
    <2>2. pops[k] = s /\ k \in 0 .. BatchSize
        BY <1>1, <2>1
    <2>3. from(k) <= p
        BY <1>1, <2>2, PoppedBounds
    <2> QED
        BY <1>1, <2>1, <2>2, <2>3
<1>4. ASSUME NEW i \in RunningOf(s)', NEW k \in RunningOf(s)', i < k PROVE from(i) < from(k)
    <2>1. i \in 0 .. BatchSize /\ k \in 0 .. BatchSize /\ pops[k] = s
        BY <1>3
    <2> QED
        BY <1>1, <1>4, <2>1, PoppedGrows
<1>5. p \in Nat /\ Len(inbox'[s]) \in Nat /\ \A k \in 1 .. Len(inbox'[s]) :
         p + k \in 1 .. Len(inbox[s]) /\ inbox'[s][k] = inbox[s][p + k]
    BY <1>1
<1> HIDE DEF from, p
<1>6. /\ \A i, k \in 1 .. Len(inbox[s]) :
            i < k => inbox[s][i].sequence < inbox[s][k].sequence
      /\ \A k \in 1 .. Len(inbox[s]) :
            inbox[s][k].stream = s /\ inbox[s][k].sequence <= last_sequence[s]
    BY DEF StreamOrder
<1>7. \A i \in RunningOf(s)', k \in 1 .. Len(inbox'[s]) : from(i) < p + k
    BY <1>3, <1>5
<1>8. \A i, k \in 1 .. Len(inbox'[s]) : i < k => p + i < p + k
    BY <1>5
<1> QED
    BY ZenonT(40), <1>3, <1>4, <1>5, <1>6, <1>7, <1>8

LEMMA StreamOrderNext == GraphInv /\ StreamOrder /\ [GraphNext]_graphVars => StreamOrder'
<1> SUFFICES ASSUME GraphInv, StreamOrder, [GraphNext]_graphVars PROVE StreamOrder'
    OBVIOUS
<1>0. \A t \in 0 .. MaxTime : t \in Nat
    BY BoundsAssumption
<1>a. ASSUME UNCHANGED <<inbox, running, last_sequence>> PROVE StreamOrder'
    BY <1>a DEF StreamOrder, RunningOf
<1>1. CASE CallOffer
    <2> PICK s \in Stream, n \in 0 .. MaxSequence, src \in 0 .. MaxTime, t \in 0 .. MaxTime :
            Offer([stream |-> s, sequence |-> n, source_time |-> src], t)
        BY <1>1 DEF CallOffer
    <2>1. [stream |-> s, sequence |-> n, source_time |-> src] \in Measurement /\ t \in Nat
        BY BoundsAssumption DEF Measurement
    <2> QED
        BY <2>1, OfferStreamOrder
<1>2. CASE CallSelect
    <2>1. PICK t \in 0 .. MaxTime : Select(t)
        BY <1>2 DEF CallSelect
    <2>2. CASE running = NoBatch /\ running' # NoBatch
        BY <1>0, <2>1, <2>2, SelectStreamOrder
    <2>3. CASE ~(running = NoBatch /\ running' # NoBatch)
        <3>1. [id |-> next_batch, inputs |-> <<>>].id = next_batch /\ next_batch # 0
            BY DEF GraphInv, GraphTypeOK
        <3>2. UNCHANGED <<inbox, running, last_sequence>>
            <4>1. running # NoBatch \/ BatchSize = 0
                <5> SUFFICES ASSUME running = NoBatch, BatchSize # 0 PROVE FALSE
                    OBVIOUS
                <5>1. running'.id = next_batch
                    BY <2>1 DEF Select
                <5> QED
                    BY <2>3, <3>1, <5>1 DEF NoBatch
            <4> QED
                BY <2>1, <4>1 DEF Select
        <3> QED
            BY <1>a, <3>2
    <2> QED
        BY <2>2, <2>3
<1>3. CASE CallComplete
    <2>1. PICK id \in {running.id}, t \in 0 .. MaxTime : Complete(id, t)
        BY <1>3 DEF CallComplete
    <2>2. running' = NoBatch /\ UNCHANGED <<inbox, last_sequence>>
        BY <2>1 DEF Complete
    <2>3. \A s : RunningOf(s)' = {}
        <3>1. running'.inputs = <<>>
            BY <2>2 DEF NoBatch
        <3> QED
            BY <3>1 DEF RunningOf
    <2> QED
        BY <2>2, <2>3 DEF StreamOrder
<1>4. CASE CallControl
    BY <1>a, <1>4 DEF CallControl, TakeControl
<1>5. CASE UNCHANGED graphVars
    BY <1>a, <1>5 DEF graphVars
<1> QED
    BY <1>1, <1>2, <1>3, <1>4, <1>5 DEF GraphNext

(* Neither the merge nor the cut at the batch limit nor a full inbox          *)
(* reorders or repeats a measurement of a stream.                             *)
THEOREM StreamOrderHolds == GraphSpec => []StreamOrder
<1>1. GraphInit => StreamOrder
    <2> SUFFICES ASSUME GraphInit PROVE StreamOrder
        OBVIOUS
    <2>1. \A s \in Stream : Len(inbox[s]) = 0
        BY DEF GraphInit
    <2>2. \A s : RunningOf(s) = {}
        <3>1. running.inputs = <<>>
            BY DEF GraphInit, NoBatch
        <3> QED
            BY <3>1 DEF RunningOf
    <2> QED
        BY <2>1, <2>2 DEF StreamOrder
<1> QED
    BY <1>1, StreamOrderNext, GraphInvariance, PTL DEF GraphSpec

(* In sorted inboxes, the k-th pop is no younger than anything still there,  *)
(* and the imu's goes first among equals.                                    *)
LEMMA OldestPop ==
    ASSUME GraphTypeOK, \A r \in Stream : TimeSorted(r),
           NEW pops \in Merges, OldestFirstPops(pops), NEW k \in 1 .. BatchSize,
           BatchSize \in Nat, pops \in [1 .. BatchSize -> Stream],
           Popped(pops, k, pops[k]) \in 1 .. Len(inbox[pops[k]]),
           NEW s \in Stream, NEW q \in 1 .. Len(inbox[s]), q > Popped(pops, k - 1, s),
           NEW m, m = inbox[pops[k]][Popped(pops, k, pops[k])]
    PROVE  \/ m.source_time < inbox[s][q].source_time
           \/ m.source_time = inbox[s][q].source_time /\ ~(pops[k] = "camera" /\ s = "imu")
<1> DEFINE i == Popped(pops, k - 1, "imu")
           c == Popped(pops, k - 1, "camera")
           src(r, x) == inbox[r][x].source_time
<1>1. i \in Nat /\ c \in Nat /\ Popped(pops, k - 1, s) \in Nat
    <2>1. k - 1 \in 0 .. BatchSize
        OBVIOUS
    <2> QED
        BY <2>1, PoppedBounds DEF Stream
<1>2. \A r \in Stream : /\ Len(inbox[r]) \in Nat
                        /\ \A x \in 1 .. Len(inbox[r]) : src(r, x) \in Nat
    <2> TAKE r \in Stream
    <2>1. inbox[r] \in Seq(Measurement)
        BY DEF GraphTypeOK
    <2>2. \A x \in 1 .. Len(inbox[r]) : inbox[r][x] \in Measurement
        BY <2>1, ElementOfSeq
    <2> QED
        BY <2>1, <2>2, LenProperties DEF Measurement
<1>3. Popped(pops, k, pops[k]) = Popped(pops, k - 1, pops[k]) + 1
    BY PoppedStep
<1>4. pops[k] = "camera" <=> CameraNext(i, c)
    BY DEF OldestFirstPops
<1>5. \A r \in Stream : \A x, y \in 1 .. Len(inbox[r]) : x <= y => src(r, x) <= src(r, y)
    <2> SUFFICES ASSUME NEW r \in Stream, NEW x \in 1 .. Len(inbox[r]),
                        NEW y \in 1 .. Len(inbox[r]), x <= y
                 PROVE  src(r, x) <= src(r, y)
        OBVIOUS
    <2>1. CASE x = y
        BY <1>2, <2>1
    <2>2. CASE x < y
        BY <2>2 DEF TimeSorted
    <2> QED
        BY <2>1, <2>2
<1>6. "imu" \in Stream /\ "camera" \in Stream
    BY DEF Stream
<1>7. CASE pops[k] = "camera"
    <2>1. m = inbox["camera"][c + 1] /\ c + 1 \in 1 .. Len(inbox["camera"])
        BY <1>3, <1>7
    <2>2. CASE s = "camera"
        <3>1. c + 1 <= q
            BY <1>1, <1>2, <2>2
        <3>2. src("camera", c + 1) <= src("camera", q)
            BY <1>5, <1>6, <2>1, <2>2, <3>1
        <3> QED
            BY SMTT(30), <1>2, <1>6, <2>1, <2>2, <3>2
    <2>3. CASE s = "imu"
        <3>1. i + 1 <= q /\ q <= Len(inbox["imu"]) /\ q \in 1 .. Len(inbox["imu"])
            BY <1>1, <1>2, <2>3
        <3>2. i # Len(inbox["imu"]) /\ i + 1 \in 1 .. Len(inbox["imu"])
            BY SMTT(30), <1>1, <1>2, <1>6, <3>1
        <3>3. src("camera", c + 1) < src("imu", i + 1)
            BY <1>4, <1>7, <3>2 DEF CameraNext
        <3>4. src("imu", i + 1) <= src("imu", q)
            BY <1>5, <1>6, <3>1, <3>2
        <3>5. /\ src("camera", c + 1) \in Nat /\ src("imu", i + 1) \in Nat
              /\ src("imu", q) \in Nat
            BY <1>2, <1>6, <2>1, <3>1, <3>2
        <3>6. src("camera", c + 1) < src("imu", q)
            BY SMTT(30), <3>3, <3>4, <3>5
        <3> QED
            BY <2>1, <2>3, <3>6
    <2> QED
        BY <2>2, <2>3 DEF Stream
<1>8. CASE pops[k] = "imu"
    <2>1. m = inbox["imu"][i + 1] /\ i + 1 \in 1 .. Len(inbox["imu"])
        BY <1>3, <1>8
    <2>2. CASE s = "imu"
        <3>1. i + 1 <= q
            BY <1>1, <1>2, <2>2
        <3>2. src("imu", i + 1) <= src("imu", q)
            BY <1>5, <1>6, <2>1, <2>2, <3>1
        <3>3. src("imu", i + 1) \in Nat /\ src("imu", q) \in Nat
            BY <1>2, <1>6, <2>1, <2>2
        <3>4. src("imu", i + 1) < src("imu", q) \/ src("imu", i + 1) = src("imu", q)
            BY <3>2, <3>3
        <3> QED
            BY <1>8, <2>1, <2>2, <3>4
    <2>3. CASE s = "camera"
        <3>1. /\ c + 1 <= q /\ c < Len(inbox["camera"]) /\ c + 1 \in 1 .. Len(inbox["camera"])
              /\ q \in 1 .. Len(inbox["camera"])
            BY <1>1, <1>2, <1>6, <2>3
        <3>2. ~(src("camera", c + 1) < src("imu", i + 1))
            BY <1>4, <1>8, <3>1 DEF CameraNext
        <3>3. src("camera", c + 1) <= src("camera", q)
            BY <1>5, <1>6, <3>1
        <3>4. /\ src("camera", c + 1) \in Nat /\ src("imu", i + 1) \in Nat
              /\ src("camera", q) \in Nat
            BY <1>2, <1>6, <2>1, <3>1
        <3>5. src("imu", i + 1) < src("camera", q) \/ src("imu", i + 1) = src("camera", q)
            BY SMTT(30), <3>2, <3>3, <3>4
        <3> QED
            BY <1>8, <2>1, <2>3, <3>5
    <2> QED
        BY <2>2, <2>3 DEF Stream
<1> QED
    BY <1>7, <1>8 DEF Stream

(* A new batch holds the oldest measurements there are, in order.            *)
THEOREM OldestFirstHolds == GraphSpec => OldestFirst
<1> DEFINE A == (\A s \in Stream : TimeSorted(s)) /\ running = NoBatch /\ running' # NoBatch =>
        /\ \A i, j \in DOMAIN running'.inputs :
              i < j => \/ running'.inputs[i].source_time < running'.inputs[j].source_time
                       \/ /\ running'.inputs[i].source_time = running'.inputs[j].source_time
                          /\ ~(running'.inputs[i].stream = "camera"
                               /\ running'.inputs[j].stream = "imu")
        /\ \A i \in DOMAIN running'.inputs, s \in Stream :
              \A k \in 1 .. Len(inbox'[s]) :
                  running'.inputs[i].source_time <= inbox'[s][k].source_time
<1>1. GraphInv /\ [GraphNext]_graphVars => [A]_graphVars
    <2> SUFFICES ASSUME GraphInv, [GraphNext]_graphVars, \A s \in Stream : TimeSorted(s),
                        running = NoBatch, running' # NoBatch
                 PROVE  A
        OBVIOUS
    <2>1. PICK t \in 0 .. MaxTime : Select(t)
        BY ZenonT(40) DEF GraphNext, CallOffer, Offer, CallSelect, CallComplete, Complete, CallControl,
           TakeControl, graphVars
    <2>2. t \in Nat /\ GraphTypeOK
        BY BoundsAssumption DEF GraphInv
    <2>3. PICK pops \in Merges :
             /\ OldestFirstPops(pops) /\ BatchSize \in Nat
             /\ pops \in [1 .. BatchSize -> Stream]
             /\ DOMAIN running'.inputs = 1 .. BatchSize
             /\ \A k \in 1 .. BatchSize :
                   /\ Popped(pops, k, pops[k]) \in 1 .. Len(inbox[pops[k]])
                   /\ running'.inputs[k] = inbox[pops[k]][Popped(pops, k, pops[k])]
                   /\ running'.inputs[k].stream = pops[k]
             /\ \A s \in Stream :
                   /\ Len(inbox'[s]) \in Nat /\ Len(inbox[s]) \in Nat
                   /\ Popped(pops, BatchSize, s) \in 0 .. Len(inbox[s])
                   /\ \A k \in 1 .. Len(inbox'[s]) :
                         /\ Popped(pops, BatchSize, s) + k \in 1 .. Len(inbox[s])
                         /\ inbox'[s][k] = inbox[s][Popped(pops, BatchSize, s) + k]
        BY <2>1, <2>2, SelectShape
    <2>4. ASSUME NEW i \in 1 .. BatchSize, NEW s \in Stream, NEW q \in 1 .. Len(inbox[s]),
                 q > Popped(pops, i - 1, s)
          PROVE  \/ running'.inputs[i].source_time < inbox[s][q].source_time
                 \/ /\ running'.inputs[i].source_time = inbox[s][q].source_time
                    /\ ~(pops[i] = "camera" /\ s = "imu")
        BY <2>2, <2>3, <2>4, OldestPop
    <2>5. ASSUME NEW i \in 1 .. BatchSize, NEW j \in 1 .. BatchSize, i < j
          PROVE  \/ running'.inputs[i].source_time < running'.inputs[j].source_time
                 \/ /\ running'.inputs[i].source_time = running'.inputs[j].source_time
                    /\ ~(running'.inputs[i].stream = "camera"
                         /\ running'.inputs[j].stream = "imu")
        <3> DEFINE s == pops[j]
                   q == Popped(pops, j, s)
        <3>1. /\ s \in Stream /\ q \in 1 .. Len(inbox[s]) /\ running'.inputs[j] = inbox[s][q]
              /\ running'.inputs[j].stream = s /\ running'.inputs[i].stream = pops[i]
            BY <2>3
        <3>2. i - 1 \in 0 .. BatchSize /\ j \in 0 .. BatchSize /\ i - 1 < j
            BY <2>3, <2>5
        <3>3. Popped(pops, i - 1, s) < q
            BY <2>3, <3>1, <3>2, PoppedGrows
        <3>4. Popped(pops, i - 1, s) \in Nat /\ q \in Nat
            BY <2>3, <3>1, <3>2, PoppedBounds
        <3>5. q > Popped(pops, i - 1, s)
            BY <3>3, <3>4
        <3> QED
            BY <2>4, <3>1, <3>5
    <2>6. ASSUME NEW i \in 1 .. BatchSize, NEW s \in Stream, NEW k \in 1 .. Len(inbox'[s])
          PROVE  running'.inputs[i].source_time <= inbox'[s][k].source_time
        <3> DEFINE p == Popped(pops, BatchSize, s)
                   q == p + k
        <3>1. p \in Nat /\ q \in 1 .. Len(inbox[s]) /\ inbox'[s][k] = inbox[s][q]
            BY <2>3
        <3>2. i - 1 \in 0 .. BatchSize
            BY <2>3
        <3>3. Popped(pops, i - 1, s) \in Nat /\ Popped(pops, i - 1, s) <= p
            BY <2>3, <3>2, PoppedBounds
        <3>4. q > Popped(pops, i - 1, s)
            BY <2>3, <3>1, <3>3
        <3>5. inbox[s][q] \in Measurement /\ running'.inputs[i] \in Measurement
            <4>1. \A r \in Stream : \A x \in 1 .. Len(inbox[r]) : inbox[r][x] \in Measurement
                BY <2>2, ElementOfSeq DEF GraphTypeOK
            <4>2. inbox[s][q] \in Measurement
                BY <3>1, <4>1
            <4>3. PICK x : x = Popped(pops, i, pops[i])
                OBVIOUS
            <4>4. pops[i] \in Stream /\ x \in 1 .. Len(inbox[pops[i]])
                  /\ running'.inputs[i] = inbox[pops[i]][x]
                BY <2>3, <4>3
            <4>5. running'.inputs[i] \in Measurement
                BY <4>1, <4>4
            <4> QED
                BY <4>2, <4>5
        <3>6. inbox[s][q].source_time \in Nat /\ running'.inputs[i].source_time \in Nat
            BY <3>5 DEF Measurement
        <3>7. \/ running'.inputs[i].source_time < inbox[s][q].source_time
              \/ running'.inputs[i].source_time = inbox[s][q].source_time
            BY <2>4, <3>1, <3>4
        <3>8. running'.inputs[i].source_time <= inbox[s][q].source_time
            BY <3>6, <3>7
        <3> QED
            BY <3>1, <3>8
    <2> QED
        BY ZenonT(40), <2>3, <2>5, <2>6
<1> QED
    BY <1>1, GraphInvariance, PTL DEF GraphSpec, OldestFirst
=============================================================================
