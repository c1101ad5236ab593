-------------------------- MODULE BagSessionProofs --------------------------
(***************************************************************************)
(* A bag case and a synthetic run: every message is accounted for at every *)
(* stage and by the audit, the exit code tells the truth, and an accepted  *)
(* stream is measured without a gap, for every recording and whatever is   *)
(* late, slow or faulty.                                                   *)
(***************************************************************************)
EXTENDS BagSession, ReportMetrics, FiniteSetTheorems, WellFoundedInduction, TLAPS

-----------------------------------------------------------------------------
(* Sequences as sets                                                       *)

(* The elements of a sequence.                                              *)
LEMMA SeqElements ==
    ASSUME NEW S, NEW q \in Seq(S)
    PROVE  /\ ToSet(q) \subseteq S
           /\ \A e : Contains(q, e) <=> e \in ToSet(q)
           /\ q # <<>> => Head(q) \in ToSet(q) /\ Tail(q) \in Seq(S)
BY DEF ToSet, Contains

(* A sequence with one more element.                                        *)
LEMMA AppendElements ==
    ASSUME NEW S, NEW q \in Seq(S), NEW e \in S
    PROVE  /\ Append(q, e) \in Seq(S) /\ ToSet(Append(q, e)) = ToSet(q) \cup {e}
           /\ IsInjective(q) /\ e \notin ToSet(q) => IsInjective(Append(q, e))
<1> DEFINE a == Append(q, e)
<1>1. /\ a \in Seq(S) /\ Len(a) = Len(q) + 1 /\ a[Len(q) + 1] = e
      /\ DOMAIN a = 1 .. Len(q) + 1 /\ DOMAIN q = 1 .. Len(q)
      /\ \A i \in 1 .. Len(q) : a[i] = q[i]
    OBVIOUS
<1>2. Len(q) \in Nat
    OBVIOUS
<1> HIDE DEF a
<1>3. ToSet(a) = ToSet(q) \cup {e}
    <2>1. ASSUME NEW x \in ToSet(q) \cup {e} PROVE x \in ToSet(a)
        <3>1. CASE x = e
            BY <1>1, <1>2, <3>1 DEF ToSet
        <3>2. CASE x \in ToSet(q)
            BY <1>1, <1>2, <3>2 DEF ToSet
        <3> QED
            BY <3>1, <3>2
    <2>2. ASSUME NEW x \in ToSet(a) PROVE x \in ToSet(q) \cup {e}
        BY <1>1, <1>2 DEF ToSet
    <2> QED
        BY <2>1, <2>2
<1>4. ASSUME IsInjective(q), e \notin ToSet(q) PROVE IsInjective(a)
    BY <1>1, <1>2, <1>4 DEF ToSet, IsInjective
<1> QED
    BY <1>1, <1>3, <1>4 DEF a

(* A sequence without its first element.                                    *)
LEMMA TailElements ==
    ASSUME NEW S, NEW q \in Seq(S), q # <<>>, IsInjective(q)
    PROVE  /\ ToSet(Tail(q)) = ToSet(q) \ {Head(q)} /\ IsInjective(Tail(q))
           /\ Tail(q) \in Seq(S) /\ Head(q) \in ToSet(q) /\ Head(q) \in S
<1> DEFINE a == Tail(q)
           n == Len(q)
<1>1. /\ a \in Seq(S) /\ n \in Nat \ {0} /\ Head(q) = q[1]
      /\ DOMAIN a = 1 .. n - 1 /\ DOMAIN q = 1 .. n
      /\ \A i \in 1 .. n - 1 : a[i] = q[i + 1]
    OBVIOUS
<1> HIDE DEF a, n
<1>2. ASSUME NEW x \in ToSet(a) PROVE x \in ToSet(q) \ {Head(q)}
    <2>1. PICK i \in 1 .. n - 1 : x = q[i + 1]
        BY <1>1, <1>2 DEF ToSet
    <2>2. i + 1 \in 1 .. n /\ i + 1 # 1 /\ 1 \in 1 .. n
        BY <1>1
    <2> QED
        BY <1>1, <2>1, <2>2 DEF ToSet, IsInjective
<1>3. ASSUME NEW x \in ToSet(q) \ {Head(q)} PROVE x \in ToSet(a)
    <2>1. PICK i \in 1 .. n : x = q[i]
        BY <1>1, <1>3 DEF ToSet
    <2>2. i # 1 /\ i - 1 \in 1 .. n - 1 /\ (i - 1) + 1 = i
        BY <1>1, <1>3, <2>1
    <2> QED
        BY <1>1, <2>1, <2>2 DEF ToSet
<1>4. IsInjective(a)
    <2> SUFFICES ASSUME NEW i \in 1 .. n - 1, NEW k \in 1 .. n - 1, a[i] = a[k] PROVE i = k
        BY <1>1 DEF IsInjective
    <2>1. i + 1 \in 1 .. n /\ k + 1 \in 1 .. n /\ q[i + 1] = q[k + 1]
        BY <1>1
    <2>2. i + 1 = k + 1
        BY <1>1, <2>1 DEF IsInjective
    <2> QED
        BY <2>2
<1>5. Head(q) \in ToSet(q) /\ Head(q) \in S
    BY <1>1, SeqElements
<1> QED
    BY <1>1, <1>2, <1>3, <1>4, <1>5 DEF a

-----------------------------------------------------------------------------
(* The graph of the stages                                                 *)

(* Short sequences are tuples.                                              *)
LEMMA TupleIs ==
    ASSUME NEW S, NEW r \in Seq(S)
    PROVE  /\ Len(r) = 1 => r = <<r[1]>>
           /\ Len(r) = 2 => r = <<r[1], r[2]>>
           /\ Len(r) = 3 => r = <<r[1], r[2], r[3]>>
OBVIOUS

(* What is still to be booked downstream: a rest of one of four lists.      *)
LEMMA RestsAre ==
    /\ Rests(<<>>) = {}
    /\ \A a : Rests(<<a>>) = {<<a>>}
    /\ \A a, b : Rests(<<a, b>>) = {<<a, b>>, <<b>>}
    /\ \A a, b, c : Rests(<<a, b, c>>) = {<<a, b, c>>, <<b, c>>, <<c>>}
<1>1. Rests(<<>>) = {}
    BY DEF Rests, Suffixes
<1>2. ASSUME NEW a PROVE Rests(<<a>>) = {<<a>>}
    <2> DEFINE q == <<a>>
    <2>1. q \in Seq({a}) /\ Len(q) = 1 /\ q[1] = a /\ 1 .. 1 = {1} /\ <<a>> # <<>>
        OBVIOUS
    <2> HIDE DEF q
    <2>2. SubSeq(q, 1, 1) = <<a>>
        <3> DEFINE r == SubSeq(q, 1, 1)
        <3>1. r \in Seq({a}) /\ Len(r) = 1 /\ r[1] = a
            BY <2>1
        <3> HIDE DEF r
        <3>2. r = <<a>>
            BY <3>1, TupleIs
        <3> QED
            BY <3>2 DEF r
    <2> QED
        BY <2>1, <2>2 DEF Rests, Suffixes, q
<1>3. ASSUME NEW a, NEW b PROVE Rests(<<a, b>>) = {<<a, b>>, <<b>>}
    <2> DEFINE q == <<a, b>>
    <2>1. /\ q \in Seq({a, b}) /\ Len(q) = 2 /\ q[1] = a /\ q[2] = b /\ 1 .. 2 = {1, 2}
          /\ <<b>> # <<>> /\ <<a, b>> # <<>>
        OBVIOUS
    <2> HIDE DEF q
    <2>2. SubSeq(q, 1, 2) = <<a, b>>
        <3> DEFINE r == SubSeq(q, 1, 2)
        <3>1. r \in Seq({a, b}) /\ Len(r) = 2 /\ r[1] = a /\ r[2] = b
            BY <2>1
        <3> HIDE DEF r
        <3>2. r = <<a, b>>
            BY <3>1, TupleIs
        <3> QED
            BY <3>2 DEF r
    <2>3. SubSeq(q, 2, 2) = <<b>>
        <3> DEFINE r == SubSeq(q, 2, 2)
        <3>1. r \in Seq({a, b}) /\ Len(r) = 1 /\ r[1] = b
            BY <2>1
        <3> HIDE DEF r
        <3>2. r = <<b>>
            BY <3>1, TupleIs
        <3> QED
            BY <3>2 DEF r
    <2> QED
        BY <2>1, <2>2, <2>3 DEF Rests, Suffixes, q
<1>4. ASSUME NEW a, NEW b, NEW c PROVE Rests(<<a, b, c>>) = {<<a, b, c>>, <<b, c>>, <<c>>}
    <2> DEFINE q == <<a, b, c>>
    <2>1. /\ q \in Seq({a, b, c}) /\ Len(q) = 3 /\ q[1] = a /\ q[2] = b /\ q[3] = c
          /\ 1 .. 3 = {1, 2, 3} /\ <<c>> # <<>> /\ <<b, c>> # <<>> /\ <<a, b, c>> # <<>>
        OBVIOUS
    <2> HIDE DEF q
    <2>2. SubSeq(q, 1, 3) = <<a, b, c>>
        <3> DEFINE r == SubSeq(q, 1, 3)
        <3>1. r \in Seq({a, b, c}) /\ Len(r) = 3 /\ r[1] = a /\ r[2] = b /\ r[3] = c
            BY <2>1
        <3> HIDE DEF r
        <3>2. r = <<a, b, c>>
            BY <3>1, TupleIs
        <3> QED
            BY <3>2 DEF r
    <2>3. SubSeq(q, 2, 3) = <<b, c>>
        <3> DEFINE r == SubSeq(q, 2, 3)
        <3>1. r \in Seq({a, b, c}) /\ Len(r) = 2 /\ r[1] = b /\ r[2] = c
            BY <2>1
        <3> HIDE DEF r
        <3>2. r = <<b, c>>
            BY <3>1, TupleIs
        <3> QED
            BY <3>2 DEF r
    <2>4. SubSeq(q, 3, 3) = <<c>>
        <3> DEFINE r == SubSeq(q, 3, 3)
        <3>1. r \in Seq({a, b, c}) /\ Len(r) = 1 /\ r[1] = c
            BY <2>1
        <3> HIDE DEF r
        <3>2. r = <<c>>
            BY <3>1, TupleIs
        <3> QED
            BY <3>2 DEF r
    <2> QED
        BY <2>1, <2>2, <2>3, <2>4 DEF Rests, Suffixes, q
<1> QED
    BY <1>1, <1>2, <1>3, <1>4

(* The paths: imu alone; vision, estimator and mapping in a row.            *)
LEMMA Paths ==
    /\ Downstream["imu"] = <<>> /\ Downstream["mapping"] = <<>>
    /\ Downstream["vision"] = <<"estimator", "mapping">> /\ Downstream["estimator"] = <<"mapping">>
    /\ Before("imu") = {} /\ Before("vision") = {}
    /\ Before("estimator") = {"vision"} /\ Before("mapping") = {"vision", "estimator"}
    /\ \A s \in Stages : Before(s) \subseteq Stages
    /\ \A s \in Stages : s = "imu" \/ s = "vision" \/ s = "estimator" \/ s = "mapping"
    /\ StreamOf("imu") = "imu" /\ \A s \in Stages \ {"imu"} : StreamOf(s) = "camera"
    /\ "imu" \in Stages /\ "vision" \in Stages /\ "estimator" \in Stages /\ "mapping" \in Stages
<1>1. /\ Downstream["imu"] = <<>> /\ Downstream["mapping"] = <<>>
      /\ Downstream["vision"] = <<"estimator", "mapping">>
      /\ Downstream["estimator"] = <<"mapping">>
    BY DEF Downstream
<1>2. /\ \A e : ~ Contains(<<>>, e)
      /\ \A e : Contains(<<"mapping">>, e) <=> e = "mapping"
      /\ \A e : Contains(<<"estimator", "mapping">>, e) <=> e \in {"estimator", "mapping"}
    BY DEF Contains
<1>3. /\ Before("imu") = {} /\ Before("vision") = {}
      /\ Before("estimator") = {"vision"} /\ Before("mapping") = {"vision", "estimator"}
    BY <1>1, <1>2 DEF Before, Stages
<1> QED
    BY <1>1, <1>3 DEF Stages, StreamOf, Before

(* Message m is at stage u, before its end.                                 *)
Near(u, m) ==
    <<u, m>> \in lost \/ m \in Queued(u) \/ (msg[u] = m /\ pc[u] \in HandPlaces)

(* Stage u has processed or dropped m and has yet to pass that on to s.     *)
Passing(u, s, m) ==
    msg[u] = m /\ (pc[u] = "publish" \/ (pc[u] = "settle" /\ Contains(owed[u], s)))

(* Where an unresolved message of each stage is.                            *)
LEMMA UnresolvedAt ==
    ASSUME RosTypeOK, NEW m
    PROVE  /\ Unresolved("imu", m) <=> Near("imu", m)
           /\ Unresolved("vision", m) <=> Near("vision", m)
           /\ Unresolved("estimator", m) <=> \/ Near("vision", m) \/ Near("estimator", m)
                                             \/ Passing("vision", "estimator", m)
           /\ Unresolved("mapping", m) <=>
                  \/ Near("vision", m) \/ Near("estimator", m) \/ Near("mapping", m)
                  \/ Passing("vision", "mapping", m) \/ Passing("estimator", "mapping", m)
<1>1. \A u \in Stages : Contains(inq[u], m) <=> m \in Queued(u)
    BY SeqElements DEF RosTypeOK, Queued
<1>2. \A s \in Stages : Unresolved(s, m) <=>
          \/ \E u \in Before(s) \cup {s} : Near(u, m)
          \/ \E u \in Before(s) : Passing(u, s, m)
    BY <1>1, Paths DEF Unresolved, Near, Passing
<1> QED
    BY <1>2, Paths

-----------------------------------------------------------------------------
(* Counting                                                                *)

\* r of the members of S are settled, those in U are not.
Balances(r, S, U) ==
    IsFiniteSet(S) /\ U \subseteq S /\ r \in Int /\ r + Cardinality(U) = Cardinality(S)

(* One more member is settled.                                              *)
LEMMA BalanceResolve ==
    ASSUME NEW r, NEW S, NEW U, NEW m, Balances(r, S, U), m \in U
    PROVE  Balances(r + 1, S, U \ {m})
<1>1. IsFiniteSet(U)
    BY FS_Subset DEF Balances
<1>2. Cardinality(U \ {m}) = Cardinality(U) - 1 /\ Cardinality(U) \in Nat
    BY <1>1, FS_RemoveElement, FS_CardinalityType
<1>3. Cardinality(S) \in Nat
    BY FS_CardinalityType DEF Balances
<1> QED
    BY <1>2, <1>3 DEF Balances

(* There is a new member, which is not settled.                             *)
LEMMA BalanceGrow ==
    ASSUME NEW r, NEW S, NEW U, NEW m, Balances(r, S, U), m \notin S
    PROVE  Balances(r, S \cup {m}, U \cup {m})
<1>1. IsFiniteSet(U) /\ m \notin U /\ U \in SUBSET S
    BY FS_Subset DEF Balances
<1>2. IsFiniteSet(U \cup {m}) /\ Cardinality(U \cup {m}) = Cardinality(U) + 1
    BY <1>1, FS_AddElement
<1>3. IsFiniteSet(S \cup {m}) /\ Cardinality(S \cup {m}) = Cardinality(S) + 1
    BY FS_AddElement DEF Balances
<1>4. Cardinality(S) \in Nat /\ Cardinality(U) \in Nat
    BY <1>1, FS_CardinalityType DEF Balances
<1> QED
    BY <1>1, <1>2, <1>3, <1>4 DEF Balances

(* What is not settled is counted by the difference.                        *)
LEMMA BalanceAll ==
    ASSUME NEW r, NEW S, NEW U, Balances(r, S, U)
    PROVE  /\ r <= Cardinality(S) /\ Cardinality(S) \in Nat /\ Cardinality(U) \in Nat
           /\ r >= Cardinality(S) => U = {} /\ r = Cardinality(S)
<1>1. IsFiniteSet(U)
    BY FS_Subset DEF Balances
<1>2. Cardinality(S) \in Nat /\ Cardinality(U) \in Nat
    BY <1>1, FS_CardinalityType DEF Balances
<1>3. r >= Cardinality(S) => Cardinality(U) = 0
    BY <1>2 DEF Balances
<1> QED
    BY <1>1, <1>2, <1>3, FS_EmptySet DEF Balances

(* A sequence has finitely many elements.                                   *)
LEMMA ElementsFinite ==
    ASSUME NEW S, NEW q \in Seq(S)
    PROVE  IsFiniteSet(ToSet(q))
<1>1. q \in Surjection(1 .. Len(q), ToSet(q))
    BY DEF Surjection, ToSet
<1>2. IsFiniteSet(1 .. Len(q))
    BY FS_Interval
<1> QED
    BY <1>1, <1>2, FS_Surjection

(* The messages sent to stage s, and those that are unresolved there.       *)
Open(s) == {m \in Sent(s) : Unresolved(s, m)}

(* Finitely many messages have been sent.                                   *)
LEMMA SentFinite ==
    ASSUME RosTypeOK, NEW s \in Stages
    PROVE  /\ IsFiniteSet(Sent(s)) /\ IsFiniteSet(ToSet(published[StreamOf(s)]))
           /\ Sent(s) \subseteq StampedJob
<1>1. published[StreamOf(s)] \in Seq(StampedJob)
    BY DEF RosTypeOK, StreamOf, Streams
<1>2. /\ IsFiniteSet(ToSet(published[StreamOf(s)]))
      /\ ToSet(published[StreamOf(s)]) \subseteq StampedJob
    BY <1>1, ElementsFinite, SeqElements
<1>3. Sent(s) \in SUBSET ToSet(published[StreamOf(s)])
    BY DEF Sent
<1> QED
    BY <1>2, <1>3, FS_Subset

(* Accounted says that the counters of each stage balance.                  *)
LEMMA AccountedBalances ==
    ASSUME RosTypeOK
    PROVE  Accounted <=> \A s \in Stages : Balances(ResolvedIn(stats[s]), Sent(s), Open(s))
<1>1. \A s \in Stages : ResolvedIn(stats[s]) \in Nat
    BY DEF RosTypeOK, StatsType, ResolvedIn
<1>2. \A s \in Stages : IsFiniteSet(Sent(s)) /\ Open(s) \subseteq Sent(s)
    BY SentFinite DEF Open
<1> QED
    BY <1>1, <1>2 DEF Accounted, Balances, Open

-----------------------------------------------------------------------------
(* Types                                                                   *)

(* One more of a counter, or a job that starts or ends.                     *)
LEMMA StatsTypes ==
    ASSUME NEW st \in StatsType
    PROVE  /\ \A f \in {"arrivals", "dropped", "upstream_dropped"} :
                  [st EXCEPT ![f] = @ + 1] \in StatsType
           /\ [st EXCEPT !.executed = @ + 1, !.active = TRUE] \in StatsType
           /\ [st EXCEPT !.completed = @ + 1, !.active = FALSE] \in StatsType
           /\ \A m \in StampedJob : Offered(st, m) \in StatsType
<1> USE DEF StatsType
<1>1. \A f \in {"arrivals", "dropped", "upstream_dropped"} : [st EXCEPT ![f] = @ + 1] \in StatsType
    <2>1. [st EXCEPT !["arrivals"] = @ + 1] \in StatsType
        OBVIOUS
    <2>2. [st EXCEPT !["dropped"] = @ + 1] \in StatsType
        OBVIOUS
    <2>3. [st EXCEPT !["upstream_dropped"] = @ + 1] \in StatsType
        OBVIOUS
    <2> QED
        BY <2>1, <2>2, <2>3
<1>2. /\ [st EXCEPT !.executed = @ + 1, !.active = TRUE] \in StatsType
      /\ [st EXCEPT !.completed = @ + 1, !.active = FALSE] \in StatsType
    <2>1. ASSUME NEW n \in Nat, NEW a \in BOOLEAN
          PROVE  /\ [st EXCEPT !.executed = n, !.active = a] \in StatsType
                 /\ [st EXCEPT !.completed = n, !.active = a] \in StatsType
        OBVIOUS
    <2>2. st.executed + 1 \in Nat /\ st.completed + 1 \in Nat
        OBVIOUS
    <2> HIDE DEF StatsType
    <2> QED
        BY <2>1, <2>2
<1>3. ASSUME NEW m \in StampedJob PROVE Offered(st, m) \in StatsType
    <2> DEFINE first == IF st.first_job_id = 0 THEN m.job_id ELSE st.first_job_id
    <2>1. m.job_id \in Nat /\ first \in Nat /\ st.offered + 1 \in Nat
        BY DEF StampedJob
    <2>2. ASSUME NEW n \in Nat, NEW a \in Nat, NEW b \in Nat
          PROVE  [st EXCEPT !.offered = n, !.first_job_id = a, !.last_job_id = b] \in StatsType
        OBVIOUS
    <2>3. Offered(st, m) = [st EXCEPT !.offered = st.offered + 1, !.first_job_id = first,
                                      !.last_job_id = m.job_id]
        BY DEF Offered
    <2> HIDE DEF StatsType, first
    <2> QED
        BY ZenonT(40), <2>1, <2>2, <2>3
<1> QED
    BY <1>1, <1>2, <1>3

(* The parts of the type invariant that the steps of one thread touch.      *)
Labels == {"unstarted", "wait", "admit", "settle", "work", "publish",
           "offer", "raise", "failed", "gone"}

(* The parts of the type invariant: queues, statistics, the threads,         *)
(* and main() with its contenders.                                          *)
WireTypes ==
    /\ published \in [Streams -> Seq(StampedJob)] /\ linked \subseteq Subscriptions
    /\ inq \in [Stages -> Seq(StampedJob)] /\ auditq \in [Streams -> Seq(StampedJob)]
    /\ lost \subseteq Stages \X StampedJob
BookTypes == stats \in [Stages -> StatsType] /\ snap \in [Stages -> LineType]
HandTypes ==
    /\ pc \in [Threads -> Labels] /\ msg \in [Threads -> StampedJob \cup {None}]
    /\ owed \in [Threads -> Seq(Stages)] /\ spinning \in [Threads -> BOOLEAN]
MainTypes ==
    /\ input_mode \in DOMAIN Setup
    /\ hog \in [Hogs -> {"unstarted", "run", "gone", "failed"}]
    /\ context \in BOOLEAN /\ contenders_running \in BOOLEAN /\ window_start \in BOOLEAN
    /\ background_error \in Threads \cup Contenders \cup {None}
    /\ main \in {"graph", "await", "generate", "snapshot", "stop_hogs", "cancel",
                 "join", "done", "aborted"}
    /\ step \in 1 .. Len(CancelOrder) /\ timed_out \in BOOLEAN
    /\ exit \in {None, 0, 1, 2}

(* The types are those parts, now and in the next state.                     *)
LEMMA TypeParts ==
    /\ RosTypeOK <=> WireTypes /\ BookTypes /\ HandTypes /\ MainTypes
    /\ RosTypeOK' <=> WireTypes' /\ BookTypes' /\ HandTypes' /\ MainTypes'
BY DEF RosTypeOK, WireTypes, BookTypes, HandTypes, MainTypes, Labels

(* The names of threads and stages, and the orders of main().                *)
LEMMA Names ==
    /\ Stages \subseteq Threads /\ "audit" \in Threads /\ "audit" \notin Stages
    /\ Streams = {"imu", "camera"} /\ WorkerOf("imu") = "imu" /\ WorkerOf("camera") = "vision"
    /\ Len(CancelOrder) = 5 /\ Len(SnapOrder) = 4 /\ Busy \subseteq Labels
    /\ \A i \in 1 .. 5 : CancelOrder[i] \in Threads
    /\ \A i \in 1 .. 4 : SnapOrder[i] \in Stages
    /\ \A s \in Stages : Downstream[s] \in Seq(Stages)
    /\ \A t \in Streams : WorkerOf(t) \in Stages /\ StreamOf(WorkerOf(t)) = t
    /\ \A s \in Stages : StreamOf(s) \in Streams
BY DEF Stages, Threads, Streams, WorkerOf, StreamOf, CancelOrder, SnapOrder, Downstream, Labels,
       Busy

(* A thread goes to a place in its program.                                  *)
LEMMA GotoIs ==
    ASSUME HandTypes, NEW t \in Threads, NEW l \in Labels, Goto(t, l)
    PROVE  /\ pc' \in [Threads -> Labels] /\ pc'[t] = l
           /\ \A u \in Threads \ {t} : pc'[u] = pc[u]
BY DEF Goto, HandTypes

(* It goes round its loop, or ends.                                          *)
LEMMA LoopIs ==
    ASSUME HandTypes, NEW t \in Threads, Loop(t)
    PROVE  /\ pc' \in [Threads -> Labels] /\ pc'[t] \in {"wait", "gone", "raise"}
           /\ \A u \in Threads \ {t} : pc'[u] = pc[u]
<1>1. "wait" \in Labels /\ "gone" \in Labels /\ "raise" \in Labels
    BY DEF Labels
<1> QED
    BY <1>1, GotoIs DEF Loop

(* What a thread has in hand was sent to it.                                 *)
LEMMA HandIs ==
    ASSUME RosTypeOK, AtOnePlace, NEW s \in Stages, pc[s] \in Busy
    PROVE  msg[s] \in ToSet(published[StreamOf(s)]) /\ msg[s] \in StampedJob
<1>1. msg[s] \in ToSet(published[StreamOf(s)])
    BY DEF AtOnePlace, At, InHand
<1> QED
    BY <1>1, SeqElements, Names DEF RosTypeOK

(* What the audit thread has in hand, while it offers it.                    *)
LEMMA AuditHand ==
    ASSUME RosTypeOK, AuditPlace, pc["audit"] = "offer"
    PROVE  /\ owed["audit"] \in Seq(Stages) /\ owed["audit"] # <<>>
           /\ Head(owed["audit"]) \in Stages /\ msg["audit"] \in StampedJob
<1>1. owed["audit"] \in Seq(Stages) /\ owed["audit"] # <<>>
    BY Names DEF AuditPlace, Rests, RosTypeOK
<1>2. PICK t \in Streams : msg["audit"] \in ToSet(published[t])
    BY DEF AuditPlace
<1>3. ToSet(published[t]) \subseteq StampedJob
    BY SeqElements DEF RosTypeOK
<1> QED
    BY <1>1, <1>2, <1>3

(* A message is queued at a stage, or lost.                                  *)
LEMMA DeliverTypes ==
    ASSUME WireTypes, NEW d \in Stages, NEW m \in StampedJob, Deliver(d, m)
    PROVE  inq' \in [Stages -> Seq(StampedJob)] /\ lost' \subseteq Stages \X StampedJob
<1>1. CASE context /\ d \in linked
    <2>1. Append(inq[d], m) \in Seq(StampedJob)
        BY DEF WireTypes
    <2> QED
        BY <1>1, <2>1 DEF Deliver, WireTypes
<1>2. CASE ~ (context /\ d \in linked)
    BY <1>2 DEF Deliver, WireTypes
<1> QED
    BY <1>1, <1>2

(* A source that sends a message keeps the types.                            *)
LEMMA SendTypes ==
    ASSUME RosTypeOK, NEW t \in Streams, NEW m \in StampedJob, Send(t, m)
    PROVE  RosTypeOK'
<1>0. WireTypes /\ BookTypes /\ HandTypes /\ MainTypes
    BY TypeParts
<1>1. WorkerOf(t) \in Stages
    BY Names
<1>2. /\ inq' \in [Stages -> Seq(StampedJob)] /\ lost' \subseteq Stages \X StampedJob
    BY <1>0, <1>1, DeliverTypes DEF Send
<1>3. /\ published' \in [Streams -> Seq(StampedJob)] /\ auditq' \in [Streams -> Seq(StampedJob)]
      /\ linked' \subseteq Subscriptions
    BY <1>0 DEF Send, WireTypes
<1>4. BookTypes' /\ HandTypes'
    BY <1>0 DEF Send, BookTypes, HandTypes, threads, mainVars
<1>5. MainTypes'
    BY <1>0 DEF Send, MainTypes, hogVars, mainVars, Hogs
<1> QED
    BY <1>2, <1>3, <1>4, <1>5, TypeParts DEF WireTypes

(* Each step of the pipeline keeps the types.                                *)
LEMMA RosTypes == RosInv /\ RosStep => RosTypeOK'
<1> SUFFICES ASSUME RosInv, RosStep PROVE RosTypeOK'
    OBVIOUS
<1>0. /\ WireTypes /\ BookTypes /\ HandTypes /\ MainTypes
      /\ RosTypeOK /\ StagePlace /\ AuditPlace /\ MainPlace /\ AtOnePlace
    BY TypeParts DEF RosInv
<1> USE DEF dds, threads, hogVars, mainVars, Hogs
<1>1. ASSUME NEW u \in Subscriptions, Link(u) PROVE RosTypeOK'
    BY <1>0, <1>1 DEF Link, RosTypeOK
<1>2. ASSUME NEW t \in Threads, Enter(t) PROVE RosTypeOK'
    <2>1. WireTypes'
        BY <1>0, <1>2 DEF Enter, WireTypes
    <2>2. BookTypes'
        BY <1>0, <1>2, StatsTypes DEF Enter, BookTypes
    <2>3. HandTypes'
        BY <1>0, <1>2, Names, GotoIs, LoopIs DEF Enter, Labels, HandTypes
    <2>4. MainTypes'
        BY <1>0, <1>2, RosAssumption DEF Enter, Goto, MainTypes
    <2> QED
        BY <2>1, <2>2, <2>3, <2>4, TypeParts
<1>3. ASSUME NEW t \in Threads, Interrupted(t) PROVE RosTypeOK'
    BY ZenonT(40), <1>0, <1>3 DEF Interrupted, Loop, Goto, RosTypeOK
<1>4. ASSUME NEW t \in Threads, Catch(t) PROVE RosTypeOK'
    BY <1>0, <1>4 DEF Catch, Keep, Goto, RosTypeOK
<1>5. ASSUME NEW s \in Stages, Throw(s) PROVE RosTypeOK'
    <2>1. WireTypes'
        <3>1. <<s, msg[s]>> \in Stages \X StampedJob
            BY <1>0, <1>5, HandIs DEF Throw, Busy
        <3> QED
            BY <1>0, <1>5, <3>1 DEF Throw, WireTypes
    <2>2. BookTypes'
        BY <1>0, <1>5, StatsTypes DEF Throw, BookTypes
    <2>3. HandTypes'
        BY <1>0, <1>5, Names, GotoIs, LoopIs DEF Throw, Labels, HandTypes
    <2>4. MainTypes'
        BY <1>0, <1>5, RosAssumption DEF Throw, Goto, MainTypes
    <2> QED
        BY <2>1, <2>2, <2>3, <2>4, TypeParts
<1>6. ASSUME NEW h \in Hogs, HogEnds(h) PROVE RosTypeOK'
    BY <1>0, <1>6 DEF HogEnds, RosTypeOK
<1>7. ASSUME NEW h \in Hogs, HogFails(h) PROVE RosTypeOK'
    <2>1. WireTypes'
        BY SMTT(30), <1>0, <1>7 DEF HogFails, Keep, WireTypes
    <2>2. BookTypes'
        BY <1>0, <1>7, StatsTypes DEF HogFails, Keep, BookTypes
    <2>3. HandTypes'
        BY <1>0, <1>7 DEF HogFails, Keep, HandTypes
    <2>4. MainTypes'
        BY <1>0, <1>7, RosAssumption DEF HogFails, Keep, MainTypes
    <2> QED
        BY <2>1, <2>2, <2>3, <2>4, TypeParts
<1>8. ASSUME Connect PROVE RosTypeOK'
    BY <1>0, <1>8 DEF Connect, MainGoto, NotMain, RosTypeOK
<1>9. ASSUME ConnectFails PROVE RosTypeOK'
    BY <1>0, <1>9 DEF ConnectFails, MainGoto, Quiet, NotMain, RosTypeOK
<1>10. ASSUME JoinGenerators PROVE RosTypeOK'
    BY <1>0, <1>10 DEF JoinGenerators, MainGoto, Quiet, NotMain, RosTypeOK
<1>11. ASSUME WindowOpens PROVE RosTypeOK'
    BY <1>0, <1>11 DEF WindowOpens, MainGoto, Quiet, NotMain, RosTypeOK
<1>12. ASSUME WindowTimesOut PROVE RosTypeOK'
    BY <1>0, <1>12 DEF WindowTimesOut, MainGoto, Quiet, NotMain, RosTypeOK
<1>13. ASSUME StopHogs PROVE RosTypeOK'
    <2>1. WireTypes'
        BY SMTT(30), <1>0, <1>13 DEF StopHogs, MainGoto, NotMain, WireTypes
    <2>2. BookTypes'
        BY <1>0, <1>13, StatsTypes DEF StopHogs, MainGoto, NotMain, BookTypes
    <2>3. HandTypes'
        BY <1>0, <1>13 DEF StopHogs, MainGoto, NotMain, HandTypes
    <2>4. MainTypes'
        <3>1. step' \in 1 .. Len(CancelOrder)
            BY <1>13, Names DEF StopHogs, MainGoto
        <3>2. hog' \in [Hogs' -> {"unstarted", "run", "gone", "failed"}]
            BY <1>0, <1>13 DEF StopHogs, NotMain, MainTypes
        <3> QED
            BY <1>0, <1>13, <3>1, <3>2 DEF StopHogs, MainGoto, NotMain, MainTypes
    <2> QED
        BY <2>1, <2>2, <2>3, <2>4, TypeParts
<1>14. ASSUME Cancel PROVE RosTypeOK'
    <2>1. WireTypes'
        BY <1>0, <1>14 DEF Cancel, Cancelling, MainGoto, NotMain, WireTypes
    <2>2. BookTypes'
        BY <1>0, <1>14, StatsTypes DEF Cancel, Cancelling, MainGoto, NotMain, BookTypes
    <2>3. HandTypes'
        BY <1>0, <1>14 DEF Cancel, Cancelling, MainGoto, NotMain, HandTypes
    <2>4. MainTypes'
        BY <1>0, <1>14, RosAssumption DEF Cancel, Cancelling, MainGoto, NotMain, MainTypes
    <2> QED
        BY <2>1, <2>2, <2>3, <2>4, TypeParts
<1>15. ASSUME Finish PROVE RosTypeOK'
    <2>1. WireTypes'
        BY <1>0, <1>15 DEF Finish, MainGoto, NotMain, WireTypes
    <2>2. BookTypes'
        BY <1>0, <1>15, StatsTypes DEF Finish, MainGoto, NotMain, BookTypes
    <2>3. HandTypes'
        BY <1>0, <1>15 DEF Finish, MainGoto, NotMain, HandTypes
    <2>4. MainTypes'
        <3>1. step' \in 1 .. Len(CancelOrder) /\ exit' \in {None, 0, 1, 2}
            BY <1>15, Names DEF Finish, MainGoto
        <3>2. hog' \in [Hogs' -> {"unstarted", "run", "gone", "failed"}]
            BY <1>0, <1>15 DEF Finish, NotMain, MainTypes
        <3> QED
            BY <1>0, <1>15, <3>1, <3>2 DEF Finish, MainGoto, NotMain, MainTypes
    <2> QED
        BY <2>1, <2>2, <2>3, <2>4, TypeParts
<1>16. ASSUME NEW s \in Stages, Begin(s) PROVE RosTypeOK'
    <2>1. WireTypes'
        BY <1>0, <1>16 DEF Begin, WireTypes
    <2>2. BookTypes'
        BY <1>0, <1>16, StatsTypes DEF Begin, BookTypes
    <2>3. HandTypes'
        BY <1>0, <1>16, Names, GotoIs, LoopIs DEF Begin, Labels, HandTypes
    <2>4. MainTypes'
        BY <1>0, <1>16, RosAssumption DEF Begin, Goto, MainTypes
    <2> QED
        BY <2>1, <2>2, <2>3, <2>4, TypeParts
<1>17. ASSUME NEW s \in Stages, Drop(s) PROVE RosTypeOK'
    <2>1. WireTypes'
        BY <1>0, <1>17 DEF Drop, Add, WireTypes
    <2>2. BookTypes'
        <3>1. [stats[s] EXCEPT !["dropped"] = @ + 1] \in StatsType
            BY <1>0, StatsTypes DEF BookTypes
        <3> QED
            BY SMTT(30), <1>0, <1>17, <3>1 DEF Drop, Add, BookTypes
    <2>3. HandTypes'
        <3>1. OwedBy(s) \in Seq(Stages) /\ s \in Threads /\ "settle" \in Labels
            BY Names DEF OwedBy, Labels
        <3>2. pc' \in [Threads -> Labels]
            BY <1>0, <1>17, <3>1, GotoIs, LoopIs DEF Drop
        <3> QED
            BY <1>0, <1>17, <3>1, <3>2 DEF Drop, HandTypes
    <2>4. MainTypes'
        BY <1>0, <1>17, RosAssumption DEF Drop, Goto, Loop, Add, MainTypes
    <2> QED
        BY <2>1, <2>2, <2>3, <2>4, TypeParts
<1>18. ASSUME NEW s \in Stages, Settle(s) PROVE RosTypeOK'
    <2>1. WireTypes'
        BY SMTT(30), <1>0, <1>18 DEF Settle, Add, WireTypes
    <2>2. BookTypes'
        BY <1>0, <1>18, StatsTypes DEF Settle, Add, BookTypes
    <2>3. HandTypes'
        <3>1. owed[s] \in Seq(Stages) /\ owed[s] # <<>> /\ s \in Threads
            BY <1>0, <1>18, Names DEF Settle, StagePlace, Rests, HandTypes
        <3>2. Tail(owed[s]) \in Seq(Stages)
            BY <3>1
        <3>3. pc' \in [Threads -> Labels]
            BY <1>0, <1>18, <3>1, LoopIs DEF Settle, HandTypes
        <3> QED
            BY <1>0, <1>18, <3>1, <3>2, <3>3 DEF Settle, HandTypes
    <2>4. MainTypes'
        BY <1>0, <1>18, RosAssumption DEF Settle, Goto, Loop, Add, MainTypes
    <2> QED
        BY <2>1, <2>2, <2>3, <2>4, TypeParts
<1>19. ASSUME NEW s \in Stages, Complete(s) PROVE RosTypeOK'
    <2>1. WireTypes'
        BY SMTT(30), <1>0, <1>19 DEF Complete, WireTypes
    <2>2. BookTypes'
        BY <1>0, <1>19, StatsTypes DEF Complete, BookTypes
    <2>3. HandTypes'
        <3>1. s \in Threads /\ "publish" \in Labels
            BY Names DEF Labels
        <3>2. pc' \in [Threads -> Labels]
            BY <1>0, <1>19, <3>1, GotoIs, LoopIs DEF Complete
        <3> QED
            BY <1>0, <1>19, <3>1, <3>2 DEF Complete, HandTypes
    <2>4. MainTypes'
        BY <1>0, <1>19, RosAssumption DEF Complete, Goto, Loop, MainTypes
    <2> QED
        BY <2>1, <2>2, <2>3, <2>4, TypeParts
<1>20. ASSUME NEW s \in Stages, Take(s) PROVE RosTypeOK'
    <2>1. WireTypes'
        BY <1>0, <1>20 DEF Take, Add, WireTypes
    <2>2. BookTypes'
        <3>1. [stats[s] EXCEPT !["arrivals"] = @ + 1] \in StatsType
            BY <1>0, StatsTypes DEF BookTypes
        <3> QED
            BY SMTT(30), <1>0, <1>20, <3>1 DEF Take, Add, BookTypes
    <2>3. HandTypes'
        <3>1. s \in Threads /\ "admit" \in Labels /\ "raise" \in Labels
            BY Names DEF Labels
        <3>2. Head(inq[s]) \in StampedJob
            BY <1>0, <1>20 DEF Take, WireTypes
        <3>3. pc' \in [Threads -> Labels]
            BY <1>0, <1>20, <3>1, GotoIs DEF Take
        <3> QED
            BY <1>0, <1>20, <3>1, <3>2, <3>3 DEF Take, HandTypes
    <2>4. MainTypes'
        BY <1>0, <1>20, RosAssumption DEF Take, Goto, Add, MainTypes
    <2> QED
        BY <2>1, <2>2, <2>3, <2>4, TypeParts
<1>21. ASSUME NEW s \in Stages, Publish(s) PROVE RosTypeOK'
    <2>1. WireTypes'
        <3>1. msg[s] \in StampedJob /\ Downstream[s] # <<>>
            BY <1>0, <1>21, HandIs DEF Publish, Busy, StagePlace
        <3>2. Head(Downstream[s]) \in Stages
            BY <3>1, Names
        <3>3. UNCHANGED <<published, linked, auditq>> /\ Deliver(Head(Downstream[s]), msg[s])
            BY <1>21 DEF Publish
        <3>4. ASSUME NEW d \in Stages, NEW m \in StampedJob, Deliver(d, m)
              PROVE  inq' \in [Stages -> Seq(StampedJob)] /\ lost' \subseteq Stages \X StampedJob
            BY SMTT(30), <1>0, <3>4, DeliverTypes
        <3> QED
            BY <1>0, <3>1, <3>2, <3>3, <3>4 DEF WireTypes
    <2>2. BookTypes'
        BY <1>0, <1>21, StatsTypes DEF Publish, Deliver, BookTypes
    <2>3. HandTypes'
        BY <1>0, <1>21, Names, GotoIs, LoopIs DEF Publish, Deliver, Labels, HandTypes
    <2>4. MainTypes'
        BY <1>0, <1>21, RosAssumption DEF Publish, Deliver, Goto, Loop, MainTypes
    <2> QED
        BY <2>1, <2>2, <2>3, <2>4, TypeParts
<1>22. ASSUME NEW t \in Streams, AuditTake(t) PROVE RosTypeOK'
    <2>1. WireTypes'
        BY SMTT(30), <1>0, <1>22 DEF AuditTake, WireTypes
    <2>2. BookTypes'
        BY <1>0, <1>22, StatsTypes DEF AuditTake, BookTypes
    <2>3. HandTypes'
        <3>1. Opportunities(t) \in Seq(Stages) /\ "audit" \in Threads /\ "offer" \in Labels
            BY Names, Paths DEF Opportunities, Labels
        <3>2. Head(auditq[t]) \in StampedJob
            BY <1>0, <1>22 DEF AuditTake, WireTypes
        <3>3. pc' \in [Threads -> Labels]
            BY <1>0, <1>22, <3>1, GotoIs, LoopIs DEF AuditTake
        <3> QED
            BY <1>0, <1>22, <3>1, <3>2, <3>3 DEF AuditTake, HandTypes
    <2>4. MainTypes'
        BY <1>0, <1>22, RosAssumption DEF AuditTake, Goto, Loop, MainTypes
    <2> QED
        BY <2>1, <2>2, <2>3, <2>4, TypeParts
<1>23. ASSUME AuditOffer PROVE RosTypeOK'
    <2>1. WireTypes'
        BY <1>0, <1>23 DEF AuditOffer, WireTypes
    <2>2. BookTypes'
        <3>1. Head(owed["audit"]) \in Stages /\ msg["audit"] \in StampedJob
            BY SMTT(30), <1>0, <1>23, AuditHand DEF AuditOffer
        <3>2. Offered(stats[Head(owed["audit"])], msg["audit"]) \in StatsType
            BY <1>0, <3>1, StatsTypes DEF BookTypes
        <3> QED
            BY <1>0, <1>23, <3>1, <3>2 DEF AuditOffer, BookTypes
    <2>3. HandTypes'
        <3>1. owed["audit"] \in Seq(Stages) /\ owed["audit"] # <<>> /\ "audit" \in Threads
            BY <1>0, <1>23, AuditHand, Names DEF AuditOffer
        <3>2. Tail(owed["audit"]) \in Seq(Stages)
            BY <3>1
        <3>3. pc' \in [Threads -> Labels]
            BY <1>0, <1>23, <3>1, LoopIs DEF AuditOffer, HandTypes
        <3> QED
            BY <1>0, <1>23, <3>1, <3>2, <3>3 DEF AuditOffer, HandTypes
    <2>4. MainTypes'
        BY <1>0, <1>23, RosAssumption DEF AuditOffer, Goto, Loop, MainTypes
    <2> QED
        BY <2>1, <2>2, <2>3, <2>4, TypeParts
<1>24. ASSUME Snapshot PROVE RosTypeOK'
    <2>1. WireTypes'
        BY <1>0, <1>24 DEF Snapshot, MainGoto, Quiet, NotMain, WireTypes
    <2>2. BookTypes'
        <3>1. SnapOrder[step] \in Stages
            BY <1>0, <1>24, Names DEF Snapshot, MainPlace, MainTypes
        <3>2. Line(SnapOrder[step]) \in LineType
            BY <1>0, <3>1 DEF Line, LineType, BookTypes, StatsType, ResolvedIn
        <3> QED
            BY <1>0, <1>24, <3>1, <3>2 DEF Snapshot, Quiet, NotMain, BookTypes
    <2>3. HandTypes'
        BY <1>0, <1>24 DEF Snapshot, MainGoto, Quiet, NotMain, HandTypes
    <2>4. MainTypes'
        <3>1. step' \in 1 .. Len(CancelOrder)
            BY <1>0, <1>24, Names DEF Snapshot, MainGoto, MainPlace, MainTypes
        <3> QED
            BY <1>0, <1>24, <3>1 DEF Snapshot, MainGoto, Quiet, NotMain, MainTypes
    <2> QED
        BY <2>1, <2>2, <2>3, <2>4, TypeParts
<1>25. ASSUME NEW t \in Streams, Generate(t) PROVE RosTypeOK'
    <2> DEFINE m == [job_id |-> Len(published[t]) + 1, source_ts |-> 0]
    <2>1. m \in StampedJob /\ Send(t, m)
        BY <1>0, <1>25 DEF Generate, StampedJob, WireTypes
    <2> HIDE DEF m
    <2> QED
        BY <1>0, <2>1, SendTypes
<1> QED
    BY <1>1, <1>2, <1>3, <1>4, <1>5, <1>6, <1>7, <1>8, <1>9, <1>10, <1>11, <1>12, <1>13,
       <1>14, <1>15, <1>16, <1>17, <1>18, <1>19, <1>20, <1>21, <1>22, <1>23, <1>24, <1>25
    DEF RosInv, RosStep, Thread, Stage, Audit, Main

-----------------------------------------------------------------------------
(* Where a message is                                                      *)

(* The rules of one stage: its thread, and its messages.                     *)
PlaceOf(s) ==
    /\ pc[s] # "offer" /\ (pc[s] = "publish" => Downstream[s] # <<>>)
    /\ pc[s] \notin Busy => msg[s] = None
    /\ IF pc[s] = "settle" THEN Measured(msg[s]) /\ owed[s] \in Rests(Downstream[s])
       ELSE owed[s] = <<>>
OnePlace(s) ==
    /\ IsInjective(inq[s]) /\ At(s) \subseteq ToSet(published[StreamOf(s)])
    /\ Queued(s) \cap InHand(s) = {}
    /\ (Queued(s) \cup InHand(s)) \cap LostAt(s) = {}
Apart(s, u) == StreamOf(u) = StreamOf(s) => At(u) \cap At(s) = {}
LostWasSent == \A p \in lost : p[2] \in ToSet(published[StreamOf(p[1])])
Books == \A s \in Stages : Balances(ResolvedIn(stats[s]), Sent(s), Open(s))
UnresolvedWhere ==
    \A m : /\ Unresolved("imu", m) <=> Near("imu", m)
           /\ Unresolved("vision", m) <=> Near("vision", m)
           /\ Unresolved("estimator", m) <=> \/ Near("vision", m) \/ Near("estimator", m)
                                             \/ Passing("vision", "estimator", m)
           /\ Unresolved("mapping", m) <=>
                  \/ Near("vision", m) \/ Near("estimator", m) \/ Near("mapping", m)
                  \/ Passing("vision", "mapping", m) \/ Passing("estimator", "mapping", m)

(* The invariants, stage by stage, now and after a step.                     *)
LEMMA InvParts ==
    /\ StagePlace <=> \A s \in Stages : PlaceOf(s)
    /\ AtOnePlace <=> /\ LostWasSent /\ \A s \in Stages : OnePlace(s)
                      /\ \A s \in Stages : \A u \in Stages \ {s} : Apart(s, u)
    /\ RosTypeOK => UnresolvedWhere /\ (Accounted <=> Books)
<1>1. StagePlace <=> \A s \in Stages : PlaceOf(s)
    BY DEF StagePlace, PlaceOf
<1>2. AtOnePlace <=> /\ LostWasSent /\ \A s \in Stages : OnePlace(s)
                     /\ \A s \in Stages : \A u \in Stages \ {s} : Apart(s, u)
    BY DEF AtOnePlace, LostWasSent, OnePlace, Apart
<1>3. RosTypeOK => UnresolvedWhere
    BY UnresolvedAt DEF UnresolvedWhere
<1>4. RosTypeOK => (Accounted <=> Books)
    BY AccountedBalances DEF Books
<1> QED
    BY <1>1, <1>2, <1>3, <1>4

(* And in the next state.                                                    *)
LEMMA InvPartsNext ==
    /\ StagePlace' <=> \A s \in Stages : PlaceOf(s)'
    /\ AtOnePlace' <=> /\ LostWasSent' /\ \A s \in Stages : OnePlace(s)'
                       /\ \A s \in Stages : \A u \in Stages \ {s} : Apart(s, u)'
    /\ RosTypeOK' => UnresolvedWhere' /\ (Accounted' <=> Books')
<1>1. StagePlace' <=> \A s \in Stages : PlaceOf(s)'
    BY DEF StagePlace, PlaceOf
<1>2. AtOnePlace' <=> /\ LostWasSent' /\ \A s \in Stages : OnePlace(s)'
                      /\ \A s \in Stages : \A u \in Stages \ {s} : Apart(s, u)'
    BY DEF AtOnePlace, LostWasSent, OnePlace, Apart
<1>3. RosTypeOK => UnresolvedWhere /\ (Accounted <=> Books)
    BY InvParts
<1>4. RosTypeOK' => UnresolvedWhere' /\ (Accounted' <=> Books')
    BY <1>3, PTL
<1> QED
    BY <1>1, <1>2, <1>4

(* Nothing happens to what the thread of stage s has in hand.                *)
Kept(s) ==
    /\ msg'[s] = msg[s] /\ owed'[s] = owed[s]
    /\ \/ pc'[s] = pc[s] \/ {pc[s], pc'[s]} \subseteq HandPlaces
       \/ {pc[s], pc'[s]} \cap (Busy \cup {"offer"}) = {}

(* A thread that keeps its message keeps its place.                          *)
LEMMA KeptIs ==
    ASSUME NEW s \in Stages, Kept(s), UNCHANGED input_mode
    PROVE  /\ PlaceOf(s) => PlaceOf(s)'
           /\ InHand(s)' = InHand(s)
           /\ \A m : (msg[s] = m /\ pc[s] \in HandPlaces)' <=> (msg[s] = m /\ pc[s] \in HandPlaces)
           /\ \A d, m : Passing(s, d, m)' <=> Passing(s, d, m)
<1>1. PlaceOf(s) => PlaceOf(s)'
    BY DEF Kept, PlaceOf, Busy, HandPlaces, Measured, External, InSourceWindow
<1>2. /\ InHand(s)' = InHand(s)
      /\ \A m : (msg[s] = m /\ pc[s] \in HandPlaces)' <=> (msg[s] = m /\ pc[s] \in HandPlaces)
      /\ \A d, m : Passing(s, d, m)' <=> Passing(s, d, m)
    BY DEF Kept, InHand, Passing, Busy, HandPlaces
<1> QED
    BY <1>1, <1>2

(* Nothing is sent.                                                          *)
LEMMA SentSame ==
    ASSUME UNCHANGED <<published, input_mode>>
    PROVE  \A s \in Stages : Sent(s)' = Sent(s)
BY DEF Sent, Measured, External, InSourceWindow

(* If every message stays where it is, every stage has the same left.        *)
LEMMA OpenSame ==
    ASSUME RosTypeOK, RosTypeOK', UNCHANGED <<published, input_mode>>,
           \A u \in Stages : \A m : Near(u, m)' <=> Near(u, m),
           \A u \in Stages : \A d, m : Passing(u, d, m)' <=> Passing(u, d, m)
    PROVE  \A s \in Stages : Open(s)' = Open(s)
<1>1. UnresolvedWhere /\ UnresolvedWhere'
    BY InvParts, InvPartsNext
<1>2. \A s \in Stages : \A m : Unresolved(s, m)' <=> Unresolved(s, m)
    BY <1>1, Paths DEF UnresolvedWhere
<1> QED
    BY <1>2, SentSame DEF Open

(* A step that moves no message and books none.                              *)
Undisturbed ==
    /\ UNCHANGED <<input_mode, published, inq, lost>>
    /\ \A s \in Stages : Kept(s) /\ ResolvedIn(stats'[s]) = ResolvedIn(stats[s])

(* Such a step keeps the places and the books.                               *)
LEMMA UndisturbedKeeps ==
    ASSUME RosInv, RosTypeOK', Undisturbed
    PROVE  StagePlace' /\ AtOnePlace' /\ Accounted'
<1>1. UNCHANGED <<input_mode, published, inq, lost>>
    BY DEF Undisturbed
<1>2. RosTypeOK /\ StagePlace /\ AtOnePlace /\ Accounted
    BY DEF RosInv
<1>3. \A s \in Stages : PlaceOf(s)'
    BY <1>1, <1>2, KeptIs, InvParts DEF Undisturbed
<1>4. \A s \in Stages : Queued(s)' = Queued(s) /\ LostAt(s)' = LostAt(s) /\ InHand(s)' = InHand(s)
    BY <1>1, KeptIs DEF Undisturbed, Queued, LostAt
<1>5. \A s \in Stages : At(s)' = At(s)
    BY <1>4 DEF At
<1>6. LostWasSent' /\ (\A s \in Stages : OnePlace(s)')
      /\ \A s \in Stages : \A u \in Stages \ {s} : Apart(s, u)'
    <2>1. LostWasSent'
        BY <1>1, <1>2, InvParts DEF LostWasSent
    <2>2. ASSUME NEW s \in Stages PROVE OnePlace(s)'
        BY <1>1, <1>2, <1>4, <1>5, InvParts DEF OnePlace
    <2>3. ASSUME NEW s \in Stages, NEW u \in Stages \ {s} PROVE Apart(s, u)'
        BY <1>2, <1>5, InvParts DEF Apart
    <2> QED
        BY <2>1, <2>2, <2>3
<1>7. /\ \A u \in Stages : \A m : Near(u, m)' <=> Near(u, m)
      /\ \A u \in Stages : \A d, m : Passing(u, d, m)' <=> Passing(u, d, m)
    <2>1. ASSUME NEW u \in Stages, NEW m PROVE Near(u, m)' <=> Near(u, m)
        BY <1>1, <1>4, KeptIs DEF Undisturbed, Near
    <2>2. ASSUME NEW u \in Stages, NEW d, NEW m PROVE Passing(u, d, m)' <=> Passing(u, d, m)
        BY <1>1, KeptIs DEF Undisturbed
    <2> QED
        BY <2>1, <2>2
<1>8. \A s \in Stages : Open(s)' = Open(s) /\ Sent(s)' = Sent(s)
    BY <1>1, <1>2, <1>7, OpenSame, SentSame
<1>9. Books'
    BY <1>2, <1>8, InvParts DEF Books, Undisturbed
<1> QED
    BY <1>3, <1>6, <1>9, InvPartsNext

(* The statistics of a job that starts, and of an offer.                     *)
LEMMA BookingIs ==
    ASSUME NEW st \in StatsType
    PROVE  /\ ResolvedIn(st) \in Nat
           /\ ResolvedIn([st EXCEPT !["arrivals"] = @ + 1]) = ResolvedIn(st)
           /\ ResolvedIn([st EXCEPT !["dropped"] = @ + 1]) = ResolvedIn(st) + 1
           /\ ResolvedIn([st EXCEPT !["upstream_dropped"] = @ + 1]) = ResolvedIn(st) + 1
           /\ ResolvedIn([st EXCEPT !.executed = @ + 1, !.active = TRUE]) = ResolvedIn(st)
           /\ ResolvedIn([st EXCEPT !.completed = @ + 1, !.active = FALSE]) = ResolvedIn(st) + 1
           /\ \A m : ResolvedIn(Offered(st, m)) = ResolvedIn(st)
<1> USE DEF StatsType, ResolvedIn
<1>1. ResolvedIn(st) \in Nat
    OBVIOUS
<1>2. ResolvedIn([st EXCEPT !["arrivals"] = @ + 1]) = ResolvedIn(st)
    OBVIOUS
<1>3. ResolvedIn([st EXCEPT !["dropped"] = @ + 1]) = ResolvedIn(st) + 1
    OBVIOUS
<1>4. ResolvedIn([st EXCEPT !["upstream_dropped"] = @ + 1]) = ResolvedIn(st) + 1
    OBVIOUS
<1>5. ResolvedIn([st EXCEPT !.executed = @ + 1, !.active = TRUE]) = ResolvedIn(st)
    OBVIOUS
<1>6. ResolvedIn([st EXCEPT !.completed = @ + 1, !.active = FALSE]) = ResolvedIn(st) + 1
    OBVIOUS
<1>7. \A m : ResolvedIn(Offered(st, m)) = ResolvedIn(st)
    BY DEF Offered
<1> QED
    BY <1>1, <1>2, <1>3, <1>4, <1>5, <1>6, <1>7

(* Most steps move no message: discovery, entering and leaving spin(), a job *)
(* that starts, the audit node, the contenders and main().                   *)
LEMMA UndisturbedSteps ==
    ASSUME RosInv, RosStep
    PROVE  \/ Undisturbed
           \/ \E t \in Streams : Generate(t)
           \/ \E s \in Stages : \/ Take(s) \/ Drop(s) \/ Settle(s) \/ Complete(s)
                                \/ Publish(s) \/ Throw(s)
<1>0. /\ HandTypes /\ BookTypes /\ AuditPlace /\ RosTypeOK
      /\ "audit" \in Threads /\ \A s \in Stages : s \in Threads /\ s # "audit"
    BY TypeParts, Names DEF RosInv
<1> USE DEF Busy, HandPlaces
<1>1. ASSUME NEW u \in Subscriptions, Link(u) PROVE Undisturbed
    BY <1>1 DEF Link, threads, Undisturbed, Kept
<1>2. ASSUME NEW t \in Threads, Enter(t) PROVE Undisturbed
    <2>1. pc[t] \notin Busy \cup {"offer"} /\ pc'[t] \notin Busy \cup {"offer"}
        BY <1>0, <1>2, GotoIs DEF Enter, Labels
    <2>2. \A u \in Threads \ {t} : pc'[u] = pc[u]
        BY <1>0, <1>2, GotoIs DEF Enter, Labels
    <2> QED
        BY <1>0, <1>2, <2>1, <2>2 DEF Enter, dds, Undisturbed, Kept
<1>3. ASSUME NEW t \in Threads, Interrupted(t) PROVE Undisturbed
    BY <1>0, <1>3, LoopIs DEF Interrupted, dds, Undisturbed, Kept
<1>4. ASSUME NEW t \in Threads, Catch(t) PROVE Undisturbed
    <2>1. pc[t] \notin Busy \cup {"offer"} /\ pc'[t] \notin Busy \cup {"offer"}
        BY <1>0, <1>4, GotoIs DEF Catch, Labels
    <2>2. \A u \in Threads \ {t} : pc'[u] = pc[u]
        BY <1>0, <1>4, GotoIs DEF Catch, Labels
    <2> QED
        BY <1>0, <1>4, <2>1, <2>2 DEF Catch, dds, Undisturbed, Kept
<1>5. ASSUME NEW h \in Hogs, HogEnds(h) PROVE Undisturbed
    BY <1>5 DEF HogEnds, dds, threads, Undisturbed, Kept
<1>6. ASSUME NEW h \in Hogs, HogFails(h) PROVE Undisturbed
    BY <1>6 DEF HogFails, dds, threads, Undisturbed, Kept
<1>7. ASSUME Main PROVE Undisturbed
    BY <1>7 DEF Main, Connect, ConnectFails, JoinGenerators, WindowOpens, WindowTimesOut,
       Snapshot, StopHogs, Cancel, Finish, Quiet, NotMain, dds, Undisturbed, Kept
<1>8. ASSUME NEW s \in Stages, Begin(s) PROVE Undisturbed
    <2>1. pc'[s] = "work" /\ \A u \in Threads \ {s} : pc'[u] = pc[u]
        BY <1>0, <1>8, GotoIs DEF Begin, Labels
    <2>2. \A u \in Stages : ResolvedIn(stats'[u]) = ResolvedIn(stats[u])
        <3>1. stats[s] \in StatsType
            BY <1>0 DEF BookTypes
        <3> QED
            BY <1>0, <1>8, <3>1, BookingIs DEF Begin, BookTypes
    <2> QED
        BY <1>0, <1>8, <2>1, <2>2 DEF Begin, dds, Undisturbed, Kept
<1>9. ASSUME NEW t \in Streams, AuditTake(t) PROVE Undisturbed
    <2>1. \A u \in Stages : pc'[u] = pc[u]
        BY <1>0, <1>9, GotoIs, LoopIs DEF AuditTake, Labels
    <2>2. \A u \in Stages : msg'[u] = msg[u] /\ owed'[u] = owed[u]
        BY <1>0, <1>9 DEF AuditTake, HandTypes
    <2> QED
        BY <1>9, <2>1, <2>2 DEF AuditTake, Undisturbed, Kept
<1>10. ASSUME AuditOffer PROVE Undisturbed
    <2>1. \A u \in Stages : pc'[u] = pc[u]
        BY <1>0, <1>10, LoopIs DEF AuditOffer
    <2>2. \A u \in Stages : msg'[u] = msg[u] /\ owed'[u] = owed[u]
        BY <1>0, <1>10 DEF AuditOffer, HandTypes
    <2>3. \A u \in Stages : ResolvedIn(stats'[u]) = ResolvedIn(stats[u])
        <3>1. \A u \in Stages : stats[u] \in StatsType
            BY <1>0 DEF BookTypes
        <3>2. \A u \in Stages : stats'[u] = stats[u] \/ stats'[u] = Offered(stats[u], msg["audit"])
            BY <1>0, <1>10 DEF AuditOffer, BookTypes
        <3>3. ASSUME NEW u \in Stages PROVE ResolvedIn(stats'[u]) = ResolvedIn(stats[u])
            <4>1. ResolvedIn(Offered(stats[u], msg["audit"])) = ResolvedIn(stats[u])
                BY <3>1, BookingIs
            <4> QED
                BY SMTT(30), <3>2, <4>1
        <3> QED
            BY <3>3
    <2> QED
        BY <1>10, <2>1, <2>2, <2>3 DEF AuditOffer, dds, Undisturbed, Kept
<1> QED
    BY <1>1, <1>2, <1>3, <1>4, <1>5, <1>6, <1>7, <1>8, <1>9, <1>10
    DEF RosInv, RosStep, Thread, Stage, Audit

(* The step of one stage: its messages move on, those of the others stay.    *)
LEMMA OneStage ==
    ASSUME RosInv, NEW s \in Stages, UNCHANGED <<published, input_mode>>,
           \A u \in Stages \ {s} : Kept(u) /\ inq'[u] = inq[u],
           lost \subseteq lost',
           \A p \in lost' : p \in lost \/ (p[1] = s /\ p[2] \in ToSet(published[StreamOf(s)])),
           PlaceOf(s)', OnePlace(s)', At(s)' \subseteq At(s)
    PROVE  /\ StagePlace' /\ AtOnePlace'
           /\ \A u \in Stages \ {s} : /\ \A m : Near(u, m)' <=> Near(u, m)
                                      /\ \A d, m : Passing(u, d, m)' <=> Passing(u, d, m)
<1>0. /\ \A u \in Stages : PlaceOf(u) /\ OnePlace(u)
      /\ LostWasSent /\ \A d \in Stages : \A u \in Stages \ {d} : Apart(d, u)
    BY InvParts DEF RosInv
<1>1. \A u \in Stages \ {s} : \A m : <<u, m>> \in lost' <=> <<u, m>> \in lost
    OBVIOUS
<1>2. \A u \in Stages \ {s} : /\ Queued(u)' = Queued(u) /\ LostAt(u)' = LostAt(u)
                              /\ InHand(u)' = InHand(u) /\ PlaceOf(u)'
    BY <1>0, <1>1, KeptIs DEF Queued, LostAt
<1>3. \A u \in Stages \ {s} : At(u)' = At(u) /\ OnePlace(u)'
    BY <1>0, <1>2 DEF At, OnePlace
<1>4. \A d \in Stages : \A u \in Stages \ {d} : Apart(d, u)'
    <2>1. \A u \in Stages : At(u)' \subseteq At(u)
        BY <1>3
    <2> SUFFICES ASSUME NEW d \in Stages, NEW u \in Stages \ {d} PROVE Apart(d, u)'
        OBVIOUS
    <2>2. StreamOf(u) = StreamOf(d) => At(u)' \cap At(d)' = {}
        BY <1>0, <2>1 DEF Apart
    <2> QED
        BY <2>2 DEF Apart
<1>5. LostWasSent'
    BY <1>0 DEF LostWasSent
<1>6. StagePlace' /\ AtOnePlace'
    BY <1>2, <1>3, <1>4, <1>5, InvPartsNext
<1>7. ASSUME NEW u \in Stages \ {s}, NEW m PROVE Near(u, m)' <=> Near(u, m)
    BY <1>1, <1>2, KeptIs DEF Near
<1>8. ASSUME NEW u \in Stages \ {s}, NEW d, NEW m PROVE Passing(u, d, m)' <=> Passing(u, d, m)
    BY KeptIs
<1> QED
    BY <1>6, <1>7, <1>8

(* A message in hand is nowhere else.                                        *)
LEMMA InHandOnly ==
    ASSUME RosInv, NEW s \in Stages, pc[s] \in Busy
    PROVE  /\ msg[s] \notin Queued(s) /\ <<s, msg[s]>> \notin lost
           /\ msg[s] \in ToSet(published[StreamOf(s)]) /\ msg[s] \in StampedJob
           /\ \A u \in Stages \ {s} :
                  StreamOf(u) = StreamOf(s) =>
                      ~ Near(u, msg[s]) /\ \A d : ~ Passing(u, d, msg[s])
<1>0. RosTypeOK /\ AtOnePlace /\ OnePlace(s) /\ \A u \in Stages \ {s} : Apart(s, u)
    BY InvParts DEF RosInv
<1>1. msg[s] \in ToSet(published[StreamOf(s)]) /\ msg[s] \in StampedJob
    BY <1>0, HandIs
<1>2. msg[s] \in InHand(s) /\ msg[s] \notin Queued(s) /\ msg[s] \notin LostAt(s) /\ msg[s] \in At(s)
    BY <1>0 DEF InHand, OnePlace, At
<1>3. <<s, msg[s]>> \notin lost
    BY <1>1, <1>2 DEF LostAt
<1>4. ASSUME NEW u \in Stages \ {s}, StreamOf(u) = StreamOf(s)
      PROVE  ~ Near(u, msg[s]) /\ \A d : ~ Passing(u, d, msg[s])
    <2>1. msg[s] \notin Queued(u) /\ msg[s] \notin InHand(u) /\ msg[s] \notin LostAt(u)
        BY <1>0, <1>2, <1>4 DEF Apart, At
    <2>2. <<u, msg[s]>> \notin lost
        BY <1>1, <1>4, <2>1 DEF LostAt
    <2>3. ~ (msg[u] = msg[s] /\ pc[u] \in Busy)
        BY <2>1 DEF InHand
    <2> QED
        BY <2>1, <2>2, <2>3 DEF Near, Passing, Busy, HandPlaces
<1> QED
    BY <1>1, <1>2, <1>3, <1>4

(* What was booked is what is accounted for.                                 *)
LEMMA ResolveOne ==
    ASSUME RosInv, RosTypeOK', UNCHANGED <<published, input_mode>>,
           NEW s \in Stages, NEW m \in Sent(s), Unresolved(s, m),
           \A x : Unresolved(s, x)' <=> Unresolved(s, x) /\ x # m,
           \A d \in Stages \ {s} : \A x : Unresolved(d, x)' <=> Unresolved(d, x),
           ResolvedIn(stats'[s]) = ResolvedIn(stats[s]) + 1,
           \A d \in Stages \ {s} : ResolvedIn(stats'[d]) = ResolvedIn(stats[d])
    PROVE  Accounted'
<1>1. Books
    BY InvParts DEF RosInv
<1>2. \A d \in Stages : Sent(d)' = Sent(d)
    BY SentSame
<1>3. m \in Open(s) /\ Open(s)' = Open(s) \ {m} /\ \A d \in Stages \ {s} : Open(d)' = Open(d)
    BY <1>2 DEF Open
<1>4. Balances(ResolvedIn(stats[s]) + 1, Sent(s), Open(s) \ {m})
    BY <1>1, <1>3, BalanceResolve DEF Books
<1>5. ASSUME NEW d \in Stages PROVE Balances(ResolvedIn(stats'[d]), Sent(d)', Open(d)')
    <2>1. CASE d = s
        BY <1>2, <1>3, <1>4, <2>1
    <2>2. CASE d # s
        BY <1>1, <1>2, <1>3, <2>2 DEF Books
    <2> QED
        BY <2>1, <2>2
<1>6. Books'
    BY <1>5 DEF Books
<1> QED
    BY <1>6, InvPartsNext

(* Nothing is resolved and nothing is booked.                                *)
LEMMA ResolveNone ==
    ASSUME RosInv, RosTypeOK', UNCHANGED <<published, input_mode>>,
           \A d \in Stages : \A x \in Sent(d) : Unresolved(d, x)' <=> Unresolved(d, x),
           \A d \in Stages : ResolvedIn(stats'[d]) = ResolvedIn(stats[d])
    PROVE  Accounted'
<1>1. Books
    BY InvParts DEF RosInv
<1>2. \A d \in Stages : Sent(d)' = Sent(d)
    BY SentSame
<1>3. \A d \in Stages : Open(d)' = Open(d)
    BY <1>2 DEF Open
<1>4. Books'
    BY <1>1, <1>2, <1>3 DEF Books
<1> QED
    BY <1>4, InvPartsNext

(* A message that is taken, or whose processing fails, is still unresolved.  *)
LEMMA TakeFlow ==
    ASSUME RosInv, RosTypeOK', NEW s \in Stages, Take(s)
    PROVE  StagePlace' /\ AtOnePlace' /\ Accounted'
<1> DEFINE m == Head(inq[s])
<1>0. /\ RosTypeOK /\ HandTypes /\ WireTypes /\ PlaceOf(s) /\ OnePlace(s) /\ s \in Threads
      /\ UNCHANGED <<published, input_mode, owed>> /\ pc[s] = "wait"
    BY TypeParts, Names, InvParts DEF RosInv, Take
<1>1. inq' = [inq EXCEPT ![s] = Tail(@)] /\ inq[s] \in Seq(StampedJob) /\ inq[s] # <<>>
    BY <1>0 DEF Take, WireTypes
<1>2. /\ Queued(s)' = Queued(s) \ {m} /\ m \in Queued(s) /\ IsInjective(inq'[s])
      /\ m \in ToSet(published[StreamOf(s)]) /\ <<s, m>> \notin lost
    <2>1. /\ ToSet(Tail(inq[s])) = ToSet(inq[s]) \ {m} /\ IsInjective(Tail(inq[s]))
          /\ m \in Queued(s)
        BY <1>0, <1>1, TailElements DEF OnePlace, Queued
    <2>2. inq'[s] = Tail(inq[s])
        BY <1>0, <1>1 DEF WireTypes
    <2>3. m \in At(s) /\ m \notin LostAt(s)
        BY <1>0, <2>1 DEF At, OnePlace
    <2>4. m \in ToSet(published[StreamOf(s)])
        BY <1>0, <2>3 DEF OnePlace
    <2> QED
        BY <2>1, <2>2, <2>3, <2>4 DEF Queued, LostAt
<1>3. /\ \/ pc'[s] = "admit" /\ msg'[s] = m /\ UNCHANGED lost
         \/ pc'[s] = "raise" /\ UNCHANGED msg /\ lost' = lost \cup {<<s, m>>}
      /\ \A u \in Stages \ {s} : pc'[u] = pc[u] /\ msg'[u] = msg[u] /\ inq'[u] = inq[u]
    <2>1. /\ \A u \in Stages \ {s} : inq'[u] = inq[u]
          /\ "admit" \in Labels /\ "raise" \in Labels /\ \A u \in Stages : u \in Threads
        BY <1>0, <1>1, Names DEF WireTypes, Labels
    <2>2. CASE msg' = [msg EXCEPT ![s] = m] /\ Goto(s, "admit") /\ UNCHANGED lost
        <3>1. msg'[s] = m /\ \A u \in Stages \ {s} : msg'[u] = msg[u]
            BY <1>0, <2>1, <2>2 DEF HandTypes
        <3>2. pc'[s] = "admit" /\ \A u \in Stages \ {s} : pc'[u] = pc[u]
            BY <1>0, <2>1, <2>2, GotoIs
        <3> QED
            BY <2>1, <2>2, <3>1, <3>2
    <2>3. CASE UNCHANGED msg /\ Goto(s, "raise") /\ lost' = lost \cup {<<s, m>>}
        <3>2. pc'[s] = "raise" /\ \A u \in Stages \ {s} : pc'[u] = pc[u]
            BY <1>0, <2>1, <2>3, GotoIs
        <3> QED
            BY <2>1, <2>3, <3>2
    <2> QED
        BY <2>2, <2>3 DEF Take
<1> HIDE DEF m
<1>4. \A u \in Stages \ {s} : Kept(u) /\ inq'[u] = inq[u]
    BY <1>0, <1>3 DEF Kept
<1>5. PlaceOf(s)'
    BY <1>0, <1>3 DEF PlaceOf, Busy
<1>6. /\ InHand(s) = {} /\ InHand(s)' = (IF pc'[s] = "admit" THEN {m} ELSE {})
      /\ LostAt(s)' = IF pc'[s] = "admit" THEN LostAt(s) ELSE LostAt(s) \cup {m}
    BY <1>0, <1>2, <1>3 DEF InHand, LostAt, Busy
<1>7. OnePlace(s)' /\ At(s)' \subseteq At(s)
    BY <1>0, <1>2, <1>6 DEF OnePlace, At
<1>8. \A x : Near(s, x)' <=> Near(s, x)
    BY <1>0, <1>2, <1>3 DEF Near, HandPlaces
<1>9. \A d, x : Passing(s, d, x)' <=> Passing(s, d, x)
    BY <1>0, <1>3 DEF Passing
<1>10. /\ StagePlace' /\ AtOnePlace'
       /\ \A u \in Stages \ {s} : /\ \A x : Near(u, x)' <=> Near(u, x)
                                  /\ \A d, x : Passing(u, d, x)' <=> Passing(u, d, x)
    <2>1. /\ lost \subseteq lost'
          /\ \A p \in lost' : p \in lost \/ (p[1] = s /\ p[2] \in ToSet(published[StreamOf(s)]))
        BY <1>2, <1>3
    <2> QED
        BY <1>0, <1>4, <1>5, <1>7, <2>1, OneStage
<1>11. \A d \in Stages : Open(d)' = Open(d) /\ Sent(d)' = Sent(d)
    <2>1. /\ \A u \in Stages : \A x : Near(u, x)' <=> Near(u, x)
          /\ \A u \in Stages : \A d, x : Passing(u, d, x)' <=> Passing(u, d, x)
        BY <1>8, <1>9, <1>10
    <2> QED
        BY <1>0, <2>1, OpenSame, SentSame
<1>12. \A d \in Stages : ResolvedIn(stats'[d]) = ResolvedIn(stats[d])
    <2>1. stats[s] \in StatsType /\ stats \in [Stages -> StatsType]
        BY SMTT(30), <1>0 DEF RosTypeOK
    <2>2. ResolvedIn([stats[s] EXCEPT !["arrivals"] = @ + 1]) = ResolvedIn(stats[s])
        BY <2>1, BookingIs
    <2>3. UNCHANGED stats \/ stats' = [stats EXCEPT ![s] = [stats[s] EXCEPT !["arrivals"] = @ + 1]]
        BY <2>1 DEF Take, Add
    <2> QED
        BY <2>1, <2>2, <2>3
<1>13. Books'
    BY <1>0, <1>11, <1>12, InvParts DEF Books, RosInv
<1> QED
    BY <1>10, <1>13, InvPartsNext

(* A call throws: the message in hand is lost.                               *)
LEMMA ThrowFlow ==
    ASSUME RosInv, RosTypeOK', NEW s \in Stages, Throw(s)
    PROVE  StagePlace' /\ AtOnePlace' /\ Accounted'
<1> DEFINE m == msg[s]
<1>0. /\ RosTypeOK /\ HandTypes /\ PlaceOf(s) /\ OnePlace(s) /\ s \in Threads
      /\ UNCHANGED <<published, input_mode, owed, inq, stats>> /\ pc[s] \in HandPlaces
      /\ lost' = lost \cup {<<s, m>>}
    BY TypeParts, Names, InvParts DEF RosInv, Throw, HandPlaces, dds
<1>1. /\ pc'[s] = "raise" /\ msg'[s] = None
      /\ \A u \in Stages \ {s} : pc'[u] = pc[u] /\ msg'[u] = msg[u]
    <2>1. "raise" \in Labels /\ \A u \in Stages : u \in Threads
        BY Names DEF Labels
    <2>2. pc'[s] = "raise" /\ \A u \in Stages \ {s} : pc'[u] = pc[u]
        BY <1>0, <2>1, GotoIs DEF Throw
    <2>3. msg'[s] = None /\ \A u \in Stages \ {s} : msg'[u] = msg[u]
        BY <1>0, <2>1 DEF HandTypes, Throw
    <2> QED
        BY <2>2, <2>3
<1>2. m \notin Queued(s) /\ m \in ToSet(published[StreamOf(s)]) /\ m \in StampedJob
    BY <1>0, InHandOnly DEF Busy, HandPlaces
<1> HIDE DEF m
<1>4. \A u \in Stages \ {s} : Kept(u) /\ inq'[u] = inq[u]
    BY <1>0, <1>1 DEF Kept
<1>5. PlaceOf(s)'
    BY <1>0, <1>1 DEF PlaceOf, Busy, HandPlaces
<1>6. /\ InHand(s) = {m} /\ InHand(s)' = {} /\ LostAt(s)' = LostAt(s) \cup {m}
      /\ Queued(s)' = Queued(s)
    BY <1>0, <1>1, <1>2 DEF InHand, LostAt, Busy, HandPlaces, Queued, m
<1>7. OnePlace(s)' /\ At(s)' \subseteq At(s)
    BY <1>0, <1>2, <1>6 DEF OnePlace, At
<1>8. \A x : Near(s, x)' <=> Near(s, x)
    BY <1>0, <1>1, <1>6 DEF Near, HandPlaces, m
<1>9. \A d, x : Passing(s, d, x)' <=> Passing(s, d, x)
    BY <1>0, <1>1 DEF Passing, HandPlaces
<1>10. /\ StagePlace' /\ AtOnePlace'
       /\ \A u \in Stages \ {s} : /\ \A x : Near(u, x)' <=> Near(u, x)
                                  /\ \A d, x : Passing(u, d, x)' <=> Passing(u, d, x)
    <2>1. /\ lost \subseteq lost'
          /\ \A p \in lost' : p \in lost \/ (p[1] = s /\ p[2] \in ToSet(published[StreamOf(s)]))
        BY <1>0, <1>2
    <2> QED
        BY <1>0, <1>4, <1>5, <1>7, <2>1, OneStage
<1>11. \A d \in Stages : Open(d)' = Open(d) /\ Sent(d)' = Sent(d)
    <2>1. /\ \A u \in Stages : \A x : Near(u, x)' <=> Near(u, x)
          /\ \A u \in Stages : \A d, x : Passing(u, d, x)' <=> Passing(u, d, x)
        BY <1>8, <1>9, <1>10
    <2> QED
        BY <1>0, <2>1, OpenSame, SentSame
<1>12. Books'
    BY <1>0, <1>11, InvParts DEF Books, RosInv
<1> QED
    BY <1>10, <1>12, InvPartsNext

(* A thread that has nothing more to do with its message.                    *)
LEMMA LetGo ==
    ASSUME RosTypeOK, NEW s \in Stages, Loop(s), msg' = [msg EXCEPT ![s] = None]
    PROVE  /\ pc'[s] \in {"wait", "gone", "raise"} /\ msg'[s] = None
           /\ \A u \in Stages \ {s} : pc'[u] = pc[u] /\ msg'[u] = msg[u]
<1>1. HandTypes /\ \A u \in Stages : u \in Threads
    BY TypeParts, Names
<1>2. pc'[s] \in {"wait", "gone", "raise"} /\ \A u \in Stages \ {s} : pc'[u] = pc[u]
    BY <1>1, LoopIs
<1>3. msg'[s] = None /\ \A u \in Stages \ {s} : msg'[u] = msg[u]
    BY <1>1 DEF HandTypes
<1> QED
    BY <1>2, <1>3

(* A message ends at stage s; what it means downstream is still to be done.  *)
LEMMA PassOn ==
    ASSUME RosInv, RosTypeOK', NEW s \in Stages, pc[s] \in HandPlaces,
           UNCHANGED <<published, input_mode>>,
           \A x : Near(s, x)' <=> Near(s, x) /\ x # msg[s],
           \A d \in Stages : \A x : s \in Before(d) => (Passing(s, d, x)' <=> x = msg[s]),
           \A u \in Stages \ {s} : /\ \A x : Near(u, x)' <=> Near(u, x)
                                   /\ \A d, x : Passing(u, d, x)' <=> Passing(u, d, x)
    PROVE  /\ Unresolved(s, msg[s])
           /\ \A x : Unresolved(s, x)' <=> Unresolved(s, x) /\ x # msg[s]
           /\ \A d \in Stages \ {s} : \A x : Unresolved(d, x)' <=> Unresolved(d, x)
<1>1. UnresolvedWhere /\ UnresolvedWhere'
    BY InvParts, InvPartsNext DEF RosInv
<1>2. /\ Near(s, msg[s]) /\ \A d, x : ~ Passing(s, d, x)
      /\ \A u \in Stages \ {s} : StreamOf(u) = StreamOf(s) =>
             ~ Near(u, msg[s]) /\ \A d : ~ Passing(u, d, msg[s])
    BY InHandOnly DEF Near, Passing, HandPlaces, Busy
<1>3. CASE s = "imu"
    BY <1>1, <1>2, <1>3, Paths DEF UnresolvedWhere
<1>4. CASE s = "vision"
    BY <1>1, <1>2, <1>4, Paths DEF UnresolvedWhere
<1>5. CASE s = "estimator"
    BY <1>1, <1>2, <1>5, Paths DEF UnresolvedWhere
<1>6. CASE s = "mapping"
    BY <1>1, <1>2, <1>6, Paths DEF UnresolvedWhere
<1> QED
    BY <1>3, <1>4, <1>5, <1>6, Paths

(* A step that only concerns what stage s has in hand.                       *)
LEMMA HandStep ==
    ASSUME RosInv, NEW s \in Stages, UNCHANGED <<published, input_mode, inq, lost>>,
           \A u \in Stages \ {s} : msg'[u] = msg[u] /\ pc'[u] = pc[u] /\ owed'[u] = owed[u],
           PlaceOf(s)', InHand(s)' \subseteq InHand(s)
    PROVE  /\ StagePlace' /\ AtOnePlace'
           /\ \A u \in Stages \ {s} : /\ \A m : Near(u, m)' <=> Near(u, m)
                                      /\ \A d, m : Passing(u, d, m)' <=> Passing(u, d, m)
<1>1. \A u \in Stages \ {s} : Kept(u) /\ inq'[u] = inq[u]
    BY DEF Kept
<1>2. OnePlace(s) /\ Queued(s)' = Queued(s) /\ LostAt(s)' = LostAt(s)
    BY InvParts DEF RosInv, Queued, LostAt
<1>3. OnePlace(s)' /\ At(s)' \subseteq At(s)
    BY <1>2 DEF OnePlace, At
<1> QED
    BY <1>1, <1>3, OneStage

(* A job that completes is booked, and goes on or leaves the stage.          *)
LEMMA CompleteFlow ==
    ASSUME RosInv, RosTypeOK', NEW s \in Stages, Complete(s)
    PROVE  StagePlace' /\ AtOnePlace' /\ Accounted'
<1>0. /\ RosTypeOK /\ HandTypes /\ PlaceOf(s) /\ s \in Threads /\ pc[s] = "work"
      /\ UNCHANGED <<published, input_mode, inq, lost, owed>>
    BY TypeParts, Names, InvParts DEF RosInv, Complete, dds
<1>1. /\ IF Downstream[s] # <<>> THEN pc'[s] = "publish" /\ msg'[s] = msg[s]
         ELSE pc'[s] \in {"wait", "gone", "raise"} /\ msg'[s] = None
      /\ \A u \in Stages \ {s} : pc'[u] = pc[u] /\ msg'[u] = msg[u]
    <2>1. "publish" \in Labels /\ \A u \in Stages : u \in Threads
        BY Names DEF Labels
    <2>2. CASE Downstream[s] # <<>>
        BY <1>0, <2>1, <2>2, GotoIs DEF Complete
    <2>3. CASE Downstream[s] = <<>>
        BY <1>0, <2>3, LetGo DEF Complete
    <2> QED
        BY <2>2, <2>3
<1>2. PlaceOf(s)' /\ InHand(s)' \subseteq InHand(s)
    BY <1>0, <1>1 DEF PlaceOf, Busy, InHand
<1>3. /\ StagePlace' /\ AtOnePlace'
      /\ \A u \in Stages \ {s} : /\ \A m : Near(u, m)' <=> Near(u, m)
                                 /\ \A d, m : Passing(u, d, m)' <=> Passing(u, d, m)
    BY <1>0, <1>1, <1>2, HandStep
<1>4. msg[s] \notin Queued(s) /\ <<s, msg[s]>> \notin lost
      /\ msg[s] \in ToSet(published[StreamOf(s)])
    BY <1>0, InHandOnly DEF Busy
<1>5. \A x : Near(s, x)' <=> Near(s, x) /\ x # msg[s]
    BY <1>0, <1>1, <1>4 DEF Near, HandPlaces, Queued
<1>6. \A d \in Stages : \A x : s \in Before(d) => (Passing(s, d, x)' <=> x = msg[s])
    <2>1. (\E d \in Stages : s \in Before(d)) => Downstream[s] # <<>>
        BY Paths
    <2> QED
        BY <1>0, <1>1, <2>1 DEF Passing
<1>7. /\ Unresolved(s, msg[s])
      /\ \A x : Unresolved(s, x)' <=> Unresolved(s, x) /\ x # msg[s]
      /\ \A d \in Stages \ {s} : \A x : Unresolved(d, x)' <=> Unresolved(d, x)
    BY <1>0, <1>3, <1>5, <1>6, PassOn DEF HandPlaces
<1>8. Accounted'
    <2>1. stats \in [Stages -> StatsType]
        BY <1>0 DEF RosTypeOK
    <2>2. CASE InWindow(s)
        <3>1. msg[s] \in Sent(s)
            BY <1>4, <2>2 DEF Sent, InWindow
        <3>2. /\ ResolvedIn(stats'[s]) = ResolvedIn(stats[s]) + 1
              /\ \A d \in Stages \ {s} : ResolvedIn(stats'[d]) = ResolvedIn(stats[d])
            <4> DEFINE st == [stats[s] EXCEPT !.completed = @ + 1, !.active = FALSE]
            <4>1. ResolvedIn(st) = ResolvedIn(stats[s]) + 1
                BY <2>1, BookingIs
            <4>2. stats' = [stats EXCEPT ![s] = st]
                BY <2>1, <2>2 DEF Complete
            <4> HIDE DEF st
            <4> QED
                BY SMTT(30), <2>1, <4>1, <4>2
        <3> QED
            BY <1>0, <1>7, <3>1, <3>2, ResolveOne
    <2>3. CASE ~ InWindow(s)
        <3>1. msg[s] \notin Sent(s) /\ UNCHANGED stats
            BY <2>3 DEF Sent, InWindow, Complete
        <3>2. \A d \in Stages : \A x \in Sent(d) : Unresolved(d, x)' <=> Unresolved(d, x)
            BY <1>7, <3>1
        <3> QED
            BY <1>0, <3>1, <3>2, ResolveNone
    <2> QED
        BY <2>2, <2>3
<1> QED
    BY <1>3, <1>8

(* What is owed after a drop.                                                *)
LEMMA OwedIs ==
    ASSUME NEW s \in Stages
    PROVE  /\ \A d \in Stages : Contains(OwedBy(s), d) <=> s \in Before(d)
           /\ Downstream[s] # <<>> => OwedBy(s) \in Rests(Downstream[s])
<1>1. \A d \in Stages : Contains(OwedBy(s), d) <=> s \in Before(d)
    BY DEF OwedBy, Before
<1>2. Downstream[s] # <<>> => OwedBy(s) \in Rests(Downstream[s])
    <2>1. Rests(<<"mapping">>) = {<<"mapping">>}
        BY RestsAre
    <2>2. Rests(<<"estimator", "mapping">>) = {<<"estimator", "mapping">>, <<"mapping">>}
        BY RestsAre
    <2> QED
        BY <2>1, <2>2, Paths DEF OwedBy
<1> QED
    BY <1>1, <1>2

(* A drop is booked, and owed to the stages downstream.                      *)
LEMMA DropFlow ==
    ASSUME RosInv, RosTypeOK', NEW s \in Stages, Drop(s)
    PROVE  StagePlace' /\ AtOnePlace' /\ Accounted'
<1>0. /\ RosTypeOK /\ HandTypes /\ PlaceOf(s) /\ s \in Threads /\ pc[s] = "admit"
      /\ UNCHANGED <<published, input_mode, inq, lost>> /\ Downstream[s] # <<>>
    <2>1. Downstream[s] # <<>> /\ pc[s] = "admit"
        BY Paths DEF Drop, reject_expired
    <2> QED
        BY <2>1, TypeParts, Names, InvParts DEF RosInv, Drop, dds
<1>1. /\ IF InWindow(s)
         THEN pc'[s] = "settle" /\ msg'[s] = msg[s] /\ owed'[s] = OwedBy(s)
         ELSE pc'[s] \in {"wait", "gone", "raise"} /\ msg'[s] = None /\ owed'[s] = owed[s]
      /\ \A u \in Stages \ {s} : pc'[u] = pc[u] /\ msg'[u] = msg[u] /\ owed'[u] = owed[u]
    <2>1. "settle" \in Labels /\ \A u \in Stages : u \in Threads
        BY Names DEF Labels
    <2>2. CASE InWindow(s)
        <3>1. pc'[s] = "settle" /\ \A u \in Stages \ {s} : pc'[u] = pc[u]
            BY <1>0, <2>1, <2>2, GotoIs DEF Drop
        <3>2. owed'[s] = OwedBy(s) /\ \A u \in Stages \ {s} : owed'[u] = owed[u]
            BY <1>0, <2>1, <2>2 DEF Drop, HandTypes
        <3> QED
            BY <2>2, <3>1, <3>2 DEF Drop
    <2>3. CASE ~ InWindow(s)
        BY <1>0, <2>3, LetGo DEF Drop
    <2> QED
        BY <2>2, <2>3
<1>2. PlaceOf(s)' /\ InHand(s)' \subseteq InHand(s)
    <2>1. InHand(s)' \subseteq InHand(s)
        BY <1>0, <1>1 DEF Busy, InHand
    <2>2. CASE InWindow(s)
        <3>1. pc'[s] = "settle" /\ msg'[s] = msg[s] /\ owed'[s] = OwedBy(s)
            BY <1>1, <2>2
        <3>2. Measured(msg[s])'
            BY <1>0, <2>2, <3>1 DEF InWindow, Measured, External, InSourceWindow
        <3>3. owed'[s] \in Rests(Downstream[s])
            BY <1>0, <3>1, OwedIs
        <3> QED
            BY <2>1, <3>1, <3>2, <3>3 DEF PlaceOf, Busy
    <2>3. CASE ~ InWindow(s)
        <3>1. pc'[s] \in {"wait", "gone", "raise"} /\ msg'[s] = None /\ owed'[s] = owed[s]
            BY <1>1, <2>3
        <3> QED
            BY <1>0, <2>1, <3>1 DEF PlaceOf, Busy
    <2> QED
        BY <2>1, <2>2, <2>3
<1>3. /\ StagePlace' /\ AtOnePlace'
      /\ \A u \in Stages \ {s} : /\ \A m : Near(u, m)' <=> Near(u, m)
                                 /\ \A d, m : Passing(u, d, m)' <=> Passing(u, d, m)
    BY <1>0, <1>1, <1>2, HandStep
<1>4. msg[s] \notin Queued(s) /\ <<s, msg[s]>> \notin lost
      /\ msg[s] \in ToSet(published[StreamOf(s)])
    BY <1>0, InHandOnly DEF Busy
<1>5. \A x : Near(s, x)' <=> Near(s, x) /\ x # msg[s]
    BY <1>0, <1>1, <1>4 DEF Near, HandPlaces, Queued
<1>6. Accounted'
    <2>1. stats \in [Stages -> StatsType]
        BY <1>0 DEF RosTypeOK
    <2>2. CASE InWindow(s)
        <3>1. msg[s] \in Sent(s)
            BY <1>4, <2>2 DEF Sent, InWindow
        <3>2. /\ ResolvedIn(stats'[s]) = ResolvedIn(stats[s]) + 1
              /\ \A d \in Stages \ {s} : ResolvedIn(stats'[d]) = ResolvedIn(stats[d])
            <4> DEFINE st == [stats[s] EXCEPT !["dropped"] = @ + 1]
            <4>1. ResolvedIn(st) = ResolvedIn(stats[s]) + 1
                BY <2>1, BookingIs
            <4>2. stats' = [stats EXCEPT ![s] = st]
                BY <2>1, <2>2 DEF Drop, Add
            <4> HIDE DEF st
            <4> QED
                BY SMTT(30), <2>1, <4>1, <4>2
        <3>3. \A d \in Stages : \A x : s \in Before(d) => (Passing(s, d, x)' <=> x = msg[s])
            BY <1>1, <2>2, OwedIs DEF Passing
        <3>4. /\ Unresolved(s, msg[s])
              /\ \A x : Unresolved(s, x)' <=> Unresolved(s, x) /\ x # msg[s]
              /\ \A d \in Stages \ {s} : \A x : Unresolved(d, x)' <=> Unresolved(d, x)
            BY <1>0, <1>3, <1>5, <3>3, PassOn DEF HandPlaces
        <3> QED
            BY SMTT(30), <1>0, <3>1, <3>2, <3>4, ResolveOne
    <2>3. CASE ~ InWindow(s)
        <3>1. \A d, x : ~ Passing(s, d, x) /\ ~ Passing(s, d, x)'
            BY <1>0, <1>1, <2>3 DEF Passing
        <3>2. \A d \in Stages : StreamOf(d) = StreamOf(s) => msg[s] \notin Sent(d)
            BY <2>3 DEF Sent, InWindow
        <3>3. UnresolvedWhere /\ UnresolvedWhere'
            BY <1>0, InvParts, InvPartsNext
        <3>4. \A d \in Stages : \A x \in Sent(d) : Unresolved(d, x)' <=> Unresolved(d, x)
            <4>1. CASE s = "vision"
                BY <1>3, <1>5, <3>1, <3>2, <3>3, <4>1, Paths DEF UnresolvedWhere
            <4>2. CASE s = "estimator"
                BY <1>3, <1>5, <3>1, <3>2, <3>3, <4>2, Paths DEF UnresolvedWhere
            <4> QED
                BY <1>0, <4>1, <4>2, Paths
        <3> QED
            BY <1>0, <2>3, <3>4, ResolveNone DEF Drop
    <2> QED
        BY <2>2, <2>3
<1> QED
    BY <1>3, <1>6

(* What is owed by a stage: to the next stage or two of its path.            *)
LEMMA OwedShape ==
    ASSUME RosInv, NEW s \in Stages, pc[s] = "settle"
    PROVE  LET d == Head(owed[s]) IN
           /\ d \in Stages \ {s} /\ s \in Before(d) /\ Contains(owed[s], d)
           /\ \A e \in Stages : Contains(Tail(owed[s]), e) <=> Contains(owed[s], e) /\ e # d
           /\ IF Len(owed[s]) > 1 THEN Tail(owed[s]) \in Rests(Downstream[s])
              ELSE Tail(owed[s]) = <<>>
<1>1. owed[s] \in Rests(Downstream[s])
    BY InvParts DEF RosInv, PlaceOf
<1>2. /\ Rests(<<>>) = {} /\ Rests(<<"mapping">>) = {<<"mapping">>}
      /\ Rests(<<"estimator", "mapping">>) = {<<"estimator", "mapping">>, <<"mapping">>}
    BY RestsAre
<1>3. \/ s = "vision" /\ owed[s] = <<"estimator", "mapping">>
      \/ s \in {"vision", "estimator"} /\ owed[s] = <<"mapping">>
    BY <1>1, <1>2, Paths
<1>4. /\ \A e : ~ Contains(<<>>, e)
      /\ \A e : Contains(<<"mapping">>, e) <=> e = "mapping"
      /\ \A e : Contains(<<"estimator", "mapping">>, e) <=> e \in {"estimator", "mapping"}
    BY DEF Contains
<1>5. CASE s = "vision" /\ owed[s] = <<"estimator", "mapping">>
    <2>1. /\ Head(owed[s]) = "estimator" /\ Tail(owed[s]) = <<"mapping">> /\ Len(owed[s]) > 1
        BY <1>5
    <2> QED
        BY <1>2, <1>4, <1>5, <2>1, Paths
<1>6. CASE s \in {"vision", "estimator"} /\ owed[s] = <<"mapping">>
    <2>1. /\ Head(owed[s]) = "mapping" /\ Tail(owed[s]) = <<>> /\ ~ (Len(owed[s]) > 1)
        BY <1>6
    <2> QED
        BY <1>2, <1>4, <1>6, <2>1, Paths
<1> QED
    BY <1>3, <1>5, <1>6

(* One more stage downstream of a drop is told.                              *)
LEMMA SettleFlow ==
    ASSUME RosInv, RosTypeOK', NEW s \in Stages, Settle(s)
    PROVE  StagePlace' /\ AtOnePlace' /\ Accounted'
<1>d. PICK d, m : d = Head(owed[s]) /\ m = msg[s]
    OBVIOUS
<1>0. /\ RosTypeOK /\ HandTypes /\ PlaceOf(s) /\ s \in Threads /\ pc[s] = "settle"
      /\ UNCHANGED <<published, input_mode, inq, lost>>
    BY TypeParts, Names, InvParts DEF RosInv, Settle, dds
<1>1. /\ d \in Stages \ {s} /\ s \in Before(d) /\ Contains(owed[s], d)
      /\ \A e \in Stages : Contains(Tail(owed[s]), e) <=> Contains(owed[s], e) /\ e # d
      /\ IF Len(owed[s]) > 1 THEN Tail(owed[s]) \in Rests(Downstream[s])
         ELSE Tail(owed[s]) = <<>>
    BY <1>d, <1>0, OwedShape
<1>2. owed'[s] = Tail(owed[s]) /\ \A u \in Stages \ {s} : owed'[u] = owed[u]
    BY <1>d, <1>0, Names DEF Settle, HandTypes
<1>3. /\ IF Len(owed[s]) > 1 THEN pc'[s] = "settle" /\ msg'[s] = m
         ELSE pc'[s] \in {"wait", "gone", "raise"} /\ msg'[s] = None
      /\ \A u \in Stages \ {s} : pc'[u] = pc[u] /\ msg'[u] = msg[u]
    <2>1. CASE Len(owed[s]) > 1
        BY <1>d, <1>0, <2>1 DEF Settle
    <2>2. CASE ~ (Len(owed[s]) > 1)
        BY <1>d, <1>0, <2>2, LetGo DEF Settle
    <2> QED
        BY <2>1, <2>2
<1>4. stats' = [stats EXCEPT ![d] = [stats[d] EXCEPT !["upstream_dropped"] = @ + 1]]
    BY <1>d, <1>0, <1>1 DEF Settle, Add, RosTypeOK
<1>5. PlaceOf(s)' /\ InHand(s)' \subseteq InHand(s)
    <2>1. InHand(s)' \subseteq InHand(s)
        BY <1>d, <1>0, <1>3 DEF Busy, InHand
    <2>2. CASE Len(owed[s]) > 1
        <3>1. pc'[s] = "settle" /\ msg'[s] = msg[s] /\ owed'[s] \in Rests(Downstream[s])
            BY <1>d, <1>1, <1>2, <1>3, <2>2
        <3>2. Measured(msg[s])'
            BY <1>d, <1>0, <3>1 DEF PlaceOf, Measured, External, InSourceWindow
        <3> QED
            BY <2>1, <3>1, <3>2 DEF PlaceOf, Busy
    <2>3. CASE ~ (Len(owed[s]) > 1)
        <3>1. pc'[s] \in {"wait", "gone", "raise"} /\ msg'[s] = None /\ owed'[s] = <<>>
            BY <1>1, <1>2, <1>3, <2>3
        <3> QED
            BY <2>1, <3>1 DEF PlaceOf, Busy
    <2> QED
        BY <2>2, <2>3
<1>6. /\ StagePlace' /\ AtOnePlace'
      /\ \A u \in Stages \ {s} : /\ \A x : Near(u, x)' <=> Near(u, x)
                                 /\ \A e, x : Passing(u, e, x)' <=> Passing(u, e, x)
    BY <1>d, <1>0, <1>2, <1>3, <1>5, HandStep
<1>7. /\ m \notin Queued(s) /\ <<s, m>> \notin lost /\ m \in ToSet(published[StreamOf(s)])
      /\ \A u \in Stages \ {s} : StreamOf(u) = StreamOf(s) =>
             ~ Near(u, m) /\ \A e : ~ Passing(u, e, m)
    BY <1>d, <1>0, InHandOnly DEF Busy
<1>8. \A x : (Near(s, x)' <=> Near(s, x)) /\ (Near(s, x) => x # m)
    BY <1>d, <1>0, <1>3, <1>7 DEF Near, HandPlaces, Queued
<1>9. \A e \in Stages : \A x : /\ Passing(s, e, x)' <=> Passing(s, e, x) /\ e # d
                               /\ Passing(s, e, x) => x = m
    <2> SUFFICES ASSUME NEW e \in Stages, NEW x
                 PROVE  /\ Passing(s, e, x)' <=> Passing(s, e, x) /\ e # d
                        /\ Passing(s, e, x) => x = m
        OBVIOUS
    <2>1. Contains(owed'[s], e) <=> Contains(owed[s], e) /\ e # d
        BY <1>1, <1>2
    <2>2. Passing(s, e, x) <=> m = x /\ Contains(owed[s], e)
        BY <1>d, <1>0 DEF Passing
    <2>3. CASE Len(owed[s]) > 1
        BY <1>3, <2>1, <2>2, <2>3 DEF Passing
    <2>4. CASE ~ (Len(owed[s]) > 1)
        <3>1. ~ Contains(owed'[s], e)
            BY <1>1, <1>2, <2>4 DEF Contains
        <3> QED
            BY <1>3, <2>1, <2>2, <2>4, <3>1 DEF Passing
    <2> QED
        BY <2>3, <2>4
<1>10. Passing(s, d, m) /\ m \in Sent(d)
    <2>1. Passing(s, d, m)
        BY <1>d, <1>0, <1>1 DEF Passing
    <2>2. StreamOf(d) = StreamOf(s)
        BY <1>1, Paths
    <2> QED
        BY <1>d, <1>0, <1>7, <2>1, <2>2 DEF PlaceOf, Sent
<1>11. /\ Unresolved(d, m)
       /\ \A x : Unresolved(d, x)' <=> Unresolved(d, x) /\ x # m
       /\ \A e \in Stages \ {d} : \A x : Unresolved(e, x)' <=> Unresolved(e, x)
    <2>1. UnresolvedWhere /\ UnresolvedWhere'
        BY <1>d, <1>0, InvParts, InvPartsNext
    <2>2. CASE s = "vision" /\ d = "estimator"
        BY <1>6, <1>7, <1>8, <1>9, <1>10, <2>1, <2>2, Paths DEF UnresolvedWhere
    <2>3. CASE s = "vision" /\ d = "mapping"
        BY <1>6, <1>7, <1>8, <1>9, <1>10, <2>1, <2>3, Paths DEF UnresolvedWhere
    <2>4. CASE s = "estimator" /\ d = "mapping"
        BY <1>6, <1>7, <1>8, <1>9, <1>10, <2>1, <2>4, Paths DEF UnresolvedWhere
    <2> QED
        BY <1>1, <2>2, <2>3, <2>4, Paths
<1>12. /\ ResolvedIn(stats'[d]) = ResolvedIn(stats[d]) + 1
       /\ \A e \in Stages \ {d} : ResolvedIn(stats'[e]) = ResolvedIn(stats[e])
    <2>1. stats \in [Stages -> StatsType] /\ d \in Stages
        BY SMTT(30), <1>d, <1>0, <1>1 DEF RosTypeOK
    <2> DEFINE st == [stats[d] EXCEPT !["upstream_dropped"] = @ + 1]
    <2>2. ResolvedIn(st) = ResolvedIn(stats[d]) + 1
        BY <2>1, BookingIs
    <2>3. stats' = [stats EXCEPT ![d] = st]
        BY <1>4
    <2> HIDE DEF st
    <2> QED
        BY <2>1, <2>2, <2>3
<1>13. Accounted'
    BY <1>d, <1>0, <1>1, <1>10, <1>11, <1>12, ResolveOne
<1> QED
    BY <1>6, <1>13

(* A message reaches the queue of stage d, or is lost on the way there.      *)
LEMMA DeliverFlow ==
    ASSUME RosInv, NEW d \in Stages, NEW m \in StampedJob, Deliver(d, m), UNCHANGED input_mode,
           \A u \in Stages : ToSet(published[StreamOf(u)]) \subseteq ToSet(published'[StreamOf(u)]),
           m \in ToSet(published'[StreamOf(d)]), m \notin At(d), <<d, m>> \notin lost, Kept(d),
           \A u \in Stages \ {d} :
               /\ PlaceOf(u)' /\ InHand(u)' \subseteq InHand(u)
               /\ StreamOf(u) = StreamOf(d) =>
                      m \notin Queued(u) /\ m \notin InHand(u)' /\ <<u, m>> \notin lost
    PROVE  /\ StagePlace' /\ AtOnePlace'
           /\ \A x : Near(d, x)' <=> Near(d, x) \/ x = m
           /\ \A e, x : Passing(d, e, x)' <=> Passing(d, e, x)
           /\ \A u \in Stages \ {d} : /\ Queued(u)' = Queued(u)
                                      /\ \A x : <<u, x>> \in lost' <=> <<u, x>> \in lost
<1>0. /\ WireTypes /\ LostWasSent /\ \A u \in Stages : PlaceOf(u) /\ OnePlace(u)
      /\ \A s \in Stages : \A u \in Stages \ {s} : Apart(s, u)
    BY TypeParts, InvParts DEF RosInv
<1>1. \A u \in Stages : inq[u] \in Seq(StampedJob)
    BY <1>0 DEF WireTypes
<1>2. /\ \/ /\ Queued(d)' = Queued(d) \cup {m} /\ IsInjective(inq'[d]) /\ UNCHANGED lost
         \/ UNCHANGED inq /\ lost' = lost \cup {<<d, m>>}
      /\ \A u \in Stages \ {d} : inq'[u] = inq[u]
    <2>1. /\ ToSet(Append(inq[d], m)) = Queued(d) \cup {m} /\ IsInjective(Append(inq[d], m))
        BY <1>0, <1>1, AppendElements DEF OnePlace, At, Queued
    <2>2. CASE context /\ d \in linked
        <3>1. inq' = [inq EXCEPT ![d] = Append(@, m)] /\ UNCHANGED lost
            BY <2>2 DEF Deliver
        <3>2. inq'[d] = Append(inq[d], m) /\ \A u \in Stages \ {d} : inq'[u] = inq[u]
            BY <1>0, <3>1 DEF WireTypes
        <3> QED
            BY <2>1, <3>1, <3>2 DEF Queued
    <2>3. CASE ~ (context /\ d \in linked)
        BY <2>3 DEF Deliver
    <2> QED
        BY <2>2, <2>3
<1>3. \A u \in Stages \ {d} : /\ Queued(u)' = Queued(u)
                              /\ \A x : <<u, x>> \in lost' <=> <<u, x>> \in lost
    BY <1>2 DEF Queued
<1>4. InHand(d)' = InHand(d) /\ PlaceOf(d)'
    BY <1>0, KeptIs
<1>5. /\ \A u \in Stages : \A x : <<u, x>> \in lost => x \in ToSet(published[StreamOf(u)])
      /\ \A u \in Stages : \A x : <<u, x>> \in lost' => x \in ToSet(published'[StreamOf(u)])
    <2>1. \A u \in Stages : \A x : <<u, x>> \in lost => x \in ToSet(published[StreamOf(u)])
        BY <1>0 DEF LostWasSent
    <2> QED
        BY <1>2, <1>3, <2>1
<1>6. /\ \A u \in Stages : \A x : x \in LostAt(u) <=> <<u, x>> \in lost
      /\ \A u \in Stages : \A x : x \in LostAt(u)' <=> <<u, x>> \in lost'
    BY <1>5 DEF LostAt
<1>7. \A u \in Stages \ {d} :
          At(u)' \subseteq At(u) /\ (StreamOf(u) = StreamOf(d) => m \notin At(u)')
    BY <1>3, <1>6 DEF At
<1>8. At(d)' = At(d) \cup {m}
    BY <1>2, <1>4, <1>6 DEF At, Queued
<1>9. \A u \in Stages : OnePlace(u)'
    <2>1. ASSUME NEW u \in Stages \ {d} PROVE OnePlace(u)'
        <3>1. /\ IsInjective(inq'[u]) /\ Queued(u) \cap InHand(u)' = {}
              /\ (Queued(u) \cup InHand(u)') \cap LostAt(u)' = {}
            <4>1. LostAt(u)' = LostAt(u)
                BY <1>3, <1>6
            <4>2. inq'[u] = inq[u] /\ Queued(u)' = Queued(u) /\ InHand(u)' \subseteq InHand(u)
                BY <1>2, <1>3
            <4> QED
                BY <1>0, <4>1, <4>2 DEF OnePlace
        <3> QED
            BY <1>0, <1>3, <1>7, <3>1 DEF OnePlace
    <2>2. OnePlace(d)'
        <3>1. OnePlace(d) /\ IsInjective(inq'[d])
            BY <1>0, <1>2 DEF OnePlace
        <3>2. m \notin Queued(d) /\ m \notin InHand(d) /\ m \notin LostAt(d)
            BY DEF At
        <3>3. /\ Queued(d)' \cap InHand(d)' = {}
              /\ (Queued(d)' \cup InHand(d)') \cap LostAt(d)' = {}
            <4>1. \/ Queued(d)' = Queued(d) \cup {m} /\ LostAt(d)' = LostAt(d)
                  \/ Queued(d)' = Queued(d) /\ LostAt(d)' = LostAt(d) \cup {m}
                <5>1. CASE Queued(d)' = Queued(d) \cup {m} /\ UNCHANGED lost
                    BY <1>6, <5>1
                <5>2. CASE UNCHANGED inq /\ lost' = lost \cup {<<d, m>>}
                    BY <1>6, <5>2 DEF Queued
                <5> QED
                    BY <1>2, <5>1, <5>2
            <4> QED
                BY <1>4, <3>1, <3>2, <4>1 DEF OnePlace
        <3> QED
            BY <1>8, <3>1, <3>3 DEF OnePlace
    <2> QED
        BY <2>1, <2>2
<1>10. \A s \in Stages : \A u \in Stages \ {s} : Apart(s, u)'
    <2> SUFFICES ASSUME NEW s \in Stages, NEW u \in Stages \ {s}, StreamOf(u) = StreamOf(s)
                 PROVE  At(u)' \cap At(s)' = {}
        BY DEF Apart
    <2>1. At(u) \cap At(s) = {}
        BY <1>0 DEF Apart
    <2>2. CASE s = d
        BY <1>7, <1>8, <2>1, <2>2
    <2>3. CASE u = d
        BY <1>7, <1>8, <2>1, <2>3
    <2>4. CASE s # d /\ u # d
        BY <1>7, <2>1, <2>4
    <2> QED
        BY <2>2, <2>3, <2>4
<1>11. LostWasSent'
    <2>1. \A p \in lost' : p \in lost \/ p = <<d, m>>
        BY <1>2
    <2>2. \A p \in lost : p \in Stages \X StampedJob
        BY <1>0 DEF WireTypes
    <2>3. ASSUME NEW p \in lost' PROVE p[2] \in ToSet(published'[StreamOf(p[1])])
        BY <1>0, <2>1, <2>2, <2>3 DEF LostWasSent
    <2> QED
        BY <2>3 DEF LostWasSent
<1>12. \A x : Near(d, x)' <=> Near(d, x) \/ x = m
    <2>1. \A x : (msg[d] = x /\ pc[d] \in HandPlaces)' <=> (msg[d] = x /\ pc[d] \in HandPlaces)
        BY KeptIs
    <2> QED
        BY <1>2, <2>1 DEF Near, Queued
<1>13. \A e, x : Passing(d, e, x)' <=> Passing(d, e, x)
    BY KeptIs
<1>14. StagePlace' /\ AtOnePlace'
    BY <1>4, <1>9, <1>10, <1>11, InvPartsNext
<1> QED
    BY <1>3, <1>12, <1>13, <1>14

(* A finished message is published to the next stage.                        *)
LEMMA PublishFlow ==
    ASSUME RosInv, RosTypeOK', NEW s \in Stages, Publish(s)
    PROVE  StagePlace' /\ AtOnePlace' /\ Accounted'
<1>d. PICK d, m : d = Head(Downstream[s]) /\ m = msg[s]
    OBVIOUS
<1>0. /\ RosTypeOK /\ PlaceOf(s) /\ pc[s] = "publish" /\ Deliver(d, m)
      /\ UNCHANGED <<published, input_mode, owed, stats>>
    BY <1>d, InvParts DEF RosInv, Publish
<1>1. \/ s = "vision" /\ d = "estimator"
      \/ s = "estimator" /\ d = "mapping"
    BY <1>d, <1>0, Paths DEF PlaceOf
<1>2. d \in Stages \ {s} /\ StreamOf(d) = StreamOf(s)
    BY <1>1, Paths
<1>3. /\ pc'[s] \in {"wait", "gone", "raise"} /\ msg'[s] = None
      /\ \A u \in Stages \ {s} : pc'[u] = pc[u] /\ msg'[u] = msg[u]
    BY <1>0, LetGo DEF Publish
<1>4. /\ m \notin Queued(s) /\ <<s, m>> \notin lost /\ m \in ToSet(published[StreamOf(s)])
      /\ m \in StampedJob
      /\ \A u \in Stages \ {s} : StreamOf(u) = StreamOf(s) =>
             ~ Near(u, m) /\ \A e : ~ Passing(u, e, m)
    BY <1>d, <1>0, InHandOnly DEF Busy
<1>5. /\ \A u \in Stages \ {s} : StreamOf(u) = StreamOf(s) =>
             m \notin Queued(u) /\ m \notin InHand(u) /\ <<u, m>> \notin lost
      /\ m \notin At(d)
    <2>1. m \in InHand(s) /\ m \in At(s)
        BY <1>d, <1>0 DEF InHand, At, Busy
    <2>2. \A u \in Stages \ {s} : StreamOf(u) = StreamOf(s) => m \notin At(u)
        BY <2>1, InvParts DEF RosInv, Apart
    <2> QED
        BY <1>2, <1>4, <2>2 DEF At, LostAt
<1>6. PlaceOf(s)' /\ InHand(s)' = {}
    BY <1>0, <1>3 DEF PlaceOf, Busy, InHand
<1>7. \A u \in Stages \ {s} : Kept(u) /\ PlaceOf(u)' /\ InHand(u)' = InHand(u)
    BY <1>0, <1>3, KeptIs, InvParts DEF Kept, RosInv
<1>8. /\ StagePlace' /\ AtOnePlace'
      /\ \A x : Near(d, x)' <=> Near(d, x) \/ x = m
      /\ \A e, x : Passing(d, e, x)' <=> Passing(d, e, x)
      /\ \A u \in Stages \ {d} : /\ Queued(u)' = Queued(u)
                                 /\ \A x : <<u, x>> \in lost' <=> <<u, x>> \in lost
    <2>1. Kept(d) /\ m \in ToSet(published'[StreamOf(d)]) /\ <<d, m>> \notin lost
        BY <1>0, <1>2, <1>4, <1>5, <1>7
    <2>2. \A u \in Stages \ {d} :
              /\ PlaceOf(u)' /\ InHand(u)' \subseteq InHand(u)
              /\ StreamOf(u) = StreamOf(d) =>
                     m \notin Queued(u) /\ m \notin InHand(u)' /\ <<u, m>> \notin lost
        BY <1>2, <1>4, <1>5, <1>6, <1>7
    <2> QED
        BY <1>0, <1>2, <1>4, <1>5, <2>1, <2>2, DeliverFlow
<1>9. /\ \A u \in Stages \ {d, s} : \A x : Near(u, x)' <=> Near(u, x)
      /\ \A u \in Stages \ {d, s} : \A e, x : Passing(u, e, x)' <=> Passing(u, e, x)
      /\ \A x : (Near(s, x)' <=> Near(s, x))
      /\ \A e, x : ~ Passing(s, e, x)' /\ (Passing(s, e, x) <=> x = m)
    <2>1. ASSUME NEW u \in Stages \ {d, s}, NEW x PROVE Near(u, x)' <=> Near(u, x)
        BY <1>3, <1>8 DEF Near
    <2>2. ASSUME NEW u \in Stages \ {d, s}, NEW e, NEW x
          PROVE  Passing(u, e, x)' <=> Passing(u, e, x)
        BY <1>0, <1>3 DEF Passing
    <2>3. ASSUME NEW x PROVE Near(s, x)' <=> Near(s, x)
        BY <1>0, <1>2, <1>3, <1>8 DEF Near, HandPlaces
    <2>4. \A e, x : ~ Passing(s, e, x)' /\ (Passing(s, e, x) <=> x = m)
        BY <1>d, <1>0, <1>3 DEF Passing
    <2> QED
        BY <2>1, <2>2, <2>3, <2>4
<1>10. \A e \in Stages : \A x : Unresolved(e, x)' <=> Unresolved(e, x)
    <2>1. UnresolvedWhere /\ UnresolvedWhere'
        BY <1>0, InvParts, InvPartsNext
    <2>2. CASE s = "vision" /\ d = "estimator"
        BY <1>8, <1>9, <2>1, <2>2, Paths DEF UnresolvedWhere
    <2>3. CASE s = "estimator" /\ d = "mapping"
        BY <1>8, <1>9, <2>1, <2>3, Paths DEF UnresolvedWhere
    <2> QED
        BY <1>1, <2>2, <2>3
<1>11. Accounted'
    BY <1>0, <1>10, ResolveNone
<1> QED
    BY <1>8, <1>11

(* A source sends a message that it has not sent before.                     *)
LEMMA SendFlow ==
    ASSUME RosInv, RosTypeOK', NEW t \in Streams, NEW m \in StampedJob, Send(t, m),
           m \notin ToSet(published[t])
    PROVE  /\ StagePlace' /\ AtOnePlace' /\ Accounted'
           /\ \A s \in Stages : Sent(s)' = IF StreamOf(s) = t /\ Measured(m) THEN Sent(s) \cup {m}
                                           ELSE Sent(s)
           /\ ToSet(published'[t]) = ToSet(published[t]) \cup {m}
           /\ \A u \in Streams \ {t} : published'[u] = published[u]
<1>d. PICK d : d = WorkerOf(t)
    OBVIOUS
<1>0. /\ RosTypeOK /\ d \in Stages /\ StreamOf(d) = t /\ Deliver(d, m)
      /\ UNCHANGED <<input_mode, stats, pc, msg, owed>>
      /\ published \in [Streams -> Seq(StampedJob)]
      /\ d = IF t = "imu" THEN "imu" ELSE "vision"
    BY <1>d, Names DEF RosInv, Send, RosTypeOK, threads, WorkerOf
<1>1. /\ ToSet(published'[t]) = ToSet(published[t]) \cup {m}
      /\ \A u \in Streams \ {t} : published'[u] = published[u]
    <2>1. ToSet(Append(published[t], m)) = ToSet(published[t]) \cup {m}
        BY <1>0, AppendElements
    <2> QED
        BY <1>0, <2>1 DEF Send
<1>2. \A u \in Stages :
          /\ Kept(u) /\ PlaceOf(u)' /\ InHand(u)' = InHand(u)
          /\ StreamOf(u) = t => m \notin At(u) /\ <<u, m>> \notin lost
    <2>1. ASSUME NEW u \in Stages PROVE Kept(u) /\ PlaceOf(u)' /\ InHand(u)' = InHand(u)
        BY <1>0, KeptIs, InvParts DEF Kept, RosInv
    <2>2. ASSUME NEW u \in Stages, StreamOf(u) = t PROVE m \notin At(u) /\ <<u, m>> \notin lost
        BY <2>2, InvParts DEF RosInv, OnePlace, LostWasSent
    <2> QED
        BY <2>1, <2>2
<1>3. /\ StagePlace' /\ AtOnePlace'
      /\ \A x : Near(d, x)' <=> Near(d, x) \/ x = m
      /\ \A e, x : Passing(d, e, x)' <=> Passing(d, e, x)
      /\ \A u \in Stages \ {d} : /\ Queued(u)' = Queued(u)
                                 /\ \A x : <<u, x>> \in lost' <=> <<u, x>> \in lost
    <2>1. /\ Kept(d) /\ m \in ToSet(published'[StreamOf(d)])
          /\ <<d, m>> \notin lost /\ m \notin At(d)
          /\ \A u \in Stages :
                 ToSet(published[StreamOf(u)]) \subseteq ToSet(published'[StreamOf(u)])
        BY <1>0, <1>1, <1>2, Names
    <2>2. \A u \in Stages \ {d} :
              /\ PlaceOf(u)' /\ InHand(u)' \subseteq InHand(u)
              /\ StreamOf(u) = StreamOf(d) =>
                     m \notin Queued(u) /\ m \notin InHand(u)' /\ <<u, m>> \notin lost
        BY <1>0, <1>2 DEF At
    <2> QED
        BY <1>0, <2>1, <2>2, DeliverFlow
<1>4. /\ \A u \in Stages \ {d} : \A x : Near(u, x)' <=> Near(u, x)
      /\ \A u \in Stages : \A e, x : Passing(u, e, x)' <=> Passing(u, e, x)
    <2>1. ASSUME NEW u \in Stages \ {d}, NEW x PROVE Near(u, x)' <=> Near(u, x)
        BY <1>0, <1>3 DEF Near
    <2>2. ASSUME NEW u \in Stages, NEW e, NEW x PROVE Passing(u, e, x)' <=> Passing(u, e, x)
        BY <1>0 DEF Passing
    <2> QED
        BY <2>1, <2>2
<1>5. \A s \in Stages : \A x : Unresolved(s, x)' <=> Unresolved(s, x) \/ (StreamOf(s) = t /\ x = m)
    <2>1. UnresolvedWhere /\ UnresolvedWhere'
        BY <1>0, InvParts, InvPartsNext
    <2>2. CASE t = "imu" /\ d = "imu"
        BY <1>3, <1>4, <2>1, <2>2, Paths DEF UnresolvedWhere
    <2>3. CASE t = "camera" /\ d = "vision"
        BY <1>3, <1>4, <2>1, <2>3, Paths DEF UnresolvedWhere
    <2> QED
        BY <1>0, <2>2, <2>3, Names
<1>6. \A s \in Stages : Sent(s)' = IF StreamOf(s) = t /\ Measured(m) THEN Sent(s) \cup {m}
                                   ELSE Sent(s)
    BY <1>0, <1>1, Names DEF Sent, Measured, External, InSourceWindow
<1>7. ASSUME NEW s \in Stages PROVE Balances(ResolvedIn(stats'[s]), Sent(s)', Open(s)')
    <2>1. Balances(ResolvedIn(stats[s]), Sent(s), Open(s))
        BY <1>0, InvParts DEF RosInv, Books
    <2>2. CASE StreamOf(s) = t /\ Measured(m)
        <3>1. m \notin Sent(s)
            BY <2>2 DEF Sent
        <3>2. Open(s)' = Open(s) \cup {m} /\ Sent(s)' = Sent(s) \cup {m}
            BY <1>5, <1>6, <2>2 DEF Open
        <3> QED
            BY <1>0, <2>1, <3>1, <3>2, BalanceGrow
    <2>3. CASE ~ (StreamOf(s) = t /\ Measured(m))
        <3>1. Sent(s)' = Sent(s) /\ (StreamOf(s) = t => m \notin Sent(s))
            BY <1>6, <2>3 DEF Sent
        <3>2. Open(s)' = Open(s)
            BY <1>5, <3>1 DEF Open
        <3> QED
            BY <1>0, <2>1, <3>1, <3>2
    <2> QED
        BY <2>2, <2>3
<1>8. Accounted'
    <2>1. Books'
        BY <1>7 DEF Books
    <2> QED
        BY <2>1, InvPartsNext
<1> QED
    BY <1>1, <1>3, <1>6, <1>8

(* The messages of a stage under every step but those of the sources.        *)
LEMMA PipelineFlow ==
    ASSUME RosInv, RosStep, \A t \in Streams : ~ Generate(t)
    PROVE  /\ RosTypeOK' /\ StagePlace' /\ AtOnePlace' /\ Accounted'
           /\ UNCHANGED <<published, input_mode>>
<1>1. RosTypeOK'
    BY RosTypes
<1>2. CASE Undisturbed
    BY <1>1, <1>2, UndisturbedKeeps DEF Undisturbed
<1>3. ASSUME NEW s \in Stages, Take(s) PROVE StagePlace' /\ AtOnePlace' /\ Accounted'
    BY <1>1, <1>3, TakeFlow
<1>4. ASSUME NEW s \in Stages, Drop(s) PROVE StagePlace' /\ AtOnePlace' /\ Accounted'
    BY <1>1, <1>4, DropFlow
<1>5. ASSUME NEW s \in Stages, Settle(s) PROVE StagePlace' /\ AtOnePlace' /\ Accounted'
    BY <1>1, <1>5, SettleFlow
<1>6. ASSUME NEW s \in Stages, Complete(s) PROVE StagePlace' /\ AtOnePlace' /\ Accounted'
    BY <1>1, <1>6, CompleteFlow
<1>7. ASSUME NEW s \in Stages, Publish(s) PROVE StagePlace' /\ AtOnePlace' /\ Accounted'
    BY <1>1, <1>7, PublishFlow
<1>8. ASSUME NEW s \in Stages, Throw(s) PROVE StagePlace' /\ AtOnePlace' /\ Accounted'
    BY <1>1, <1>8, ThrowFlow
<1>9. ASSUME NEW s \in Stages,
             Take(s) \/ Drop(s) \/ Settle(s) \/ Complete(s) \/ Publish(s) \/ Throw(s)
      PROVE  UNCHANGED <<published, input_mode>>
    BY <1>9 DEF Take, Drop, Settle, Complete, Publish, Throw, dds
<1> QED
    BY <1>1, <1>2, <1>3, <1>4, <1>5, <1>6, <1>7, <1>8, <1>9, UndisturbedSteps DEF Undisturbed

-----------------------------------------------------------------------------
(* The audit                                                               *)

(* The source messages that have not been offered to stage s.                *)
Waiting(s) == {m \in Sent(s) : NotOffered(s, m)}
Hearing(s, m) == pc["audit"] = "offer" /\ msg["audit"] = m /\ Contains(owed["audit"], s)
Heard == \A s \in Stages : Balances(stats[s].offered, Sent(s), Waiting(s))
Hears == External /\ context /\ pc["audit"] \notin {"gone", "raise", "failed"}
WaitingWhere ==
    /\ \A s \in Stages : \A m : NotOffered(s, m) <=>
           m \in ToSet(auditq[StreamOf(s)]) \/ Hearing(s, m)
    /\ Heard <=> \A s \in Stages :
                     stats[s].offered + Cardinality({m \in Sent(s) : NotOffered(s, m)})
                         = Cardinality(Sent(s))

(* What waits for the audit is queued there or in its hand.                  *)
LEMMA WaitingIs == RosTypeOK => WaitingWhere
<1> SUFFICES ASSUME RosTypeOK PROVE WaitingWhere
    OBVIOUS
<1>1. \A s \in Stages : \A m :
          NotOffered(s, m) <=> m \in ToSet(auditq[StreamOf(s)]) \/ Hearing(s, m)
    <2> SUFFICES ASSUME NEW s \in Stages, NEW m
                 PROVE  NotOffered(s, m) <=> m \in ToSet(auditq[StreamOf(s)]) \/ Hearing(s, m)
        OBVIOUS
    <2>1. auditq[StreamOf(s)] \in Seq(StampedJob)
        BY Names DEF RosTypeOK
    <2> QED
        BY <2>1, SeqElements DEF NotOffered, Hearing
<1>2. \A s \in Stages :
          IsFiniteSet(Sent(s)) /\ Waiting(s) \subseteq Sent(s) /\ stats[s].offered \in Int
    <2>1. \A s \in Stages : stats[s].offered \in Int
        BY DEF RosTypeOK, StatsType
    <2>2. \A s \in Stages : IsFiniteSet(Sent(s))
        BY SentFinite
    <2> QED
        BY <2>1, <2>2 DEF Waiting
<1> QED
    BY <1>1, <1>2 DEF WaitingWhere, Heard, Balances, Waiting

(* And in the next state.                                                    *)
LEMMA WaitingIsNext == RosTypeOK' => WaitingWhere'
BY WaitingIs, PTL

(* A step that does not concern the audit.                                   *)
Unheard ==
    /\ UNCHANGED <<input_mode, published, auditq>> /\ Kept("audit")
    /\ Hears' => Hears
    /\ \A s \in Stages : stats'[s].offered = stats[s].offered

(* Such a step keeps what the audit has heard.                               *)
LEMMA UnheardKeeps ==
    ASSUME RosInv, RosTypeOK', Unheard
    PROVE  AuditPlace' /\ (Hears' => Hears) /\ (Heard => Heard')
<1>0. UNCHANGED <<input_mode, published, auditq>> /\ AuditPlace /\ RosTypeOK /\ Kept("audit")
    BY DEF Unheard, RosInv
<1>1. \/ /\ pc'["audit"] = pc["audit"] /\ msg'["audit"] = msg["audit"]
         /\ owed'["audit"] = owed["audit"]
      \/ /\ pc["audit"] \notin Busy \cup {"offer"} /\ pc'["audit"] \notin Busy \cup {"offer"}
         /\ owed'["audit"] = owed["audit"]
    BY <1>0 DEF Kept, AuditPlace, HandPlaces, Busy
<1>2. AuditPlace'
    <2>1. CASE /\ pc'["audit"] = pc["audit"] /\ msg'["audit"] = msg["audit"]
               /\ owed'["audit"] = owed["audit"]
        BY <1>0, <2>1 DEF AuditPlace, Measured, External, InSourceWindow
    <2>2. CASE /\ pc["audit"] \notin Busy \cup {"offer"} /\ pc'["audit"] \notin Busy \cup {"offer"}
               /\ owed'["audit"] = owed["audit"]
        BY <1>0, <2>2 DEF AuditPlace
    <2> QED
        BY <1>1, <2>1, <2>2
<1>3. \A s \in Stages : \A m : Hearing(s, m)' <=> Hearing(s, m)
    BY <1>1 DEF Hearing
<1>4. WaitingWhere /\ WaitingWhere'
    BY <1>0, WaitingIs, WaitingIsNext
<1>5. \A s \in Stages : Waiting(s)' = Waiting(s) /\ Sent(s)' = Sent(s)
    BY <1>0, <1>3, <1>4, SentSame DEF Waiting, WaitingWhere
<1> QED
    BY <1>2, <1>5 DEF Heard, Unheard

(* The opportunities of a source message: every stage of its path.           *)
LEMMA OpportunitiesAre ==
    /\ Opportunities("imu") = <<"imu">>
    /\ Opportunities("camera") = <<"vision", "estimator", "mapping">>
    /\ \A t \in Streams : \A s \in Stages : Contains(Opportunities(t), s) <=> StreamOf(s) = t
<1>1. /\ Opportunities("imu") = <<"imu">>
      /\ Opportunities("camera") = <<"vision", "estimator", "mapping">>
    <2> DEFINE r == <<"vision">> \o <<"estimator", "mapping">>
    <2>1. /\ r \in Seq(Stages) /\ Len(r) = 3
          /\ r[1] = "vision" /\ r[2] = "estimator" /\ r[3] = "mapping"
        BY Paths
    <2> HIDE DEF r
    <2>2. r = <<"vision", "estimator", "mapping">>
        BY <2>1, TupleIs
    <2>3. /\ Opportunities("imu") = <<"imu">>
          /\ Opportunities("camera") = <<"vision">> \o Downstream["vision"]
        BY DEF Opportunities
    <2> QED
        BY <2>2, <2>3, Paths DEF r
<1>2. /\ \A e : Contains(<<"imu">>, e) <=> e = "imu"
      /\ \A e : Contains(<<"vision", "estimator", "mapping">>, e)
                    <=> e \in {"vision", "estimator", "mapping"}
    BY DEF Contains
<1>3. /\ \A s \in Stages : Contains(Opportunities("imu"), s) <=> StreamOf(s) = "imu"
      /\ \A s \in Stages : Contains(Opportunities("camera"), s) <=> StreamOf(s) = "camera"
    BY <1>1, <1>2, Paths
<1> QED
    BY <1>1, <1>3, Names

(* What is left to offer is a list of stages of the stream.                  *)
LEMMA OfferShape ==
    ASSUME NEW t \in Streams, NEW q \in Rests(Opportunities(t))
    PROVE  /\ q \in Seq(Stages) /\ q # <<>> /\ Head(q) \in Stages /\ StreamOf(Head(q)) = t
           /\ Contains(q, Head(q))
           /\ \A s \in Stages : Contains(q, s) => StreamOf(s) = t
           /\ \A s \in Stages : Contains(Tail(q), s) <=> Contains(q, s) /\ s # Head(q)
           /\ IF Len(q) > 1 THEN Tail(q) \in Rests(Opportunities(t)) ELSE Tail(q) = <<>>
<1>1. /\ Rests(<<"imu">>) = {<<"imu">>}
      /\ Rests(<<"vision", "estimator", "mapping">>) =
             {<<"vision", "estimator", "mapping">>, <<"estimator", "mapping">>, <<"mapping">>}
    BY RestsAre
<1>2. /\ \A e : ~ Contains(<<>>, e)
      /\ \A e : Contains(<<"imu">>, e) <=> e = "imu"
      /\ \A e : Contains(<<"mapping">>, e) <=> e = "mapping"
      /\ \A e : Contains(<<"estimator", "mapping">>, e) <=> e \in {"estimator", "mapping"}
      /\ \A e : Contains(<<"vision", "estimator", "mapping">>, e)
                    <=> e \in {"vision", "estimator", "mapping"}
    BY DEF Contains
<1>3. CASE t = "imu" /\ q = <<"imu">>
    <2>1. Head(q) = "imu" /\ Tail(q) = <<>> /\ ~ (Len(q) > 1) /\ q # <<>> /\ q \in Seq(Stages)
        BY <1>3, Paths
    <2> QED
        BY <1>2, <1>3, <2>1, Paths
<1>4. CASE t = "camera" /\ q = <<"vision", "estimator", "mapping">>
    <2>1. /\ Head(q) = "vision" /\ Tail(q) = <<"estimator", "mapping">> /\ Len(q) > 1 /\ q # <<>>
          /\ q \in Seq(Stages)
        BY <1>4, Paths
    <2> QED
        BY <1>1, <1>2, <1>4, <2>1, Paths, OpportunitiesAre
<1>5. CASE t = "camera" /\ q = <<"estimator", "mapping">>
    <2>1. /\ Head(q) = "estimator" /\ Tail(q) = <<"mapping">> /\ Len(q) > 1 /\ q # <<>>
          /\ q \in Seq(Stages)
        BY <1>5, Paths
    <2> QED
        BY <1>1, <1>2, <1>5, <2>1, Paths, OpportunitiesAre
<1>6. CASE t = "camera" /\ q = <<"mapping">>
    <2>1. Head(q) = "mapping" /\ Tail(q) = <<>> /\ ~ (Len(q) > 1) /\ q # <<>> /\ q \in Seq(Stages)
        BY <1>6, Paths
    <2> QED
        BY <1>2, <1>6, <2>1, Paths
<1> QED
    BY <1>1, <1>3, <1>4, <1>5, <1>6, OpportunitiesAre, Names

(* The audit node takes a source message: it is offered to every stage.      *)
LEMMA AuditTakeKeeps ==
    ASSUME RosInv, RosTypeOK', NEW t \in Streams, AuditTake(t)
    PROVE  AuditPlace' /\ (Hears' => Hears) /\ (Heard => Heard')
<1>d. PICK m : m = Head(auditq[t])
    OBVIOUS
<1>0. /\ RosTypeOK /\ HandTypes /\ AuditPlace /\ pc["audit"] = "wait" /\ "audit" \in Threads
      /\ UNCHANGED <<input_mode, published, stats, context>>
    BY TypeParts, Names DEF RosInv, AuditTake
<1>1. /\ ToSet(auditq'[t]) = ToSet(auditq[t]) \ {m} /\ m \in ToSet(auditq[t])
      /\ IsInjective(auditq'[t])
      /\ \A u \in Streams \ {t} : auditq'[u] = auditq[u]
    <2>1. auditq \in [Streams -> Seq(StampedJob)] /\ auditq[t] # <<>> /\ IsInjective(auditq[t])
        BY <1>0 DEF RosTypeOK, AuditTake, AuditPlace
    <2>2. /\ ToSet(Tail(auditq[t])) = ToSet(auditq[t]) \ {m} /\ m \in ToSet(auditq[t])
          /\ IsInjective(Tail(auditq[t]))
        BY <1>d, <2>1, TailElements
    <2> QED
        BY <2>1, <2>2 DEF AuditTake
<1>2. \/ /\ Measured(m) /\ owed'["audit"] = Opportunities(t) /\ msg'["audit"] = m
         /\ pc'["audit"] = "offer"
      \/ /\ ~ Measured(m) /\ owed'["audit"] = owed["audit"]
         /\ pc'["audit"] \in {"wait", "gone", "raise"}
    <2>1. CASE Measured(m)
        <3>1. owed'["audit"] = Opportunities(t) /\ msg'["audit"] = m
            BY <1>d, <1>0, <2>1 DEF AuditTake, HandTypes
        <3>2. pc'["audit"] = "offer"
            BY <1>d, <1>0, <2>1, GotoIs DEF AuditTake, Labels
        <3> QED
            BY <2>1, <3>1, <3>2
    <2>2. CASE ~ Measured(m)
        BY <1>d, <1>0, <2>2, LoopIs DEF AuditTake
    <2> QED
        BY <2>1, <2>2
<1>3. /\ \A u \in Streams : /\ IsInjective(auditq'[u])
                            /\ ToSet(auditq'[u]) \subseteq ToSet(published[u])
      /\ m \in ToSet(published[t]) \ ToSet(auditq'[t]) /\ owed["audit"] = <<>>
    BY <1>0, <1>1 DEF AuditPlace
<1>4. Opportunities(t) \in Rests(Opportunities(t))
    BY OpportunitiesAre, RestsAre, Names
<1>5. AuditPlace'
    <2>1. CASE /\ Measured(m) /\ owed'["audit"] = Opportunities(t) /\ msg'["audit"] = m
               /\ pc'["audit"] = "offer"
        <3>1. Measured(msg["audit"])'
            BY <1>0, <2>1 DEF Measured, External, InSourceWindow
        <3> QED
            BY <1>0, <1>3, <1>4, <2>1, <3>1 DEF AuditPlace, Busy
    <2>2. CASE /\ ~ Measured(m) /\ owed'["audit"] = owed["audit"]
               /\ pc'["audit"] \in {"wait", "gone", "raise"}
        BY <1>0, <1>3, <2>2 DEF AuditPlace, Busy
    <2> QED
        BY <1>2, <2>1, <2>2
<1>6. Hears' => Hears
    BY <1>0 DEF Hears, External
<1>7. WaitingWhere /\ WaitingWhere'
    BY <1>0, WaitingIs, WaitingIsNext
<1>8. ASSUME NEW s \in Stages, NEW x \in Sent(s) PROVE NotOffered(s, x)' <=> NotOffered(s, x)
    <2>1. ~ Hearing(s, x)
        BY <1>0 DEF Hearing
    <2>2. x \in ToSet(auditq'[StreamOf(s)]) <=>
              x \in ToSet(auditq[StreamOf(s)]) /\ ~ (StreamOf(s) = t /\ x = m)
        BY <1>1, Names
    <2>3. CASE /\ Measured(m) /\ owed'["audit"] = Opportunities(t) /\ msg'["audit"] = m
               /\ pc'["audit"] = "offer"
        <3>1. Hearing(s, x)' <=> StreamOf(s) = t /\ x = m
            BY <2>3, OpportunitiesAre DEF Hearing
        <3> QED
            BY <1>1, <1>7, <2>1, <2>2, <3>1 DEF WaitingWhere
    <2>4. CASE /\ ~ Measured(m) /\ owed'["audit"] = owed["audit"]
               /\ pc'["audit"] \in {"wait", "gone", "raise"}
        <3>1. ~ Hearing(s, x)' /\ x # m
            BY <2>4 DEF Hearing, Sent
        <3> QED
            BY <1>7, <2>1, <2>2, <3>1 DEF WaitingWhere
    <2> QED
        BY <1>2, <2>3, <2>4
<1>9. \A s \in Stages : Waiting(s)' = Waiting(s) /\ Sent(s)' = Sent(s)
    BY <1>0, <1>8, SentSame DEF Waiting
<1> QED
    BY <1>0, <1>5, <1>6, <1>9 DEF Heard

(* It offers the message to one stage of its path.                           *)
LEMMA AuditOfferKeeps ==
    ASSUME RosInv, RosTypeOK', AuditOffer
    PROVE  AuditPlace' /\ (Hears' => Hears) /\ (Heard => Heard')
<1>d. PICK d, m : d = Head(owed["audit"]) /\ m = msg["audit"]
    OBVIOUS
<1>0. /\ RosTypeOK /\ HandTypes /\ AuditPlace /\ pc["audit"] = "offer" /\ "audit" \in Threads
      /\ UNCHANGED <<input_mode, published, auditq, context>>
    BY TypeParts, Names DEF RosInv, AuditOffer, dds
<1>1. PICK t \in Streams : /\ owed["audit"] \in Rests(Opportunities(t))
                           /\ m \in ToSet(published[t]) \ ToSet(auditq[t])
                           /\ Measured(m)
    BY <1>d, <1>0 DEF AuditPlace
<1>2. /\ d \in Stages /\ StreamOf(d) = t /\ Contains(owed["audit"], d)
      /\ \A s \in Stages : Contains(owed["audit"], s) => StreamOf(s) = t
      /\ \A s \in Stages : Contains(Tail(owed["audit"]), s) <=> Contains(owed["audit"], s) /\ s # d
      /\ IF Len(owed["audit"]) > 1 THEN Tail(owed["audit"]) \in Rests(Opportunities(t))
         ELSE Tail(owed["audit"]) = <<>>
    BY <1>d, <1>1, OfferShape
<1>3. owed'["audit"] = Tail(owed["audit"])
    BY <1>0 DEF AuditOffer, HandTypes
<1>4. IF Len(owed["audit"]) > 1 THEN pc'["audit"] = "offer" /\ msg'["audit"] = m
      ELSE pc'["audit"] \in {"wait", "gone", "raise"}
    BY <1>d, <1>0, LoopIs DEF AuditOffer
<1>5. AuditPlace'
    <2>1. CASE Len(owed["audit"]) > 1
        <3>1. Measured(msg["audit"])'
            BY <1>0, <1>1, <1>4, <2>1 DEF Measured, External, InSourceWindow
        <3> QED
            BY <1>0, <1>1, <1>2, <1>3, <1>4, <2>1, <3>1 DEF AuditPlace, Busy
    <2>2. CASE ~ (Len(owed["audit"]) > 1)
        BY <1>0, <1>2, <1>3, <1>4, <2>2 DEF AuditPlace, Busy
    <2> QED
        BY <2>1, <2>2
<1>6. Hears' => Hears
    BY <1>0 DEF Hears, External
<1>7. WaitingWhere /\ WaitingWhere'
    BY <1>0, WaitingIs, WaitingIsNext
<1>8. \A s \in Stages : \A x : Hearing(s, x)' <=> Hearing(s, x) /\ s # d
    <2> SUFFICES ASSUME NEW s \in Stages, NEW x PROVE Hearing(s, x)' <=> Hearing(s, x) /\ s # d
        OBVIOUS
    <2>1. Contains(owed'["audit"], s) <=> Contains(owed["audit"], s) /\ s # d
        BY <1>2, <1>3
    <2>2. CASE Len(owed["audit"]) > 1
        BY <1>d, <1>0, <1>4, <2>1, <2>2 DEF Hearing
    <2>3. CASE ~ (Len(owed["audit"]) > 1)
        <3>1. ~ Contains(owed'["audit"], s)
            BY <1>2, <1>3, <2>3 DEF Contains
        <3> QED
            BY <1>4, <2>1, <2>3, <3>1 DEF Hearing
    <2> QED
        BY <2>2, <2>3
<1>9. /\ \A s \in Stages \ {d} : \A x : NotOffered(s, x)' <=> NotOffered(s, x)
      /\ \A x : NotOffered(d, x)' <=> NotOffered(d, x) /\ x # m
      /\ NotOffered(d, m) /\ m \in Sent(d)
    <2>1. \A s \in Stages : \A x : NotOffered(s, x)' <=>
              x \in ToSet(auditq[StreamOf(s)]) \/ (Hearing(s, x) /\ s # d)
        BY <1>0, <1>7, <1>8 DEF WaitingWhere
    <2>2. \A x : Hearing(d, x) <=> x = m
        BY <1>d, <1>0, <1>2 DEF Hearing
    <2>3. m \notin ToSet(auditq[StreamOf(d)]) /\ m \in Sent(d)
        BY <1>1, <1>2 DEF Sent
    <2> QED
        BY <1>2, <1>7, <2>1, <2>2, <2>3 DEF WaitingWhere
<1>10. /\ stats'[d].offered = stats[d].offered + 1
       /\ \A s \in Stages \ {d} : stats'[s] = stats[s]
    <2>1. stats \in [Stages -> StatsType]
        BY <1>0 DEF RosTypeOK
    <2>2. stats' = [stats EXCEPT ![d] = Offered(stats[d], m)]
        BY <1>d, <2>1 DEF AuditOffer
    <2>3. Offered(stats[d], m).offered = stats[d].offered + 1
        BY <1>2, <2>1 DEF Offered, StatsType
    <2> QED
        BY <1>2, <2>1, <2>2, <2>3
<1>11. ASSUME Heard, NEW s \in Stages
       PROVE  Balances(stats'[s].offered, Sent(s)', Waiting(s)')
    <2>1. Balances(stats[s].offered, Sent(s), Waiting(s)) /\ Sent(s)' = Sent(s)
        BY <1>0, <1>11, SentSame DEF Heard
    <2>2. CASE s = d
        <3>1. Waiting(d)' = Waiting(d) \ {m} /\ m \in Waiting(d)
            BY <1>9, <2>1, <2>2 DEF Waiting
        <3>2. Balances(stats[d].offered + 1, Sent(d), Waiting(d) \ {m})
            BY <2>1, <2>2, <3>1, BalanceResolve
        <3> QED
            BY <1>10, <2>1, <2>2, <3>1, <3>2
    <2>3. CASE s # d
        <3>1. Waiting(s)' = Waiting(s)
            BY <1>9, <2>1, <2>3 DEF Waiting
        <3> QED
            BY <1>10, <2>1, <2>3, <3>1
    <2> QED
        BY <2>2, <2>3
<1>12. Heard => Heard'
    BY <1>11 DEF Heard
<1> QED
    BY <1>5, <1>6, <1>12

(* A stage books an arrival, a drop, an execution or a completion; what was  *)
(* offered to it stays, and nothing that was booked is taken back.           *)
Later(new, old) ==
    /\ new \in StatsType /\ new.offered = old.offered
    /\ new.first_job_id = old.first_job_id /\ new.last_job_id = old.last_job_id
    /\ ResolvedIn(new) >= ResolvedIn(old)

(* What a stage books of a message.                                          *)
LEMMA LaterIs ==
    ASSUME NEW st \in StatsType
    PROVE  /\ Later(st, st)
           /\ Later([st EXCEPT !["arrivals"] = @ + 1], st)
           /\ Later([st EXCEPT !["dropped"] = @ + 1], st)
           /\ Later([st EXCEPT !["upstream_dropped"] = @ + 1], st)
           /\ Later([st EXCEPT !.executed = @ + 1, !.active = TRUE], st)
           /\ Later([st EXCEPT !.completed = @ + 1, !.active = FALSE], st)
<1>1. ResolvedIn(st) \in Nat
    BY BookingIs
<1>2. ASSUME NEW a \in StatsType, a.offered = st.offered, a.first_job_id = st.first_job_id,
             a.last_job_id = st.last_job_id,
             ResolvedIn(a) = ResolvedIn(st) \/ ResolvedIn(a) = ResolvedIn(st) + 1
      PROVE  Later(a, st)
    BY <1>1, <1>2 DEF Later
<1>3. Later(st, st)
    BY <1>2
<1>4. Later([st EXCEPT !["arrivals"] = @ + 1], st)
    <2> DEFINE a == [st EXCEPT !["arrivals"] = @ + 1]
    <2>1. /\ a.offered = st.offered /\ a.first_job_id = st.first_job_id
          /\ a.last_job_id = st.last_job_id
        BY SMTT(30) DEF StatsType
    <2>2. a \in StatsType /\ (ResolvedIn(a) = ResolvedIn(st) \/ ResolvedIn(a) = ResolvedIn(st) + 1)
        BY StatsTypes, BookingIs
    <2> HIDE DEF a
    <2>3. Later(a, st)
        BY <1>2, <2>1, <2>2
    <2> QED
        BY <2>3 DEF a
<1>5. Later([st EXCEPT !["dropped"] = @ + 1], st)
    <2> DEFINE a == [st EXCEPT !["dropped"] = @ + 1]
    <2>1. /\ a.offered = st.offered /\ a.first_job_id = st.first_job_id
          /\ a.last_job_id = st.last_job_id
        BY SMTT(30) DEF StatsType
    <2>2. a \in StatsType /\ (ResolvedIn(a) = ResolvedIn(st) \/ ResolvedIn(a) = ResolvedIn(st) + 1)
        BY StatsTypes, BookingIs
    <2> HIDE DEF a
    <2>3. Later(a, st)
        BY <1>2, <2>1, <2>2
    <2> QED
        BY <2>3 DEF a
<1>6. Later([st EXCEPT !["upstream_dropped"] = @ + 1], st)
    <2> DEFINE a == [st EXCEPT !["upstream_dropped"] = @ + 1]
    <2>1. /\ a.offered = st.offered /\ a.first_job_id = st.first_job_id
          /\ a.last_job_id = st.last_job_id
        BY SMTT(30) DEF StatsType
    <2>2. a \in StatsType /\ (ResolvedIn(a) = ResolvedIn(st) \/ ResolvedIn(a) = ResolvedIn(st) + 1)
        BY StatsTypes, BookingIs
    <2> HIDE DEF a
    <2>3. Later(a, st)
        BY <1>2, <2>1, <2>2
    <2> QED
        BY <2>3 DEF a
<1>7. Later([st EXCEPT !.executed = @ + 1, !.active = TRUE], st)
    <2> DEFINE a == [st EXCEPT !.executed = @ + 1, !.active = TRUE]
    <2>1. /\ a.offered = st.offered /\ a.first_job_id = st.first_job_id
          /\ a.last_job_id = st.last_job_id
        BY SMTT(30) DEF StatsType
    <2>2. a \in StatsType /\ (ResolvedIn(a) = ResolvedIn(st) \/ ResolvedIn(a) = ResolvedIn(st) + 1)
        BY StatsTypes, BookingIs
    <2> HIDE DEF a
    <2>3. Later(a, st)
        BY <1>2, <2>1, <2>2
    <2> QED
        BY <2>3 DEF a
<1>8. Later([st EXCEPT !.completed = @ + 1, !.active = FALSE], st)
    <2> DEFINE a == [st EXCEPT !.completed = @ + 1, !.active = FALSE]
    <2>1. /\ a.offered = st.offered /\ a.first_job_id = st.first_job_id
          /\ a.last_job_id = st.last_job_id
        BY SMTT(30) DEF StatsType
    <2>2. a \in StatsType /\ (ResolvedIn(a) = ResolvedIn(st) \/ ResolvedIn(a) = ResolvedIn(st) + 1)
        BY StatsTypes, BookingIs
    <2> HIDE DEF a
    <2>3. Later(a, st)
        BY <1>2, <2>1, <2>2
    <2> QED
        BY <2>3 DEF a
<1> QED
    BY SMTT(30), <1>3, <1>4, <1>5, <1>6, <1>7, <1>8

(* A stage only adds to the books.                                           *)
LEMMA StageBooks ==
    ASSUME RosInv, NEW s \in Stages,
           Take(s) \/ Drop(s) \/ Settle(s) \/ Begin(s) \/ Complete(s) \/ Publish(s) \/ Throw(s)
    PROVE  \A d \in Stages : Later(stats'[d], stats[d])
<1>1. stats \in [Stages -> StatsType] /\ \A d \in Stages : Later(stats[d], stats[d])
    BY LaterIs DEF RosInv, RosTypeOK
<1>2. \/ stats' = stats
      \/ \E u \in Stages : \E st : Later(st, stats[u]) /\ stats' = [stats EXCEPT ![u] = st]
    <2>1. CASE Take(s)
        <3>1. Later([stats[s] EXCEPT !["arrivals"] = @ + 1], stats[s])
            BY <1>1, LaterIs
        <3>2. \/ stats' = stats
              \/ stats' = [stats EXCEPT ![s] = [stats[s] EXCEPT !["arrivals"] = @ + 1]]
            BY <1>1, <2>1 DEF Take, Add
        <3> QED
            BY <3>1, <3>2
    <2>2. CASE Drop(s)
        <3>1. Later([stats[s] EXCEPT !["dropped"] = @ + 1], stats[s])
            BY <1>1, LaterIs
        <3>2. \/ stats' = stats
              \/ stats' = [stats EXCEPT ![s] = [stats[s] EXCEPT !["dropped"] = @ + 1]]
            BY <1>1, <2>2 DEF Drop, Add
        <3> QED
            BY SMTT(30), <3>1, <3>2
    <2>3. CASE Settle(s)
        <3>1. Head(owed[s]) \in Stages
            BY <2>3, OwedShape DEF Settle
        <3>2. Later([stats[Head(owed[s])] EXCEPT !["upstream_dropped"] = @ + 1],
                    stats[Head(owed[s])])
            BY <1>1, <3>1, LaterIs
        <3> QED
            BY <1>1, <2>3, <3>1, <3>2 DEF Settle, Add
    <2>4. CASE Begin(s)
        <3>1. Later([stats[s] EXCEPT !.executed = @ + 1, !.active = TRUE], stats[s])
            BY <1>1, LaterIs
        <3>2. \/ stats' = stats
              \/ stats' = [stats EXCEPT ![s] = [stats[s] EXCEPT !.executed = @ + 1,
                                                                !.active = TRUE]]
            BY <1>1, <2>4 DEF Begin
        <3> QED
            BY SMTT(30), <3>1, <3>2
    <2>5. CASE Complete(s)
        <3>1. Later([stats[s] EXCEPT !.completed = @ + 1, !.active = FALSE], stats[s])
            BY <1>1, LaterIs
        <3>2. \/ stats' = stats
              \/ stats' = [stats EXCEPT ![s] = [stats[s] EXCEPT !.completed = @ + 1,
                                                                !.active = FALSE]]
            BY <1>1, <2>5 DEF Complete
        <3> QED
            BY <3>1, <3>2
    <2>6. CASE Publish(s) \/ Throw(s)
        BY <2>6 DEF Publish, Throw
    <2> QED
        BY SMTT(30), <2>1, <2>2, <2>3, <2>4, <2>5, <2>6
<1> QED
    BY SMTT(30), <1>1, <1>2

(* All other steps leave the audit alone.                                    *)
LEMMA UnheardSteps ==
    ASSUME RosInv, RosStep
    PROVE  \/ Unheard \/ \E t \in Streams : Generate(t) \/ AuditTake(t)
           \/ AuditOffer
<1>0. /\ HandTypes /\ BookTypes /\ AuditPlace /\ StagePlace /\ RosTypeOK
      /\ "audit" \in Threads /\ \A s \in Stages : s \in Threads /\ s # "audit"
    BY TypeParts, Names DEF RosInv
<1> USE DEF Busy, HandPlaces
<1>1. ASSUME NEW u \in Subscriptions, Link(u) PROVE Unheard
    BY <1>1 DEF Link, threads, Unheard, Kept, Hears, External
<1>2. ASSUME NEW h \in Hogs, HogEnds(h) PROVE Unheard
    BY <1>2 DEF HogEnds, dds, threads, Unheard, Kept, Hears, External
<1>3. ASSUME NEW h \in Hogs, HogFails(h) PROVE Unheard
    BY <1>3 DEF HogFails, dds, threads, Unheard, Kept, Hears, External
<1>4. ASSUME Main PROVE Unheard
    <2>1. /\ UNCHANGED <<input_mode, published, auditq, stats, msg, owed, pc>>
          /\ context' = TRUE => context = TRUE
        BY <1>4 DEF Main, Connect, ConnectFails, JoinGenerators, WindowOpens, WindowTimesOut,
           Snapshot, StopHogs, Cancel, Finish, Quiet, NotMain, dds
    <2> QED
        BY <1>0, <2>1 DEF Unheard, Kept, Hears, External, RosTypeOK
<1>5. ASSUME NEW t \in Threads, Enter(t) PROVE Unheard
    <2>1. pc[t] \notin Busy \cup {"offer"} /\ pc'[t] \notin Busy \cup {"offer"}
        BY <1>0, <1>5, GotoIs DEF Enter, Labels
    <2>2. \A u \in Threads \ {t} : pc'[u] = pc[u]
        BY <1>0, <1>5, GotoIs DEF Enter, Labels
    <2>3. Kept("audit")
        BY <1>0, <1>5, <2>1, <2>2 DEF Enter, Kept
    <2>4. Hears' => Hears
        BY <1>0, <1>5, <2>2 DEF Enter, Hears, External
    <2> QED
        BY <1>5, <2>3, <2>4 DEF Enter, Unheard, dds
<1>6. ASSUME NEW t \in Threads, Catch(t) PROVE Unheard
    <2>1. pc[t] \notin Busy \cup {"offer"} /\ pc'[t] \notin Busy \cup {"offer"}
        BY <1>0, <1>6, GotoIs DEF Catch, Labels
    <2>2. \A u \in Threads \ {t} : pc'[u] = pc[u]
        BY <1>0, <1>6, GotoIs DEF Catch, Labels
    <2>3. Kept("audit")
        BY <1>0, <1>6, <2>1, <2>2 DEF Catch, Kept
    <2>4. Hears' => Hears
        BY <1>0, <1>6, <2>2 DEF Catch, Hears, External
    <2> QED
        BY <1>6, <2>3, <2>4 DEF Catch, Unheard, dds
<1>7. ASSUME NEW t \in Threads, Interrupted(t) PROVE Unheard
    <2>1. /\ pc'[t] \in {"wait", "gone", "raise"} /\ pc[t] = "wait"
          /\ \A u \in Threads \ {t} : pc'[u] = pc[u]
        BY <1>0, <1>7, LoopIs DEF Interrupted
    <2>2. Kept("audit")
        BY <1>0, <1>7, <2>1 DEF Interrupted, Kept
    <2>3. Hears' => Hears
        BY <1>0, <1>7, <2>1 DEF Interrupted, Hears, External
    <2> QED
        BY <1>7, <2>2, <2>3 DEF Interrupted, Unheard, dds
<1>8. ASSUME NEW s \in Stages,
             Take(s) \/ Drop(s) \/ Settle(s) \/ Begin(s) \/ Complete(s) \/ Publish(s) \/ Throw(s)
      PROVE  Unheard
    <2>1. /\ UNCHANGED <<input_mode, published, auditq, context>>
          /\ \/ UNCHANGED msg
             \/ msg' = [msg EXCEPT ![s] = None]
             \/ msg' = [msg EXCEPT ![s] = Head(inq[s])]
          /\ \/ UNCHANGED owed \/ owed' = [owed EXCEPT ![s] = OwedBy(s)]
             \/ owed' = [owed EXCEPT ![s] = Tail(@)]
        BY <1>8 DEF Take, Drop, Settle, Begin, Complete, Publish, Throw, dds
    <2>2. pc'["audit"] = pc["audit"]
        <3>1. \/ UNCHANGED pc \/ Loop(s)
              \/ \E l \in {"admit", "raise", "settle", "work", "publish"} : Goto(s, l)
            BY <1>8 DEF Take, Drop, Settle, Begin, Complete, Publish, Throw
        <3> QED
            BY <1>0, <3>1, GotoIs, LoopIs DEF Labels
    <2>3. msg'["audit"] = msg["audit"] /\ owed'["audit"] = owed["audit"]
        BY <1>0, <2>1 DEF HandTypes
    <2>4. ASSUME NEW d \in Stages PROVE stats'[d].offered = stats[d].offered
        BY <1>8, StageBooks DEF Later
    <2> QED
        BY <2>1, <2>2, <2>3, <2>4 DEF Unheard, Kept, Hears, External
<1> QED
    BY <1>1, <1>2, <1>3, <1>4, <1>5, <1>6, <1>7, <1>8 DEF RosInv, RosStep, Thread, Stage, Audit

(* A new source message waits for the audit, if its reader is matched.       *)
LEMMA SendHeard ==
    ASSUME RosInv, RosTypeOK', NEW t \in Streams, NEW m \in StampedJob, Send(t, m),
           m \notin ToSet(published[t]),
           \A s \in Stages : Sent(s)' = IF StreamOf(s) = t /\ Measured(m) THEN Sent(s) \cup {m}
                                        ELSE Sent(s),
           ToSet(published'[t]) = ToSet(published[t]) \cup {m},
           \A u \in Streams \ {t} : published'[u] = published[u]
    PROVE  /\ AuditPlace' /\ (Hears' => Hears)
           /\ AuditOf(t) \in linked /\ context /\ Heard => Heard'
<1>0. /\ RosTypeOK /\ AuditPlace /\ auditq \in [Streams -> Seq(StampedJob)]
      /\ UNCHANGED <<input_mode, stats, pc, msg, owed, context>>
    BY DEF RosInv, Send, RosTypeOK, threads
<1>1. m \notin ToSet(auditq[t])
    BY <1>0 DEF AuditPlace
<1>2. /\ \/ UNCHANGED auditq /\ ~ (AuditOf(t) \in linked /\ context)
         \/ ToSet(auditq'[t]) = ToSet(auditq[t]) \cup {m} /\ IsInjective(auditq'[t])
      /\ \A u \in Streams \ {t} : auditq'[u] = auditq[u]
    <2>1. IsInjective(auditq[t])
        BY <1>0 DEF AuditPlace
    <2>2. /\ ToSet(Append(auditq[t], m)) = ToSet(auditq[t]) \cup {m}
          /\ IsInjective(Append(auditq[t], m))
        BY <1>0, <1>1, <2>1, AppendElements
    <2> QED
        BY <1>0, <2>2 DEF Send
<1>3. AuditPlace'
    <2>1. \A u \in Streams :
              IsInjective(auditq'[u]) /\ ToSet(auditq'[u]) \subseteq ToSet(published'[u])
        BY <1>0, <1>2 DEF AuditPlace
    <2>2. CASE pc["audit"] = "offer"
        <3>1. PICK u \in Streams : /\ owed["audit"] \in Rests(Opportunities(u))
                                   /\ msg["audit"] \in ToSet(published[u]) \ ToSet(auditq[u])
                                   /\ Measured(msg["audit"])
            BY <1>0, <2>2 DEF AuditPlace
        <3>2. msg["audit"] \in ToSet(published'[u]) \ ToSet(auditq'[u])
            BY <1>2, <3>1
        <3>3. Measured(msg["audit"])'
            BY <1>0, <3>1 DEF Measured, External, InSourceWindow
        <3> QED
            BY <1>0, <2>1, <2>2, <3>1, <3>2, <3>3 DEF AuditPlace
    <2>3. CASE pc["audit"] # "offer"
        BY <1>0, <2>1, <2>3 DEF AuditPlace
    <2> QED
        BY <2>2, <2>3
<1>4. Hears' => Hears
    BY <1>0 DEF Hears, External
<1>5. ASSUME AuditOf(t) \in linked, context, Heard, NEW s \in Stages
      PROVE  Balances(stats'[s].offered, Sent(s)', Waiting(s)')
    <2>1. Balances(stats[s].offered, Sent(s), Waiting(s))
        BY <1>5 DEF Heard
    <2>2. WaitingWhere /\ WaitingWhere'
        BY <1>0, WaitingIs, WaitingIsNext
    <2>3. \A x : Hearing(s, x)' <=> Hearing(s, x)
        BY <1>0 DEF Hearing
    <2>4. \A x : NotOffered(s, x)' <=> NotOffered(s, x) \/ (StreamOf(s) = t /\ x = m)
        BY <1>2, <1>5, <2>2, <2>3, Names DEF WaitingWhere
    <2>5. CASE StreamOf(s) = t /\ Measured(m)
        <3>1. m \notin Sent(s)
            BY <2>5 DEF Sent
        <3>2. Waiting(s)' = Waiting(s) \cup {m} /\ Sent(s)' = Sent(s) \cup {m}
            BY <2>4, <2>5 DEF Waiting
        <3> QED
            BY <1>0, <2>1, <3>1, <3>2, BalanceGrow
    <2>6. CASE ~ (StreamOf(s) = t /\ Measured(m))
        <3>1. Sent(s)' = Sent(s) /\ (StreamOf(s) = t => m \notin Sent(s))
            BY <2>6 DEF Sent
        <3>2. Waiting(s)' = Waiting(s)
            BY <2>4, <3>1 DEF Waiting
        <3> QED
            BY <1>0, <2>1, <3>1, <3>2
    <2> QED
        BY <2>5, <2>6
<1> QED
    BY <1>3, <1>4, <1>5 DEF Heard

-----------------------------------------------------------------------------
(* main()                                                                  *)

(* The parts of MainPlace.                                                   *)
Failed == (\E t \in Threads : pc[t] = "failed") \/ (\E h \in Hogs : hog[h] = "failed")
MainOrder == (main = "snapshot" => step <= Len(SnapOrder)) /\ (exit # None => main = "done")
SentIds(s) == {0} \cup {m.job_id : m \in Sent(s)}
LineOf(s) ==
    /\ snap[s].resolved <= ResolvedIn(stats[s])
    /\ {snap[s].first_job_id, snap[s].last_job_id} \subseteq SentIds(s)
    /\ {stats[s].first_job_id, stats[s].last_job_id} \subseteq SentIds(s)

(* The parts make up MainPlace.                                              *)
LEMMA MainParts ==
    /\ MainPlace <=> /\ Failed => background_error # None
                     /\ MainOrder /\ \A s \in Stages : LineOf(s)
    /\ MainPlace' <=> /\ Failed' => background_error' # None
                      /\ MainOrder' /\ \A s \in Stages : LineOf(s)'
<1> DEFINE Recorded(s) == {snap[s].first_job_id, snap[s].last_job_id,
                           stats[s].first_job_id, stats[s].last_job_id}
<1>1. \A s \in Stages : LineOf(s) <=> /\ snap[s].resolved <= ResolvedIn(stats[s])
                                      /\ Recorded(s) \subseteq {0} \cup {m.job_id : m \in Sent(s)}
    BY DEF LineOf, SentIds
<1>2. \A s \in Stages : LineOf(s)' <=> /\ (snap[s].resolved <= ResolvedIn(stats[s]))'
                                       /\ (Recorded(s) \subseteq {0} \cup {m.job_id : m \in Sent(s)})'
    BY DEF LineOf, SentIds
<1>3. MainPlace <=> /\ Failed => background_error # None
                    /\ MainOrder
                    /\ \A s \in Stages : /\ snap[s].resolved <= ResolvedIn(stats[s])
                                         /\ Recorded(s) \subseteq {0} \cup {m.job_id : m \in Sent(s)}
    BY DEF MainPlace, Failed, MainOrder
<1>4. MainPlace' <=> /\ Failed' => background_error' # None
                     /\ MainOrder'
                     /\ \A s \in Stages :
                            /\ (snap[s].resolved <= ResolvedIn(stats[s]))'
                            /\ (Recorded(s) \subseteq {0} \cup {m.job_id : m \in Sent(s)})'
    BY DEF MainPlace, Failed, MainOrder
<1> HIDE DEF Recorded
<1> QED
    BY <1>1, <1>2, <1>3, <1>4

(* No step forgets a failure.                                                *)
LEMMA FailureSteps ==
    ASSUME RosInv, RosStep
    PROVE  /\ background_error # None => background_error' # None
           /\ Failed' => background_error' # None
<1>0. /\ HandTypes /\ RosTypeOK /\ (Failed => background_error # None)
      /\ \A s \in Stages : s \in Threads
      /\ "audit" \in Threads /\ None \notin Threads /\ \A h \in Hogs : h # None
    <2>1. Hogs \subseteq Contenders
        BY RosAssumption DEF RosInv, RosTypeOK, Hogs
    <2> QED
        BY <2>1, RosAssumption, TypeParts, Names, MainParts DEF RosInv
<1> DEFINE Harmless ==
              /\ \A t \in Threads : pc'[t] = "failed" => pc[t] = "failed"
              /\ \A h \in Hogs : hog'[h] = "failed" => hog[h] = "failed"
              /\ UNCHANGED <<background_error, input_mode>>
<1>h. ASSUME Harmless
      PROVE  /\ background_error # None => background_error' # None
             /\ Failed' => background_error' # None
    <2>1. Hogs' = Hogs
        BY <1>h DEF Hogs
    <2> QED
        BY <1>0, <1>h, <2>1 DEF Failed
<1>p. ASSUME NEW t \in Threads,
             \/ UNCHANGED pc \/ Loop(t)
             \/ \E l \in {"admit", "raise", "settle", "work", "publish", "offer", "wait", "gone"} :
                    Goto(t, l),
             UNCHANGED <<background_error, input_mode, hog>>
      PROVE  Harmless
    <2>1. \A l \in {"admit", "raise", "settle", "work", "publish", "offer", "wait", "gone"} :
              l \in Labels
        BY DEF Labels
    <2>2. \A u \in Threads : pc'[u] = "failed" => pc[u] = "failed"
        BY <1>0, <1>p, <2>1, GotoIs, LoopIs
    <2> QED
        BY <1>p, <2>2
<1>1. ASSUME NEW u \in Subscriptions, Link(u) PROVE Harmless
    BY <1>1 DEF Link, threads, hogVars
<1>2. ASSUME NEW t \in Streams, Generate(t) PROVE Harmless
    BY <1>2 DEF Generate, Send, threads, hogVars
<1>3. ASSUME NEW t \in Threads, Enter(t) \/ Interrupted(t) PROVE Harmless
    <2>1. /\ \/ Loop(t) \/ \E l \in {"raise", "wait", "gone"} : Goto(t, l)
          /\ UNCHANGED <<background_error, input_mode, hog>>
        BY <1>3 DEF Enter, Interrupted, hogVars
    <2> QED
        BY <1>p, <2>1
<1>4. ASSUME NEW s \in Stages,
             Take(s) \/ Drop(s) \/ Settle(s) \/ Begin(s) \/ Complete(s) \/ Publish(s) \/ Throw(s)
      PROVE  Harmless
    <2>1. \/ UNCHANGED pc \/ Loop(s)
          \/ \E l \in {"admit", "raise", "settle", "work", "publish"} : Goto(s, l)
        BY <1>4 DEF Take, Drop, Settle, Begin, Complete, Publish, Throw
    <2>2. UNCHANGED <<background_error, input_mode, hog>>
        BY <1>4 DEF Take, Drop, Settle, Begin, Complete, Publish, Throw, hogVars
    <2> QED
        BY <1>0, <1>p, <2>1, <2>2
<1>5. ASSUME (\E t \in Streams : AuditTake(t)) \/ AuditOffer PROVE Harmless
    <2>1. /\ \/ UNCHANGED pc \/ Loop("audit") \/ Goto("audit", "offer")
          /\ UNCHANGED <<background_error, input_mode, hog>>
        BY <1>5 DEF AuditTake, AuditOffer, hogVars
    <2> QED
        BY <1>0, <1>p, <2>1
<1>6. ASSUME NEW h \in Hogs, HogEnds(h) PROVE Harmless
    <2>1. \A k \in Hogs : hog'[k] = "failed" => hog[k] = "failed"
        BY <1>0, <1>6 DEF HogEnds, RosTypeOK
    <2> QED
        BY <1>6, <2>1 DEF HogEnds, threads
<1>7. ASSUME Main PROVE Harmless
    <2>1. /\ UNCHANGED <<pc, background_error, input_mode>>
          /\ UNCHANGED hog \/ hog' = [h \in Hogs |-> "run"]
        BY <1>7 DEF Main, Connect, ConnectFails, JoinGenerators, WindowOpens, WindowTimesOut,
           Snapshot, StopHogs, Cancel, Finish, Quiet, NotMain, hogVars
    <2> QED
        BY <2>1
<1> HIDE DEF Harmless
<1>8. ASSUME NEW t \in Threads, Catch(t) PROVE background_error' # None
    BY <1>0, <1>8 DEF Catch, Keep
<1>9. ASSUME NEW h \in Hogs, HogFails(h) PROVE background_error' # None
    BY <1>0, <1>9 DEF HogFails, Keep
<1> QED
    BY <1>h, <1>1, <1>2, <1>3, <1>4, <1>5, <1>6, <1>7, <1>8, <1>9
    DEF RosStep, Thread, Stage, Audit

(* main() exits once, at its end, and has four snapshots to take.            *)
LEMMA OrderSteps ==
    ASSUME RosInv, RosStep
    PROVE  /\ MainOrder'
           /\ UNCHANGED mainVars \/ (Main /\ UNCHANGED <<stats, published, input_mode>>)
<1>0. MainOrder /\ RosTypeOK
    BY MainParts DEF RosInv
<1>1. CASE Main
    <2>1. UNCHANGED <<stats, published, input_mode>>
        BY <1>1 DEF Main, Connect, ConnectFails, JoinGenerators, WindowOpens, WindowTimesOut,
           Snapshot, StopHogs, Cancel, Finish, Quiet, NotMain, dds
    <2>2. main = "snapshot" => step <= 4
        BY <1>0, Names DEF MainOrder
    <2>3. main' = "snapshot" => step' <= 4
        <3>1. CASE Snapshot
            <4>1. step \in Nat /\ step <= 4 /\ Len(SnapOrder) = 4
                BY <1>0, <2>2, <3>1, Names DEF RosTypeOK, Snapshot
            <4> QED
                BY <3>1, <4>1 DEF Snapshot, MainGoto
        <3>2. CASE ~ Snapshot
            BY <1>1, <3>2 DEF Main, Connect, ConnectFails, JoinGenerators, WindowOpens,
               WindowTimesOut, StopHogs, Cancel, Cancelling, Finish, MainGoto
        <3> QED
            BY <3>1, <3>2
    <2>4. exit' # None => main' = "done"
        BY <1>0, <1>1 DEF Main, Connect, ConnectFails, JoinGenerators, WindowOpens, WindowTimesOut,
           Snapshot, StopHogs, Cancel, Cancelling, Finish, MainGoto, MainOrder
    <2> QED
        BY <1>1, <2>1, <2>3, <2>4, Names DEF MainOrder
<1>2. CASE UNCHANGED mainVars
    BY <1>0, <1>2 DEF MainOrder, mainVars
<1>3. Main \/ UNCHANGED mainVars
    <2>1. ASSUME NEW t \in Threads, Enter(t) \/ Interrupted(t) \/ Catch(t) PROVE UNCHANGED mainVars
        BY <2>1 DEF Enter, Interrupted, Catch
    <2>2. ASSUME NEW s \in Stages, Stage(s) PROVE UNCHANGED mainVars
        BY <2>2 DEF Stage, Take, Drop, Settle, Begin, Complete, Publish, Throw
    <2>3. ASSUME Audit PROVE UNCHANGED mainVars
        BY <2>3 DEF Audit, AuditTake, AuditOffer
    <2>4. ASSUME NEW h \in Hogs, HogEnds(h) \/ HogFails(h) PROVE UNCHANGED mainVars
        BY <2>4 DEF HogEnds, HogFails
    <2>5. ASSUME NEW u \in Subscriptions, Link(u) PROVE UNCHANGED mainVars
        BY <2>5 DEF Link
    <2>6. ASSUME NEW t \in Streams, Generate(t) PROVE UNCHANGED mainVars
        BY <2>6 DEF Generate, Send
    <2> QED
        BY <2>1, <2>2, <2>3, <2>4, <2>5, <2>6 DEF RosStep, Thread
<1> QED
    BY <1>1, <1>2, <1>3

(* Only a stage and the audit node write the statistics.                     *)
LEMMA BookSteps ==
    ASSUME RosStep
    PROVE  UNCHANGED stats \/ AuditOffer \/ \E s \in Stages : Stage(s)
BY DEF RosStep, Thread, Audit, Link, Generate, Send, Enter, Interrupted, Catch, AuditTake,
   HogEnds, HogFails, Main, Connect, ConnectFails, JoinGenerators, WindowOpens, WindowTimesOut,
   Snapshot, StopHogs, Cancel, Finish, Quiet, NotMain

(* A snapshot shows the statistics as they are.                              *)
LEMMA SnapSteps ==
    ASSUME RosInv, RosStep, NEW s \in Stages
    PROVE  snap'[s] = snap[s] \/ snap'[s] = Line(s)
<1>0. MainOrder /\ RosTypeOK
    BY MainParts DEF RosInv
<1>1. CASE UNCHANGED mainVars
    BY <1>1 DEF mainVars
<1>2. CASE Main
    <2>1. main = "snapshot" => step \in 1 .. 4
        BY <1>0, Names DEF MainOrder, RosTypeOK
    <2>2. UNCHANGED snap \/ \E u \in Stages : snap' = [snap EXCEPT ![u] = Line(u)]
        BY <1>2, <2>1, Names DEF Main, Connect, ConnectFails, JoinGenerators, WindowOpens,
           WindowTimesOut, Snapshot, StopHogs, Cancel, Finish
    <2> QED
        BY <1>0, <2>2 DEF RosTypeOK
<1> QED
    BY <1>1, <1>2, OrderSteps

(* The statistics and the snapshot of a stage under every step: nothing that *)
(* was booked is taken back, and the audit names jobs that were sent.        *)
LEMMA LineSteps ==
    ASSUME RosInv, RosStep, \A s \in Stages : Sent(s) \subseteq Sent(s)'
    PROVE  \A s \in Stages : LineOf(s)'
<1>0. /\ \A s \in Stages : LineOf(s) /\ stats[s] \in StatsType /\ SentIds(s) \subseteq SentIds(s)'
      /\ RosTypeOK /\ AuditPlace /\ MainOrder
    BY MainParts DEF RosInv, RosTypeOK, SentIds
<1>1. ASSUME UNCHANGED snap,
             \A s \in Stages :
                 /\ ResolvedIn(stats'[s]) >= ResolvedIn(stats[s])
                 /\ {stats'[s].first_job_id, stats'[s].last_job_id} \subseteq SentIds(s)
      PROVE  \A s \in Stages : LineOf(s)'
    <2> SUFFICES ASSUME NEW s \in Stages PROVE LineOf(s)'
        BY SMTT(30)
    <2>1. snap[s].resolved <= ResolvedIn(stats[s]) /\ snap[s].resolved \in Nat
          /\ ResolvedIn(stats[s]) \in Nat
        BY ZenonT(40), <1>0, BookingIs DEF LineOf, RosTypeOK, LineType
    <2>2. ResolvedIn(stats'[s]) \in Nat
        <3>1. stats'[s] \in StatsType
            BY RosTypes DEF RosTypeOK
        <3> QED
            BY <3>1, BookingIs
    <2>3. snap'[s].resolved <= ResolvedIn(stats'[s])
        BY <1>1, <2>1, <2>2
    <2>4. /\ {snap'[s].first_job_id, snap'[s].last_job_id} \subseteq SentIds(s)'
          /\ {stats'[s].first_job_id, stats'[s].last_job_id} \subseteq SentIds(s)'
        BY <1>0, <1>1 DEF LineOf
    <2> QED
        BY <2>3, <2>4 DEF LineOf
<1>2. ASSUME \A s \in Stages : Later(stats'[s], stats[s]), UNCHANGED snap
      PROVE  \A s \in Stages : LineOf(s)'
    BY SMTT(30), <1>0, <1>1, <1>2 DEF Later, LineOf
<1>3. CASE UNCHANGED mainVars /\ UNCHANGED stats
    BY <1>0, <1>2, <1>3, LaterIs DEF mainVars
<1>4. CASE UNCHANGED mainVars /\ \E s \in Stages : Stage(s)
    BY <1>2, <1>4, StageBooks DEF Stage, mainVars
<1>5. CASE UNCHANGED mainVars /\ AuditOffer
    <2>d. PICK d, m : d = Head(owed["audit"]) /\ m = msg["audit"]
        OBVIOUS
    <2>1. d \in Stages /\ m \in Sent(d)
        <3>1. pc["audit"] = "offer"
            BY <1>5 DEF AuditOffer
        <3>2. PICK t \in Streams : /\ owed["audit"] \in Rests(Opportunities(t))
                                   /\ m \in ToSet(published[t]) /\ Measured(m)
            BY <1>0, <2>d, <3>1 DEF AuditPlace
        <3> QED
            BY <2>d, <3>2, OfferShape DEF Sent
    <2>2. stats' = [stats EXCEPT ![d] = Offered(stats[d], m)] /\ stats \in [Stages -> StatsType]
        BY SMTT(30), <1>0, <1>5, <2>d DEF AuditOffer, RosTypeOK
    <2>3. /\ ResolvedIn(Offered(stats[d], m)) = ResolvedIn(stats[d])
          /\ \A s \in Stages : ResolvedIn(stats[s]) \in Nat
        BY <1>0, <2>1, BookingIs
    <2>4. /\ Offered(stats[d], m).first_job_id \in {stats[d].first_job_id, m.job_id}
          /\ Offered(stats[d], m).last_job_id = m.job_id
        BY <2>1, <2>2 DEF Offered, StatsType
    <2>5. m.job_id \in SentIds(d)
        BY <2>1 DEF SentIds
    <2>6. ASSUME NEW s \in Stages
          PROVE  /\ ResolvedIn(stats'[s]) >= ResolvedIn(stats[s])
                 /\ {stats'[s].first_job_id, stats'[s].last_job_id} \subseteq SentIds(s)
        <3>1. CASE s = d
            BY <1>0, <2>1, <2>2, <2>3, <2>4, <2>5, <3>1 DEF LineOf
        <3>2. CASE s # d
            BY <1>0, <2>1, <2>2, <2>3, <3>2 DEF LineOf
        <3> QED
            BY <3>1, <3>2
    <2> QED
        BY <1>1, <1>5, <2>6 DEF mainVars
<1>6. CASE Main /\ UNCHANGED <<stats, published, input_mode>>
    <2>1. ASSUME NEW s \in Stages PROVE LineOf(s)'
        <3>1. ResolvedIn(stats[s]) \in Nat
            BY <1>0, BookingIs
        <3>2. \/ snap'[s] = snap[s] \/ snap'[s] = Line(s)
            BY SnapSteps
        <3>3. SentIds(s)' = SentIds(s) /\ 0 \in SentIds(s)
            BY <1>6, SentSame DEF SentIds
        <3>4. /\ Line(s).resolved \in {0, ResolvedIn(stats[s])}
              /\ {Line(s).first_job_id, Line(s).last_job_id}
                    \subseteq {0, stats[s].first_job_id, stats[s].last_job_id}
            BY DEF Line
        <3> QED
            BY SMTT(30), <1>0, <1>6, <3>1, <3>2, <3>3, <3>4 DEF LineOf
    <2> QED
        BY ZenonT(40), <2>1
<1> QED
    BY <1>3, <1>4, <1>5, <1>6, BookSteps, OrderSteps

-----------------------------------------------------------------------------
(* The pipeline as a whole                                                 *)

(* Every step but those of the sources.                                      *)
LEMMA PipelineKeeps ==
    ASSUME RosInv, RosStep, \A t \in Streams : ~ Generate(t)
    PROVE  /\ RosInv' /\ UNCHANGED <<published, input_mode>>
           /\ (Hears' => Hears) /\ (Heard => Heard')
<1>1. /\ RosTypeOK' /\ StagePlace' /\ AtOnePlace' /\ Accounted'
      /\ UNCHANGED <<published, input_mode>>
    BY PipelineFlow
<1>2. AuditPlace' /\ (Hears' => Hears) /\ (Heard => Heard')
    <2>1. ASSUME NEW t \in Streams, AuditTake(t)
          PROVE  AuditPlace' /\ (Hears' => Hears) /\ (Heard => Heard')
        BY <1>1, <2>1, AuditTakeKeeps
    <2>2. CASE AuditOffer
        BY <1>1, <2>2, AuditOfferKeeps
    <2>3. CASE Unheard
        BY <1>1, <2>3, UnheardKeeps
    <2> QED
        BY <2>1, <2>2, <2>3, UnheardSteps
<1>3. MainPlace'
    <2>1. \A s \in Stages : Sent(s) \subseteq Sent(s)'
        BY <1>1, SentSame
    <2> QED
        BY <2>1, FailureSteps, OrderSteps, LineSteps, MainParts
<1> QED
    BY <1>1, <1>2, <1>3 DEF RosInv

(* A source that sends a message it has not sent before.                     *)
LEMMA SendKeeps ==
    ASSUME RosInv, NEW t \in Streams, NEW m \in StampedJob, Send(t, m), m \notin ToSet(published[t])
    PROVE  /\ RosInv' /\ (Hears' => Hears)
           /\ AuditOf(t) \in linked /\ context /\ Heard => Heard'
           /\ \A s \in Stages : Sent(s)' = IF StreamOf(s) = t /\ Measured(m) THEN Sent(s) \cup {m}
                                           ELSE Sent(s)
           /\ ToSet(published'[t]) = ToSet(published[t]) \cup {m}
           /\ Len(published'[t]) = Len(published[t]) + 1
           /\ \A u \in Streams \ {t} : published'[u] = published[u]
           /\ UNCHANGED <<input_mode, linked>>
<1>0. RosTypeOK /\ RosTypeOK'
    BY SendTypes DEF RosInv
<1>1. /\ StagePlace' /\ AtOnePlace' /\ Accounted'
      /\ \A s \in Stages : Sent(s)' = IF StreamOf(s) = t /\ Measured(m) THEN Sent(s) \cup {m}
                                      ELSE Sent(s)
      /\ ToSet(published'[t]) = ToSet(published[t]) \cup {m}
      /\ \A u \in Streams \ {t} : published'[u] = published[u]
    BY <1>0, SendFlow
<1>2. AuditPlace' /\ (Hears' => Hears) /\ (AuditOf(t) \in linked /\ context /\ Heard => Heard')
    BY <1>0, <1>1, SendHeard
<1>3. MainPlace'
    <2>1. UNCHANGED <<pc, hog, background_error, main, step, exit, snap, stats, input_mode>>
        BY DEF Send, threads, hogVars, mainVars
    <2>2. /\ Failed => background_error # None
          /\ MainOrder /\ \A s \in Stages : LineOf(s)
        BY MainParts DEF RosInv
    <2>3. Failed' => background_error' # None
        BY <2>1, <2>2 DEF Failed, Hogs
    <2>4. MainOrder'
        BY <2>1, <2>2 DEF MainOrder
    <2>5. \A s \in Stages : LineOf(s)'
        <3>1. \A s \in Stages : SentIds(s) \subseteq SentIds(s)'
            BY <1>1 DEF SentIds
        <3> QED
            BY <2>1, <2>2, <3>1 DEF LineOf
    <2> QED
        BY <2>3, <2>4, <2>5, MainParts
<1>4. Len(published'[t]) = Len(published[t]) + 1 /\ UNCHANGED <<input_mode, linked>>
    BY <1>0 DEF Send, RosTypeOK
<1> QED
    BY <1>0, <1>1, <1>2, <1>3, <1>4 DEF RosInv

(* Nothing happens in the pipeline.                                          *)
LEMMA StillKeeps ==
    ASSUME RosInv, UNCHANGED vars
    PROVE  RosInv' /\ (Hears' => Hears) /\ (Heard => Heard')
<1>0. /\ RosTypeOK
      /\ UNCHANGED <<input_mode, published, linked, inq, auditq, stats, pc, msg, owed>>
      /\ UNCHANGED spinning
      /\ UNCHANGED <<hog, contenders_running, context, background_error, window_start, main,
                     step, timed_out, snap, exit, lost>>
    BY DEF RosInv, vars, dds, threads, hogVars, mainVars
<1>1. RosTypeOK'
    BY <1>0 DEF RosTypeOK, Hogs
<1>2. StagePlace' /\ AtOnePlace' /\ Accounted'
    <2>1. Undisturbed
        BY <1>0 DEF Undisturbed, Kept
    <2> QED
        BY <1>1, <2>1, UndisturbedKeeps
<1>3. AuditPlace' /\ (Hears' => Hears) /\ (Heard => Heard')
    <2>1. Unheard
        BY <1>0 DEF Unheard, Kept, Hears, External
    <2> QED
        BY <1>1, <2>1, UnheardKeeps
<1>4. MainPlace'
    <2>1. /\ Failed => background_error # None
          /\ MainOrder /\ \A s \in Stages : LineOf(s)
        BY MainParts DEF RosInv
    <2>2. Failed' => background_error' # None
        BY <1>0, <2>1 DEF Failed, Hogs
    <2>3. MainOrder'
        BY <1>0, <2>1 DEF MainOrder
    <2>4. \A s \in Stages : LineOf(s)'
        <3>1. \A s \in Stages : SentIds(s)' = SentIds(s)
            BY <1>0, SentSame DEF SentIds
        <3> QED
            BY <1>0, <2>1, <3>1 DEF LineOf
    <2> QED
        BY <2>2, <2>3, <2>4, MainParts
<1> QED
    BY <1>1, <1>2, <1>3, <1>4 DEF RosInv

-----------------------------------------------------------------------------
(* The adapter                                                             *)

(* The topics of the adapter are the streams of the pipeline.                *)
LEMMA Topical == Topics = Streams /\ Topics = {"imu", "camera"}
BY DEF Topics, Streams

(* A callback of the adapter: one message more is received, and one is       *)
(* published or dropped, in the counters and in the trace.                   *)
LEMMA PublishIs ==
    ASSUME AdapterTypeOK, Balanced, NEW t \in Topics, NEW stamp \in Int, NEW sent \in BOOLEAN,
           PublishJob(t, stamp, sent)
    PROVE  /\ AdapterTypeOK' /\ Balanced' /\ UNCHANGED index
           /\ counts'[t].received = counts[t].received + 1
           /\ counts'[t].published = IF sent /\ StampedJobs(t, stamp) # {}
                                     THEN counts[t].published + 1 ELSE counts[t].published
           /\ \A u \in Topics \ {t} : counts'[u] = counts[u]
<1> DEFINE CountType == [received : Nat, published : Nat, dropped : Nat, first_source_ts : Nat]
           jobs == StampedJobs(t, stamp)
           done == sent /\ jobs # {}
<1>1. counts \in [Topics -> CountType] /\ counts[t] \in CountType
    BY DEF AdapterTypeOK
<1>2. PICK n \in Nat, p \in Nat, d \in Nat, f \in Nat :
          /\ n = counts[t].received + 1
          /\ p = (IF done THEN counts[t].published + 1 ELSE counts[t].published)
          /\ d = (IF done THEN counts[t].dropped ELSE counts[t].dropped + 1)
          /\ f = (IF jobs # {} /\ counts[t].first_source_ts = 0 THEN stamp
                  ELSE counts[t].first_source_ts)
    <2>1. jobs # {} => stamp \in Nat
        BY DEF StampedJobs
    <2>2. /\ counts[t].received \in Nat /\ counts[t].published \in Nat
          /\ counts[t].dropped \in Nat /\ counts[t].first_source_ts \in Nat
        BY <1>1
    <2>3. (IF jobs # {} /\ counts[t].first_source_ts = 0 THEN stamp
           ELSE counts[t].first_source_ts) \in Nat
        BY <2>1, <2>2
    <2>4. /\ counts[t].received + 1 \in Nat
          /\ (IF done THEN counts[t].published + 1 ELSE counts[t].published) \in Nat
          /\ (IF done THEN counts[t].dropped ELSE counts[t].dropped + 1) \in Nat
        BY <2>2
    <2> HIDE DEF jobs, done
    <2> QED
        BY <2>3, <2>4
<1>3. counts' = [counts EXCEPT ![t] = [counts[t] EXCEPT !.received = n, !.published = p,
                                                        !.dropped = d, !.first_source_ts = f]]
    BY <1>1, <1>2 DEF PublishJob
<1>4. delivery_trace' = (IF trace_delivery THEN Traced(done) ELSE delivery_trace) /\ UNCHANGED index
    BY DEF PublishJob
<1> HIDE DEF jobs, done
<1>5. /\ counts'[t].received = n /\ counts'[t].published = p /\ counts'[t].dropped = d
      /\ \A u \in Topics \ {t} : counts'[u] = counts[u]
      /\ counts' \in [Topics -> CountType]
    <2> DEFINE c == [counts[t] EXCEPT !.received = n, !.published = p, !.dropped = d,
                                      !.first_source_ts = f]
    <2>1. c.received = n /\ c.published = p /\ c.dropped = d
        BY <1>1
    <2>2. c \in CountType
        BY <1>1
    <2>3. counts' = [counts EXCEPT ![t] = c]
        BY <1>3
    <2> HIDE DEF CountType, c
    <2> QED
        BY <1>1, <2>1, <2>2, <2>3
<1>6. /\ delivery_trace' \in [records : 0 .. trace_limit, published : Nat, omitted : Nat]
      /\ trace_delivery =>
             \/ /\ delivery_trace'.records = delivery_trace.records + 1
                /\ delivery_trace'.omitted = delivery_trace.omitted
                /\ delivery_trace'.published = IF done THEN delivery_trace.published + 1
                                               ELSE delivery_trace.published
             \/ /\ delivery_trace'.records = delivery_trace.records
                /\ delivery_trace'.omitted = delivery_trace.omitted + 1
    <2>0. /\ delivery_trace \in [records : 0 .. trace_limit, published : Nat, omitted : Nat]
          /\ trace_limit \in Nat
        BY AdapterAssumption DEF AdapterTypeOK
    <2>1. CASE ~ trace_delivery
        BY <1>4, <2>0, <2>1
    <2>2. CASE trace_delivery /\ delivery_trace.records < trace_limit
        <3>1. PICK r \in 0 .. trace_limit, q \in Nat :
                  /\ r = delivery_trace.records + 1
                  /\ q = IF done THEN delivery_trace.published + 1 ELSE delivery_trace.published
            BY <2>0, <2>2
        <3>2. delivery_trace' = [delivery_trace EXCEPT !.records = r, !.published = q]
            BY <1>4, <2>0, <2>2, <3>1 DEF Traced
        <3> QED
            BY <2>0, <3>1, <3>2
    <2>3. CASE trace_delivery /\ ~ (delivery_trace.records < trace_limit)
        <3>1. delivery_trace' = [delivery_trace EXCEPT !.omitted = @ + 1]
            BY <1>4, <2>3 DEF Traced
        <3> QED
            BY <2>0, <3>1
    <2> QED
        BY <2>1, <2>2, <2>3
<1>7. AdapterTypeOK'
    BY <1>4, <1>5, <1>6 DEF AdapterTypeOK
<1>8. Balanced'
    <2>1. \A u \in Topics : counts'[u].received = counts'[u].published + counts'[u].dropped
        BY <1>1, <1>2, <1>5 DEF Balanced
    <2>2. ASSUME trace_delivery
          PROVE  LET Total(g) == counts'["imu"][g] + counts'["camera"][g] IN
                 /\ delivery_trace'.records + delivery_trace'.omitted = Total("received")
                 /\ delivery_trace'.omitted = 0 => delivery_trace'.published = Total("published")
        <3>1. PICK u \in Topics \ {t} : Topics = {t, u}
            BY Topical
        <3>2. LET Total(g) == counts[t][g] + counts[u][g] IN
              /\ delivery_trace.records + delivery_trace.omitted = Total("received")
              /\ delivery_trace.omitted = 0 => delivery_trace.published = Total("published")
            <4>1. /\ counts["imu"].received \in Nat /\ counts["camera"].received \in Nat
                  /\ counts["imu"].published \in Nat /\ counts["camera"].published \in Nat
                BY <1>1, Topical
            <4>2. /\ delivery_trace.records + delivery_trace.omitted
                         = counts["imu"].received + counts["camera"].received
                  /\ delivery_trace.omitted = 0 =>
                         delivery_trace.published
                             = counts["imu"].published + counts["camera"].published
                BY <2>2 DEF Balanced
            <4>3. (t = "imu" /\ u = "camera") \/ (t = "camera" /\ u = "imu")
                BY <3>1, Topical
            <4> QED
                BY <4>1, <4>2, <4>3
        <3>3. /\ delivery_trace.records \in Nat /\ delivery_trace.omitted \in Nat
              /\ delivery_trace.published \in Nat
            BY AdapterAssumption DEF AdapterTypeOK
        <3>4. /\ counts[t].received \in Nat /\ counts[u].received \in Nat
              /\ counts[t].published \in Nat /\ counts[u].published \in Nat
            BY <1>1
        <3>5. /\ counts'[t].received = counts[t].received + 1 /\ counts'[u] = counts[u]
              /\ counts'[t].published = IF done THEN counts[t].published + 1
                                        ELSE counts[t].published
            BY <1>2, <1>5
        <3>6. LET Total(g) == counts'[t][g] + counts'[u][g] IN
              /\ delivery_trace'.records + delivery_trace'.omitted = Total("received")
              /\ delivery_trace'.omitted = 0 => delivery_trace'.published = Total("published")
            BY <1>6, <2>2, <3>2, <3>3, <3>4, <3>5
        <3>7. /\ counts'["imu"].received \in Nat /\ counts'["camera"].received \in Nat
              /\ counts'["imu"].published \in Nat /\ counts'["camera"].published \in Nat
            BY <1>5, Topical
        <3>8. (t = "imu" /\ u = "camera") \/ (t = "camera" /\ u = "imu")
            BY <3>1, Topical
        <3> QED
            BY <3>6, <3>7, <3>8
    <2> QED
        BY <2>1, <2>2 DEF Balanced
<1> QED
    BY <1>2, <1>4, <1>5, <1>7, <1>8 DEF done, jobs

-----------------------------------------------------------------------------
(* Where the jobs come from                                                *)

(* Origins, stream by stream: the identities, and how many jobs there are.   *)
Played(t) == {i \in WindowOrdinals(t) : i <= played[t]}
IdentityOf(t) ==
    \A m \in ToSet(published[t]) :
        IF External
        THEN /\ \E i \in 1 .. played[t] : m.source_ts = Bag[t][i]
             /\ IF index[t].path THEN m.job_id \in JobIds(index[t], m.source_ts, 0)
                ELSE m.job_id <= counts[t].received
        ELSE m.job_id <= Len(published[t])
CountOf(t) ==
    IF External THEN Cardinality(Sent(WorkerOf(t))) <= Cardinality(Played(t))
    ELSE /\ Cardinality(Sent(WorkerOf(t))) <= Len(published[t])
         /\ Len(published[t]) <= Jobs[t]

(* The parts make up Origins.                                                *)
LEMMA OriginParts ==
    /\ Origins <=> \A t \in Streams : IdentityOf(t) /\ CountOf(t)
    /\ Origins' <=> \A t \in Streams : IdentityOf(t)' /\ CountOf(t)'
<1>1. Origins <=> \A t \in Streams : IdentityOf(t) /\ CountOf(t)
    BY DEF Origins, IdentityOf, CountOf, Played
<1>2. Origins' <=> \A t \in Streams : IdentityOf(t)' /\ CountOf(t)'
    BY DEF Origins, IdentityOf, CountOf, Played
<1> QED
    BY <1>1, <1>2

(* The bag of a case, or no bag.                                             *)
LEMMA BagTypes ==
    ASSUME SessionTypeOK, NEW t \in Streams
    PROVE  /\ Bag[t] \in Seq(Int) /\ recording.offset[t] \in Nat
           /\ index = recording.index => (index[t].path => IsInjective(Bag[t]))
           /\ played[t] \in Nat /\ played[t] <= Len(Bag[t]) /\ counts[t].received \in Nat
           /\ IsFiniteSet(WindowOrdinals(t)) /\ IsFiniteSet(Played(t))
           /\ Cardinality(Played(t)) \in Nat
<1>1. /\ Bag[t] \in Seq(Int) /\ recording.offset[t] \in Nat
      /\ index = recording.index => (index[t].path => IsInjective(Bag[t]))
    <2>1. CASE recording \in Recordings
        BY <2>1, RecordingsAssumption DEF Bag
    <2>2. CASE recording = NoBag
        BY <2>2 DEF NoBag, Bag
    <2> QED
        BY <2>1, <2>2 DEF SessionTypeOK
<1>2. IsFiniteSet(WindowOrdinals(t)) /\ IsFiniteSet(Played(t)) /\ Cardinality(Played(t)) \in Nat
    <2>1. /\ WindowOrdinals(t) \subseteq 1 .. Len(Bag[t]) /\ Played(t) \subseteq 1 .. Len(Bag[t])
          /\ Len(Bag[t]) \in Int
        BY <1>1 DEF WindowOrdinals, Played
    <2>2. IsFiniteSet(1 .. Len(Bag[t]))
        BY <2>1, FS_Interval
    <2> QED
        BY <2>1, <2>2, FS_Subset, FS_CardinalityType
<1>3. counts[t].received \in Nat
    BY Topical DEF SessionTypeOK, AdapterTypeOK
<1> QED
    BY <1>1, <1>2, <1>3 DEF SessionTypeOK

(* What a source has sent is stamped.                                        *)
LEMMA SentTyped ==
    ASSUME RosTypeOK, NEW t \in Streams, NEW m \in ToSet(published[t])
    PROVE  m \in StampedJob /\ m.job_id \in Nat /\ m.source_ts \in Nat
<1>1. published[t] \in Seq(StampedJob)
    BY DEF RosTypeOK
<1>2. m \in StampedJob
    BY <1>1, SeqElements
<1> QED
    BY <1>2 DEF StampedJob

(* A stream that sends nothing keeps the origins of its jobs.                *)
LEMMA OriginStays ==
    ASSUME SessionTypeOK, SessionTypeOK', RosTypeOK, NEW t \in Streams,
           IdentityOf(t), CountOf(t),
           UNCHANGED <<input_mode, index, recording>>, published'[t] = published[t],
           Sent(WorkerOf(t))' = Sent(WorkerOf(t)),
           played[t] <= played'[t], counts[t].received <= counts'[t].received
    PROVE  IdentityOf(t)' /\ CountOf(t)'
<1>0. /\ played[t] \in Nat /\ counts[t].received \in Nat /\ IsFiniteSet(Played(t))
      /\ Cardinality(Played(t)) \in Nat /\ IsFiniteSet(WindowOrdinals(t)) /\ Bag' = Bag
      /\ played'[t] \in Nat /\ counts'[t].received \in Nat
    BY BagTypes, Topical DEF Bag, SessionTypeOK, AdapterTypeOK
<1>1. IdentityOf(t)'
    <2> SUFFICES ASSUME NEW m \in ToSet(published[t])
                 PROVE IF External
                       THEN /\ \E i \in 1 .. played'[t] : m.source_ts = Bag[t][i]
                            /\ IF index[t].path THEN m.job_id \in JobIds(index[t], m.source_ts, 0)
                               ELSE m.job_id <= counts'[t].received
                       ELSE m.job_id <= Len(published[t])
        BY <1>0 DEF IdentityOf, External
    <2>1. m.job_id \in Nat
        BY SentTyped
    <2>2. IF External
          THEN /\ \E i \in 1 .. played[t] : m.source_ts = Bag[t][i]
               /\ IF index[t].path THEN m.job_id \in JobIds(index[t], m.source_ts, 0)
                  ELSE m.job_id <= counts[t].received
          ELSE m.job_id <= Len(published[t])
        BY DEF IdentityOf
    <2>3. (\E i \in 1 .. played[t] : m.source_ts = Bag[t][i]) =>
              \E i \in 1 .. played'[t] : m.source_ts = Bag[t][i]
        BY <1>0
    <2> QED
        BY <1>0, <2>1, <2>2, <2>3
<1>2. CountOf(t)'
    <2>1. Played(t) \subseteq Played(t)' /\ IsFiniteSet(Played(t)')
        <3>1. WindowOrdinals(t)' = WindowOrdinals(t)
            BY <1>0 DEF WindowOrdinals
        <3>0. Bag[t] \in Seq(Int)
            BY BagTypes
        <3>2. \A i \in WindowOrdinals(t) : i \in Nat
            BY <3>0 DEF WindowOrdinals
        <3>3. Played(t)' \subseteq WindowOrdinals(t)
            BY <3>1 DEF Played
        <3>4. IsFiniteSet(Played(t)')
            BY <1>0, <3>3, FS_Subset
        <3> QED
            BY <1>0, <3>1, <3>2, <3>4 DEF Played
    <2>2. Cardinality(Played(t)) <= Cardinality(Played(t)') /\ Cardinality(Played(t)') \in Nat
        BY <2>1, FS_Subset, FS_CardinalityType
    <2>3. Cardinality(Sent(WorkerOf(t))) \in Nat
        BY SentFinite, FS_CardinalityType, Names
    <2> QED
        BY <1>0, <2>2, <2>3 DEF CountOf, External
<1> QED
    BY <1>1, <1>2

(* One job more is at most one more of the window.                           *)
LEMMA SentOneMore ==
    ASSUME RosTypeOK, NEW t \in Streams, NEW m,
           \A s \in Stages : Sent(s)' = IF StreamOf(s) = t /\ Measured(m) THEN Sent(s) \cup {m}
                                        ELSE Sent(s)
    PROVE  /\ Cardinality(Sent(WorkerOf(t))) \in Nat
           /\ Cardinality(Sent(WorkerOf(t))') <= Cardinality(Sent(WorkerOf(t))) + 1
           /\ Cardinality(Sent(WorkerOf(t))') \in Nat
           /\ ~ Measured(m) => Cardinality(Sent(WorkerOf(t))') = Cardinality(Sent(WorkerOf(t)))
<1>d. PICK w : w = WorkerOf(t)
    OBVIOUS
<1>1. w \in Stages /\ StreamOf(w) = t /\ IsFiniteSet(Sent(w)) /\ Cardinality(Sent(w)) \in Nat
    BY <1>d, SentFinite, FS_CardinalityType, Names
<1>2. CASE Measured(m)
    <2>1. Sent(w)' = Sent(w) \cup {m}
        BY <1>1, <1>2
    <2>2. /\ Cardinality(Sent(w) \cup {m}) =
                 IF m \in Sent(w) THEN Cardinality(Sent(w)) ELSE Cardinality(Sent(w)) + 1
        BY <1>1, FS_AddElement
    <2> QED
        BY <1>d, <1>1, <1>2, <2>1, <2>2
<1>3. CASE ~ Measured(m)
    <2>1. Sent(w)' = Sent(w)
        BY <1>1, <1>3
    <2> QED
        BY <1>d, <1>1, <1>3, <2>1
<1> QED
    BY <1>2, <1>3

(* A job made of the next message of the bag is new, and keeps the origins.  *)
LEMMA OriginSends ==
    ASSUME SessionTypeOK, SessionTypeOK', RosTypeOK, NEW t \in Streams, External,
           IdentityOf(t), CountOf(t), index = recording.index,
           UNCHANGED <<input_mode, index, recording>>,
           played[t] < Len(Bag[t]), played'[t] = played[t] + 1,
           counts'[t].received = counts[t].received + 1,
           NEW m \in StampedJobs(t, Bag[t][played[t] + 1])
    PROVE  /\ m \in StampedJob /\ m \notin ToSet(published[t])
           /\ (/\ ToSet(published'[t]) = ToSet(published[t]) \cup {m}
               /\ \A s \in Stages : Sent(s)' = IF StreamOf(s) = t /\ Measured(m)
                                               THEN Sent(s) \cup {m} ELSE Sent(s))
                 => IdentityOf(t)' /\ CountOf(t)'
<1>d. PICK k : k = played[t] + 1
    OBVIOUS
<1>0. /\ played[t] \in Nat /\ counts[t].received \in Nat /\ Bag[t] \in Seq(Int) /\ Bag' = Bag
      /\ index[t].path => IsInjective(Bag[t])
      /\ k \in 1 .. Len(Bag[t]) /\ k \in 1 .. played'[t] /\ k \notin 1 .. played[t]
      /\ Len(Bag[t]) \in Nat
    BY SMTT(30), <1>d, BagTypes DEF Bag
<1>1. /\ m.source_ts = Bag[t][k] /\ m.source_ts \in Nat /\ m \in StampedJob
      /\ IF index[t].path THEN m.job_id \in JobIds(index[t], m.source_ts, 0)
         ELSE m.job_id = counts[t].received + 1
    <2>a. PICK x : x = Bag[t][k]
        OBVIOUS
    <2>b. m \in StampedJobs(t, x)
        BY <1>d, <2>a
    <2>c. x >= 0 /\ m \in {[job_id |-> j, source_ts |-> x] :
                              j \in JobIds(index[t], x, counts[t].received + 1)}
        <3>1. CASE x < 0
            BY <2>b, <3>1 DEF StampedJobs
        <3>2. CASE ~ (x < 0)
            <4>1. x \in Int
                BY <1>0, <2>a
            <4>2. m \in {[job_id |-> j, source_ts |-> x] :
                              j \in JobIds(index[t], x, counts[t].received + 1)}
                BY <2>b, <3>2 DEF StampedJobs
            <4> QED
                BY <3>2, <4>1, <4>2
        <3> QED
            BY <3>1, <3>2
    <2>1. PICK j \in JobIds(index[t], Bag[t][k], counts[t].received + 1) :
              m = [job_id |-> j, source_ts |-> Bag[t][k]] /\ Bag[t][k] >= 0
        BY <2>a, <2>c
    <2>2. Bag[t][k] \in Nat
        BY <1>0, <2>1
    <2>3. index[t] \in IndexFile
        BY Topical DEF SessionTypeOK, AdapterTypeOK
    <2>4. j \in Nat
        <3>1. CASE ~ index[t].path
            BY <1>0, <2>1, <3>1 DEF JobIds
        <3>2. CASE index[t].path
            <4>1. index[t].rows \in Seq([stamp : Nat, ordinal : Nat])
                BY <2>3 DEF IndexFile
            <4>2. \A i \in DOMAIN index[t].rows : index[t].rows[i] \in [stamp : Nat, ordinal : Nat]
                <5>d. PICK q, R : q = index[t].rows /\ R = [stamp : Nat, ordinal : Nat]
                    OBVIOUS
                <5>1. q \in Seq(R)
                    BY <4>1, <5>d
                <5>2. \A i \in DOMAIN q : q[i] \in R
                    BY <5>1
                <5> QED
                    BY <5>d, <5>2
            <4>3. \A i \in DOMAIN index[t].rows : index[t].rows[i].ordinal \in Nat
                BY <4>2
            <4>4. j \in {index[t].rows[i].ordinal : i \in {l \in DOMAIN index[t].rows :
                                                        index[t].rows[l].stamp = Bag[t][k]}}
                BY <2>1, <3>2 DEF JobIds
            <4> QED
                BY <4>3, <4>4
        <3> QED
            BY <3>1, <3>2
    <2>5. m.job_id = j /\ m.source_ts = Bag[t][k] /\ m \in StampedJob
        BY <2>1, <2>2, <2>4 DEF StampedJob
    <2> QED
        BY <2>1, <2>2, <2>5 DEF JobIds
<1>2. m \notin ToSet(published[t])
    <2> SUFFICES ASSUME m \in ToSet(published[t]) PROVE FALSE
        OBVIOUS
    <2>1. PICK i \in 1 .. played[t] : m.source_ts = Bag[t][i]
        BY DEF IdentityOf
    <2>2. i # k /\ i \in 1 .. Len(Bag[t])
        BY <1>0, <2>1
    <2>3. CASE index[t].path
        <3>1. DOMAIN Bag[t] = 1 .. Len(Bag[t])
            BY <1>0
        <3>2. \A a, b \in DOMAIN Bag[t] : Bag[t][a] = Bag[t][b] => a = b
            BY <1>0, <2>3 DEF IsInjective
        <3> QED
            BY <1>0, <1>1, <2>1, <2>2, <3>1, <3>2
    <2>4. CASE ~ index[t].path
        <3>1. m.job_id <= counts[t].received
            BY <2>4 DEF IdentityOf
        <3> QED
            BY SMTT(30), <1>0, <1>1, <2>4, <3>1
    <2> QED
        BY <2>3, <2>4
<1>3. ASSUME ToSet(published'[t]) = ToSet(published[t]) \cup {m},
             \A s \in Stages : Sent(s)' = IF StreamOf(s) = t /\ Measured(m) THEN Sent(s) \cup {m}
                                          ELSE Sent(s)
      PROVE  IdentityOf(t)' /\ CountOf(t)'
    <2>1. ASSUME NEW x \in ToSet(published[t]) \cup {m}
          PROVE  /\ \E i \in 1 .. played'[t] : x.source_ts = Bag[t][i]
                 /\ IF index[t].path THEN x.job_id \in JobIds(index[t], x.source_ts, 0)
                    ELSE x.job_id <= counts'[t].received
        <3>1. CASE x = m
            BY <1>0, <1>1, <3>1
        <3>2. CASE x \in ToSet(published[t])
            <4>1. /\ \E i \in 1 .. played[t] : x.source_ts = Bag[t][i]
                  /\ IF index[t].path THEN x.job_id \in JobIds(index[t], x.source_ts, 0)
                     ELSE x.job_id <= counts[t].received
                BY <3>2 DEF IdentityOf
            <4>2. x.job_id \in Nat
                BY <3>2, SentTyped
            <4> QED
                BY SMTT(30), <1>0, <4>1, <4>2
        <3> QED
            BY <3>1, <3>2
    <2>2. IdentityOf(t)'
        BY <1>0, <1>3, <2>1 DEF IdentityOf, External
    <2>3. CASE Measured(m)
        <3>1. WindowOrdinals(t)' = WindowOrdinals(t)
            BY <1>0 DEF WindowOrdinals
        <3>2. k \in WindowOrdinals(t)
            BY <1>0, <1>1, <2>3 DEF WindowOrdinals, Measured, InSourceWindow
        <3>3. Played(t)' = Played(t) \cup {k} /\ k \notin Played(t)
            <4>1. \A i \in WindowOrdinals(t) : i \in Nat
                BY <1>0 DEF WindowOrdinals
            <4>2. \A i \in Nat : i <= played'[t] <=> i <= played[t] \/ i = k
                BY <1>d, <1>0
            <4>3. ~ (k <= played[t])
                BY <1>d, <1>0
            <4> QED
                BY <3>1, <3>2, <4>1, <4>2, <4>3 DEF Played
        <3>4. Cardinality(Played(t)') = Cardinality(Played(t)) + 1 /\ Cardinality(Played(t)) \in Nat
            BY <3>3, BagTypes, FS_AddElement
        <3>5. Cardinality(Sent(WorkerOf(t))) <= Cardinality(Played(t))
            BY DEF CountOf
        <3>6. /\ Cardinality(Sent(WorkerOf(t))') <= Cardinality(Sent(WorkerOf(t))) + 1
              /\ Cardinality(Sent(WorkerOf(t))) \in Nat /\ Cardinality(Sent(WorkerOf(t))') \in Nat
            BY <1>3, SentOneMore
        <3>7. Cardinality(Sent(WorkerOf(t))') <= Cardinality(Played(t)')
            BY <3>4, <3>5, <3>6
        <3>8. CountOf(t)'
            BY <3>7 DEF CountOf, External
        <3> QED
            BY <2>2, <3>8
    <2>4. CASE ~ Measured(m)
        <3>1. Played(t) \subseteq Played(t)' /\ IsFiniteSet(Played(t)')
            <4>1. WindowOrdinals(t)' = WindowOrdinals(t) /\ IsFiniteSet(WindowOrdinals(t))
                BY <1>0, BagTypes DEF WindowOrdinals
            <4>2. \A i \in WindowOrdinals(t) : i \in Nat
                BY <1>0 DEF WindowOrdinals
            <4>3. Played(t)' \subseteq WindowOrdinals(t)
                BY <4>1 DEF Played
            <4>4. \A i \in Nat : i <= played[t] => i <= played'[t]
                BY <1>0
            <4>5. IsFiniteSet(Played(t)')
                BY <4>1, <4>3, FS_Subset
            <4> QED
                BY <4>1, <4>2, <4>4, <4>5 DEF Played
        <3>2. Cardinality(Played(t)) <= Cardinality(Played(t)')
            BY <3>1, FS_Subset
        <3>3. Cardinality(Played(t)) \in Nat /\ Cardinality(Played(t)') \in Nat
            BY <3>1, BagTypes, FS_CardinalityType
        <3>4. Cardinality(Sent(WorkerOf(t))) <= Cardinality(Played(t))
            BY DEF CountOf
        <3>5. /\ Cardinality(Sent(WorkerOf(t))') = Cardinality(Sent(WorkerOf(t)))
              /\ Cardinality(Sent(WorkerOf(t))) \in Nat
            BY <1>3, <2>4, SentOneMore
        <3>6. Cardinality(Sent(WorkerOf(t))') <= Cardinality(Played(t)')
            BY <3>2, <3>3, <3>4, <3>5
        <3>7. CountOf(t)'
            BY <3>6 DEF CountOf, External
        <3> QED
            BY <2>2, <3>7
    <2> QED
        BY <2>3, <2>4
<1> QED
    BY <1>1, <1>2, <1>3

-----------------------------------------------------------------------------
(* A case                                                                  *)

(* Discovery matches subscriptions and parts with none.                      *)
LEMMA LinkedGrows ==
    ASSUME RosStep
    PROVE  linked \subseteq linked'
<1>1. ASSUME NEW u \in Subscriptions, Link(u) PROVE linked \subseteq linked'
    BY <1>1 DEF Link
<1>2. ASSUME NEW t \in Streams, Generate(t) PROVE linked' = linked
    BY <1>2 DEF Generate, Send
<1>3. ASSUME NEW t \in Threads, Enter(t) \/ Interrupted(t) \/ Catch(t) PROVE linked' = linked
    BY <1>3 DEF Enter, Interrupted, Catch, dds
<1>4. ASSUME NEW s \in Stages,
             Take(s) \/ Drop(s) \/ Settle(s) \/ Begin(s) \/ Complete(s) \/ Publish(s) \/ Throw(s)
      PROVE  linked' = linked
    BY <1>4 DEF Take, Drop, Settle, Begin, Complete, Publish, Throw, dds
<1>5. ASSUME (\E t \in Streams : AuditTake(t)) \/ AuditOffer PROVE linked' = linked
    BY <1>5 DEF AuditTake, AuditOffer, dds
<1>6. ASSUME NEW h \in Hogs, HogEnds(h) \/ HogFails(h) PROVE linked' = linked
    BY <1>6 DEF HogEnds, HogFails, dds
<1>7. ASSUME Main PROVE linked' = linked
    BY <1>7 DEF Main, Connect, ConnectFails, JoinGenerators, WindowOpens, WindowTimesOut,
       Snapshot, StopHogs, Cancel, Finish, Quiet, NotMain, dds
<1> QED
    BY <1>1, <1>2, <1>3, <1>4, <1>5, <1>6, <1>7 DEF RosStep, Thread, Stage, Audit

(* What AuditHearsAll adds to the gate.                                      *)
LEMMA AuditIs == RosTypeOK /\ Gated => (AuditHearsAll <=> (Hears => Heard))
<1> SUFFICES ASSUME RosTypeOK, Gated PROVE AuditHearsAll <=> (Hears => Heard)
    OBVIOUS
<1>1. WaitingWhere
    BY WaitingIs
<1> QED
    BY <1>1 DEF WaitingWhere, AuditHearsAll, Hears, Gated

(* And in the next state.                                                    *)
LEMMA AuditIsNext == RosTypeOK' /\ Gated' => (AuditHearsAll' <=> (Hears' => Heard'))
BY AuditIs, PTL

(* The player is waited for.                                                 *)
GateOpen == External /\ Spinning /\ Subscriptions \ {"estimator", "mapping"} \subseteq linked

(* A step in which no source sends.                                          *)
LEMMA QuietKeeps ==
    ASSUME SessionInv, RosInv', SessionTypeOK', Balanced',
           UNCHANGED <<published, input_mode, index, recording>>, linked \subseteq linked',
           Hears' => Hears, Heard => Heard',
           harness' = harness \/ GateOpen \/ harness' = "failed",
           harness = "playing" => harness' = "playing",
           \A t \in Streams : /\ played[t] <= played'[t]
                              /\ counts[t].received <= counts'[t].received
                              /\ counts'[t].published = counts[t].published
    PROVE  SessionInv'
<1>0. /\ RosTypeOK /\ RosTypeOK' /\ SessionTypeOK /\ Gated /\ Origins /\ (Hears => Heard)
      /\ External' = External
    BY AuditIs DEF SessionInv, RosInv, External
<1>1. Gated'
    <2>1. /\ recording' \in (IF External' THEN Recordings ELSE {NoBag})
          /\ index' = recording'.index
        BY <1>0 DEF Gated
    <2>2. harness' \in {"ready", "playing"} => GateOpen'
        <3>1. harness' \in {"ready", "playing"} => GateOpen
            BY <1>0 DEF Gated, GateOpen
        <3>2. GateOpen => GateOpen'
            BY <1>0 DEF GateOpen, Spinning
        <3> QED
            BY <3>1, <3>2
    <2>3. External' => \A t \in Streams : counts'[t].published = Len(published'[t])
        BY <1>0 DEF Gated
    <2>4. External' /\ harness' # "playing" => \A t \in Streams : published'[t] = <<>>
        BY <1>0 DEF Gated
    <2> QED
        BY <2>1, <2>2, <2>3, <2>4 DEF Gated, GateOpen, External
<1>2. Origins'
    <2> SUFFICES ASSUME NEW t \in Streams PROVE IdentityOf(t)' /\ CountOf(t)'
        BY OriginParts
    <2>1. IdentityOf(t) /\ CountOf(t)
        BY <1>0, OriginParts
    <2>2. Sent(WorkerOf(t))' = Sent(WorkerOf(t))
        BY SentSame, Names
    <2> QED
        BY <1>0, <2>1, <2>2, OriginStays
<1>3. AuditHearsAll'
    BY <1>0, <1>1, AuditIsNext
<1> QED
    BY <1>1, <1>2, <1>3 DEF SessionInv

(* The script changes nothing but its own state.                             *)
LEMMA ScriptTypes ==
    ASSUME SessionTypeOK, Balanced, UNCHANGED <<adapterVars, recording>>,
           players' \subseteq Streams,
           harness' \in {"starting", "ready", "playing", "failed"},
           played' \in [Streams -> Nat], \A t \in Streams : played'[t] <= Len(Bag[t])
    PROVE  SessionTypeOK' /\ Balanced'
<1>1. AdapterTypeOK' /\ Balanced'
    BY DEF SessionTypeOK, AdapterTypeOK, Balanced, adapterVars
<1>2. Bag' = Bag
    BY DEF Bag
<1> QED
    BY <1>1, <1>2 DEF SessionTypeOK

(* The steps of discovery, of the script and of the player.                  *)
LEMMA ScriptSteps ==
    ASSUME SessionInv,
           \/ \E t \in Streams : Discover(t) \/ Miss(t)
           \/ AdapterReady \/ NotReady \/ Resume
    PROVE  SessionInv'
<1>0. /\ RosInv /\ SessionTypeOK /\ Balanced /\ Gated /\ RosTypeOK
      /\ played \in [Streams -> Nat] /\ players \subseteq Streams
      /\ \A t \in Streams : Len(Bag[t]) \in Nat /\ played[t] \in Nat /\ played[t] <= Len(Bag[t])
      /\ harness \in {"starting", "ready", "playing", "failed"}
      /\ \A t \in Streams : counts[t].received \in Nat
    <2>1. \A t \in Streams : Bag[t] \in Seq(Int) /\ counts[t].received \in Nat
        BY BagTypes DEF SessionInv
    <2> QED
        BY <2>1 DEF SessionInv, RosInv, SessionTypeOK
<1>1. UNCHANGED <<vars, adapterVars, recording>>
    BY DEF Discover, Miss, AdapterReady, NotReady, Resume, scriptVars
<1>2. /\ RosInv' /\ (Hears' => Hears) /\ (Heard => Heard')
      /\ UNCHANGED <<published, input_mode, index, counts, linked>>
    BY <1>0, <1>1, StillKeeps DEF vars, dds, adapterVars
<1>3. players' \subseteq Streams /\ harness' \in {"starting", "ready", "playing", "failed"}
    BY <1>0 DEF Discover, Miss, AdapterReady, NotReady, Resume, scriptVars
<1>4. /\ played' \in [Streams -> Nat]
      /\ \A t \in Streams : played[t] <= played'[t] /\ played'[t] <= Len(Bag[t])
    <2>1. ASSUME NEW t \in Streams, Miss(t)
          PROVE  /\ played' \in [Streams -> Nat]
                 /\ \A u \in Streams : played[u] <= played'[u] /\ played'[u] <= Len(Bag[u])
        <3>1. played' = [played EXCEPT ![t] = @ + 1] /\ played[t] < Len(Bag[t])
            BY <2>1 DEF Miss
        <3> QED
            BY <1>0, <3>1
    <2>2. CASE UNCHANGED played
        BY <1>0, <2>2
    <2> QED
        BY <2>1, <2>2 DEF Discover, AdapterReady, NotReady, Resume
<1>5. harness' = harness \/ GateOpen \/ harness' = "failed"
    <2>1. CASE AdapterReady
        <3>1. \A t \in Streams : Readers(t) = 2
            BY <2>1, CaseAssumption, Topical DEF AdapterReady, Ready
        <3>2. \A t \in Streams : WorkerOf(t) \in linked /\ AuditOf(t) \in linked
            <4> SUFFICES ASSUME NEW t \in Streams
                         PROVE  WorkerOf(t) \in linked /\ AuditOf(t) \in linked
                OBVIOUS
            <4> DEFINE both == {WorkerOf(t), AuditOf(t)}
            <4>1. WorkerOf(t) # AuditOf(t)
                BY DEF WorkerOf, AuditOf
            <4>2. IsFiniteSet(both) /\ Cardinality(both) = 2
                <5>1. IsFiniteSet({WorkerOf(t)}) /\ Cardinality({WorkerOf(t)}) = 1
                    BY FS_Singleton
                <5>2. both = {WorkerOf(t)} \cup {AuditOf(t)} /\ AuditOf(t) \notin {WorkerOf(t)}
                    BY <4>1
                <5> QED
                    BY <5>1, <5>2, FS_AddElement
            <4>3. both \cap linked \subseteq both /\ Cardinality(both \cap linked) = 2
                BY <3>1 DEF Readers
            <4> HIDE DEF both
            <4>4. both \cap linked = both
                BY <4>2, <4>3, FS_Subset
            <4> QED
                BY <4>4 DEF both
        <3>3. Subscriptions \ {"estimator", "mapping"} \subseteq linked
            BY <3>2 DEF Subscriptions, Stages, Streams, WorkerOf, AuditOf
        <3> QED
            BY <2>1, <3>3 DEF AdapterReady, GateOpen
    <2>2. CASE Resume
        BY <1>0, <2>2 DEF Resume, Gated, GateOpen
    <2>3. CASE NotReady
        BY <2>3 DEF NotReady
    <2>4. CASE \E t \in Streams : Discover(t) \/ Miss(t)
        BY <2>4 DEF Discover, Miss, scriptVars
    <2> QED
        BY <2>1, <2>2, <2>3, <2>4
<1>6. SessionTypeOK' /\ Balanced' /\ (harness = "playing" => harness' = "playing")
    <2>1. harness = "playing" => harness' = "playing"
        BY DEF Discover, Miss, AdapterReady, NotReady, Resume, scriptVars
    <2> QED
        BY <1>0, <1>1, <1>3, <1>4, <2>1, ScriptTypes
<1>7. \A t \in Streams : /\ played[t] <= played'[t]
                         /\ counts[t].received <= counts'[t].received
                         /\ counts'[t].published = counts[t].published
    BY <1>0, <1>2, <1>4
<1> QED
    BY <1>1, <1>2, <1>5, <1>6, <1>7, QuietKeeps

(* The next message of the bag leaves the player.                            *)
LEMMA PlayedOn ==
    ASSUME SessionTypeOK, NEW t \in Streams, played[t] < Len(Bag[t]),
           played' = [played EXCEPT ![t] = @ + 1],
           AdapterTypeOK', UNCHANGED <<recording, players, harness>>
    PROVE  /\ SessionTypeOK' /\ Bag[t][played[t] + 1] \in Int
           /\ played'[t] = played[t] + 1
           /\ \A u \in Streams : played[u] <= played'[u]
           /\ \A u \in Streams \ {t} : played'[u] = played[u]
<1>1. \A u \in Streams : Bag[u] \in Seq(Int)
    BY BagTypes
<1>2. /\ played \in [Streams -> Nat] /\ \A u \in Streams : played[u] <= Len(Bag[u])
      /\ \A u \in Streams : Len(Bag[u]) \in Nat /\ played[u] \in Nat
    BY <1>1 DEF SessionTypeOK
<1>3. /\ played' \in [Streams -> Nat] /\ played'[t] = played[t] + 1
      /\ \A u \in Streams \ {t} : played'[u] = played[u]
    BY <1>2
<1>4. \A u \in Streams : played'[u] <= Len(Bag[u]) /\ played[u] <= played'[u]
    BY <1>2, <1>3
<1>5. Bag' = Bag
    BY DEF Bag
<1>6. Bag[t][played[t] + 1] \in Int
    <2>d. PICK q, i : q = Bag[t] /\ i = played[t] + 1
        OBVIOUS
    <2>1. q \in Seq(Int) /\ i \in 1 .. Len(q)
        BY <1>1, <1>2, <2>d
    <2> QED
        BY <2>1, <2>d
<1> QED
    BY <1>3, <1>4, <1>5, <1>6 DEF SessionTypeOK

(* publish_job() for the next message of the bag.                            *)
LEMMA ReceiveKeeps ==
    ASSUME SessionInv, NEW t \in Streams, Receive(t)
    PROVE  SessionInv'
<1>d. PICK stamp : stamp = Bag[t][played[t] + 1]
    OBVIOUS
<1>0. /\ RosInv /\ SessionTypeOK /\ Balanced /\ Gated /\ Origins /\ RosTypeOK /\ (Hears => Heard)
      /\ AdapterTypeOK /\ harness = "playing" /\ External /\ index = recording.index
      /\ AuditOf(t) \in linked
      /\ \A u \in Streams : counts[u].published = Len(published[u])
      /\ t \in Topics
    <2>1. GateOpen /\ harness = "playing"
        BY DEF SessionInv, Gated, GateOpen, Receive
    <2>2. AuditOf(t) \in Subscriptions \ {"estimator", "mapping"}
        BY DEF AuditOf, Subscriptions
    <2> QED
        BY <2>1, <2>2, AuditIs, Topical DEF SessionInv, RosInv, Gated, GateOpen, SessionTypeOK
<1>1. PICK sent \in BOOLEAN :
          /\ PublishJob(t, stamp, sent)
          /\ sent => IF StampedJobs(t, stamp) = {} THEN UNCHANGED vars
                     ELSE \E m \in StampedJobs(t, stamp) : Send(t, m)
          /\ ~ sent => UNCHANGED vars
    BY <1>d DEF Receive
<1>2. /\ played[t] < Len(Bag[t]) /\ played' = [played EXCEPT ![t] = @ + 1]
      /\ UNCHANGED <<recording, players, harness>>
    BY DEF Receive, scriptVars
<1>3. stamp \in Int
    <2>1. Bag[t] \in Seq(Int) /\ played[t] + 1 \in 1 .. Len(Bag[t])
        BY <1>0, <1>2, BagTypes
    <2>d. PICK q, i : q = Bag[t] /\ i = played[t] + 1
        OBVIOUS
    <2> QED
        BY <1>d, <2>1, <2>d
<1>4. /\ AdapterTypeOK' /\ Balanced' /\ UNCHANGED index
      /\ counts'[t].received = counts[t].received + 1
      /\ counts'[t].published = IF sent /\ StampedJobs(t, stamp) # {}
                                THEN counts[t].published + 1 ELSE counts[t].published
      /\ \A u \in Topics \ {t} : counts'[u] = counts[u]
    BY <1>0, <1>1, <1>3, PublishIs
<1>5. /\ SessionTypeOK' /\ played'[t] = played[t] + 1
      /\ \A u \in Streams : played[u] <= played'[u]
      /\ \A u \in Streams \ {t} : played'[u] = played[u]
    BY <1>0, <1>2, <1>4, PlayedOn
<1>6. /\ \A u \in Streams : counts[u].received \in Nat /\ counts[u].received <= counts'[u].received
      /\ \A u \in Streams \ {t} : counts'[u] = counts[u]
    <2>1. \A u \in Streams : counts[u].received \in Nat
        BY <1>0, BagTypes
    <2> QED
        BY <1>4, <2>1, Topical
<1>7. CASE UNCHANGED vars /\ ~ (sent /\ StampedJobs(t, stamp) # {})
    <2>1. /\ RosInv' /\ (Hears' => Hears) /\ (Heard => Heard')
          /\ UNCHANGED <<published, input_mode, linked>>
        BY <1>0, <1>7, StillKeeps DEF vars, dds
    <2>2. \A u \in Streams : counts'[u].published = counts[u].published
        BY <1>4, <1>6, <1>7
    <2> QED
        BY <1>2, <1>4, <1>5, <1>6, <2>1, <2>2, QuietKeeps
<1>8. ASSUME sent, NEW m \in StampedJobs(t, stamp), Send(t, m) PROVE SessionInv'
    <2>1. IdentityOf(t) /\ CountOf(t)
        BY <1>0, OriginParts
    <2>2. UNCHANGED input_mode
        BY <1>8 DEF Send
    <2>3. /\ m \in StampedJob /\ m \notin ToSet(published[t])
          /\ (/\ ToSet(published'[t]) = ToSet(published[t]) \cup {m}
              /\ \A s \in Stages : Sent(s)' = IF StreamOf(s) = t /\ Measured(m)
                                              THEN Sent(s) \cup {m} ELSE Sent(s))
                => IdentityOf(t)' /\ CountOf(t)'
        BY <1>d, <1>0, <1>2, <1>4, <1>5, <1>8, <2>1, <2>2, OriginSends
    <2>4. /\ RosInv' /\ (Hears' => Hears)
          /\ AuditOf(t) \in linked /\ context /\ Heard => Heard'
          /\ \A s \in Stages : Sent(s)' = IF StreamOf(s) = t /\ Measured(m) THEN Sent(s) \cup {m}
                                          ELSE Sent(s)
          /\ ToSet(published'[t]) = ToSet(published[t]) \cup {m}
          /\ Len(published'[t]) = Len(published[t]) + 1
          /\ \A u \in Streams \ {t} : published'[u] = published[u]
          /\ UNCHANGED <<input_mode, linked>>
        BY <1>0, <1>8, <2>3, SendKeeps
    <2>5. Origins'
        <3> SUFFICES ASSUME NEW u \in Streams PROVE IdentityOf(u)' /\ CountOf(u)'
            BY OriginParts
        <3>1. CASE u = t
            BY <2>3, <2>4, <3>1
        <3>2. CASE u # t
            <4>1. IdentityOf(u) /\ CountOf(u)
                BY <1>0, OriginParts
            <4>2. published'[u] = published[u] /\ played[u] <= played'[u]
                BY <1>5, <2>4, <3>2
            <4>3. Sent(WorkerOf(u))' = Sent(WorkerOf(u))
                BY <2>4, <3>2, Names
            <4> QED
                BY <1>0, <1>2, <1>4, <1>5, <1>6, <2>2, <4>1, <4>2, <4>3, OriginStays
        <3> QED
            BY <3>1, <3>2
    <2>6. Gated'
        <3>1. \A u \in Streams : counts'[u].published = Len(published'[u])
            <4>1. counts'[t].published = Len(published'[t])
                BY <1>0, <1>4, <1>8, <2>4
            <4>2. \A u \in Streams \ {t} : counts'[u].published = Len(published'[u])
                BY <1>0, <1>6, <2>4
            <4> QED
                BY <4>1, <4>2
        <3>2. External' = External /\ Spinning' = Spinning
            BY <1>4, <2>2 DEF External, Spinning
        <3> QED
            BY <1>0, <1>2, <1>4, <2>4, <3>1, <3>2 DEF Gated
    <2>7. AuditHearsAll'
        <3>1. Hears' => Heard'
            <4>1. Hears => context
                BY DEF Hears
            <4> QED
                BY <1>0, <2>4, <4>1
        <3>2. RosTypeOK'
            BY <2>4 DEF RosInv
        <3> QED
            BY <2>6, <3>1, <3>2, AuditIsNext
    <2> QED
        BY <1>4, <1>5, <2>4, <2>5, <2>6, <2>7 DEF SessionInv
<1> QED
    BY <1>1, <1>7, <1>8

(* A synthetic source numbers its messages.                                  *)
LEMMA GenerateKeeps ==
    ASSUME SessionInv, NEW t \in Streams, Generate(t),
           UNCHANGED <<adapterVars, scriptVars, played>>
    PROVE  SessionInv'
<1>d. PICK n, m : n = Len(published[t]) + 1 /\ m = [job_id |-> n, source_ts |-> 0]
    OBVIOUS
<1>0. /\ RosInv /\ SessionTypeOK /\ Balanced /\ Gated /\ Origins /\ RosTypeOK
      /\ ~ External /\ Len(published[t]) < Jobs[t] /\ Jobs[t] \in Nat /\ Len(published[t]) \in Nat
      /\ Send(t, m) /\ IdentityOf(t) /\ CountOf(t)
    <2>1. published[t] \in Seq(StampedJob)
        BY DEF SessionInv, RosInv, RosTypeOK
    <2> QED
        BY <1>d, <2>1, OriginParts, RosAssumption DEF SessionInv, RosInv, Generate
<1>1. m \in StampedJob /\ m.job_id = n
    BY <1>d, <1>0 DEF StampedJob
<1>2. m \notin ToSet(published[t])
    <2>1. \A x \in ToSet(published[t]) : x.job_id <= Len(published[t])
        BY <1>0 DEF IdentityOf
    <2> QED
        BY <1>d, <1>0, <1>1, <2>1
<1>3. /\ RosInv'
      /\ \A s \in Stages : Sent(s)' = IF StreamOf(s) = t /\ Measured(m) THEN Sent(s) \cup {m}
                                      ELSE Sent(s)
      /\ ToSet(published'[t]) = ToSet(published[t]) \cup {m}
      /\ Len(published'[t]) = Len(published[t]) + 1
      /\ \A u \in Streams \ {t} : published'[u] = published[u]
      /\ UNCHANGED <<input_mode, linked>>
    BY <1>0, <1>1, <1>2, SendKeeps
<1>4. /\ UNCHANGED <<recording, players, harness, played, index, counts>> /\ ~ External'
      /\ SessionTypeOK' /\ Balanced' /\ RosTypeOK'
    <2>1. /\ \A u \in Streams : Bag[u] \in Seq(Int)
          /\ UNCHANGED <<recording, players, harness, played, index, counts>> /\ ~ External'
        BY <1>0, <1>3, BagTypes DEF scriptVars, adapterVars, External
    <2>2. SessionTypeOK' /\ Balanced'
        BY <1>0, <2>1, ScriptTypes DEF SessionTypeOK
    <2> QED
        BY <1>3, <2>1, <2>2 DEF RosInv
<1>5. Origins'
    <2> SUFFICES ASSUME NEW u \in Streams PROVE IdentityOf(u)' /\ CountOf(u)'
        BY OriginParts
    <2>1. CASE u = t
        <3>1. ASSUME NEW x \in ToSet(published[t]) \cup {m} PROVE x.job_id <= Len(published'[t])
            <4>1. CASE x = m
                BY <1>d, <1>0, <1>1, <1>3, <4>1
            <4>2. CASE x \in ToSet(published[t])
                <5>1. x.job_id <= Len(published[t]) /\ x.job_id \in Nat
                    BY <1>0, <4>2, SentTyped DEF IdentityOf
                <5> QED
                    BY <1>0, <1>3, <5>1
            <4> QED
                BY <4>1, <4>2
        <3>2. IdentityOf(t)'
            BY <1>3, <1>4, <3>1 DEF IdentityOf
        <3>3. Cardinality(Sent(WorkerOf(t))) <= Len(published[t])
            BY <1>0 DEF CountOf
        <3>4. /\ Cardinality(Sent(WorkerOf(t))') <= Cardinality(Sent(WorkerOf(t))) + 1
              /\ Cardinality(Sent(WorkerOf(t))) \in Nat /\ Cardinality(Sent(WorkerOf(t))') \in Nat
            BY <1>0, <1>3, SentOneMore
        <3>5. Cardinality(Sent(WorkerOf(t))') <= Len(published'[t]) /\ Len(published'[t]) <= Jobs[t]
            BY <1>0, <1>3, <3>3, <3>4
        <3>6. CountOf(t)'
            BY <1>4, <3>5 DEF CountOf
        <3> QED
            BY <2>1, <3>2, <3>6
    <2>2. CASE u # t
        <3>1. IdentityOf(u) /\ CountOf(u)
            BY <1>0, OriginParts
        <3>2. published'[u] = published[u] /\ played[u] <= played'[u]
              /\ counts[u].received <= counts'[u].received
            <4>1. played[u] \in Nat /\ counts[u].received \in Nat
                BY <1>0, BagTypes
            <4> QED
                BY <1>3, <1>4, <2>2, <4>1
        <3>3. Sent(WorkerOf(u))' = Sent(WorkerOf(u))
            BY <1>3, <2>2, Names
        <3> QED
            BY <1>0, <1>3, <1>4, <3>1, <3>2, <3>3, OriginStays
    <2> QED
        BY <2>1, <2>2
<1>6. Gated'
    BY <1>0, <1>3, <1>4 DEF Gated
<1>7. AuditHearsAll'
    BY <1>4 DEF AuditHearsAll
<1> QED
    BY <1>3, <1>4, <1>5, <1>6, <1>7 DEF SessionInv

(* The invariant of a case is inductive.                                     *)
LEMMA SessionSteps == SessionInv /\ [SessionNext]_sessionVars => SessionInv'
<1> SUFFICES ASSUME SessionInv, [SessionNext]_sessionVars PROVE SessionInv'
    OBVIOUS
<1>0. /\ RosInv /\ SessionTypeOK /\ Balanced /\ Gated /\ played \in [Streams -> Nat]
      /\ players \subseteq Streams /\ harness \in {"starting", "ready", "playing", "failed"}
      /\ \A t \in Streams : /\ played[t] \in Nat /\ played[t] <= Len(Bag[t])
                            /\ counts[t].received \in Nat
    <2>1. \A t \in Streams : counts[t].received \in Nat
        BY BagTypes DEF SessionInv
    <2> QED
        BY <2>1 DEF SessionInv, SessionTypeOK
<1>1. ASSUME UNCHANGED <<adapterVars, scriptVars, played>>, RosInv', Hears' => Hears,
             Heard => Heard', UNCHANGED <<published, input_mode>>, linked \subseteq linked'
      PROVE  SessionInv'
    <2>1. UNCHANGED <<adapterVars, recording, index, counts, players, harness, played>>
        BY <1>1 DEF scriptVars, adapterVars
    <2>2. SessionTypeOK' /\ Balanced'
        BY <1>0, <2>1, ScriptTypes
    <2> QED
        BY <1>0, <1>1, <2>1, <2>2, QuietKeeps
<1>2. CASE RosStep /\ UNCHANGED <<adapterVars, scriptVars, played>>
    <2>1. ASSUME NEW t \in Streams, Generate(t) PROVE SessionInv'
        BY <1>2, <2>1, GenerateKeeps
    <2>2. CASE \A t \in Streams : ~ Generate(t)
        BY <1>0, <1>1, <1>2, <2>2, PipelineKeeps, LinkedGrows
    <2> QED
        BY <2>1, <2>2
<1>3. CASE UNCHANGED sessionVars
    <2>1. UNCHANGED vars /\ UNCHANGED <<adapterVars, scriptVars, played>>
        BY <1>3 DEF sessionVars
    <2>2. UNCHANGED <<published, input_mode>> /\ linked \subseteq linked'
        BY <2>1 DEF vars, dds
    <2> QED
        BY <1>0, <1>1, <2>1, <2>2, StillKeeps
<1>4. ASSUME NEW t \in Streams, Receive(t) PROVE SessionInv'
    BY <1>4, ReceiveKeeps
<1>5. CASE \/ \E t \in Streams : Discover(t) \/ Miss(t)
           \/ AdapterReady \/ NotReady \/ Resume
    BY <1>5, ScriptSteps
<1> QED
    BY <1>2, <1>3, <1>4, <1>5 DEF SessionNext, Session

(* The first state.                                                          *)
LEMMA SessionStarts == SessionInit => SessionInv
<1> SUFFICES ASSUME SessionInit PROVE SessionInv
    OBVIOUS
<1>0. /\ Init /\ input_mode \in DOMAIN Setup /\ published = [t \in Streams |-> <<>>]
      /\ linked = Subscriptions \ Late /\ inq = [s \in Stages |-> <<>>]
      /\ auditq = [t \in Streams |-> <<>>] /\ stats = [s \in Stages |-> NoStats]
      /\ pc = [t \in Threads |-> IF t \in Slow THEN "unstarted" ELSE "wait"]
      /\ msg = [t \in Threads |-> None] /\ owed = [t \in Threads |-> <<>>]
      /\ spinning = [t \in Threads |-> t \notin Slow] /\ context = TRUE
      /\ background_error = None /\ hog = [h \in Hogs |-> "unstarted"]
      /\ contenders_running = TRUE /\ window_start = FALSE /\ main = "graph" /\ step = 1
      /\ timed_out = FALSE /\ snap = [s \in Stages |-> NoLine] /\ exit = None /\ lost = {}
    BY DEF SessionInit, Init
<1>1. RosTypeOK
    <2>1. Len(CancelOrder) = 5
        BY DEF CancelOrder, SnapOrder
    <2>2. NoStats \in StatsType /\ NoLine \in LineType
        BY DEF NoStats, StatsType, NoLine, LineType
    <2>3. <<>> \in Seq(StampedJob) /\ <<>> \in Seq(Stages)
        OBVIOUS
    <2>4. /\ published \in [Streams -> Seq(StampedJob)] /\ inq \in [Stages -> Seq(StampedJob)]
          /\ auditq \in [Streams -> Seq(StampedJob)] /\ owed \in [Threads -> Seq(Stages)]
        BY <1>0, <2>3
    <2>5. stats \in [Stages -> StatsType] /\ snap \in [Stages -> LineType]
        BY <1>0, <2>2
    <2>6. /\ pc \in [Threads -> {"unstarted", "wait", "admit", "settle", "work", "publish",
                                  "offer", "raise", "failed", "gone"}]
          /\ msg \in [Threads -> StampedJob \cup {None}]
        BY <1>0
    <2>7. /\ spinning \in [Threads -> BOOLEAN]
          /\ hog \in [Hogs -> {"unstarted", "run", "gone", "failed"}]
        BY <1>0
    <2>8. linked \subseteq Subscriptions /\ step \in 1 .. Len(CancelOrder)
        BY <1>0, <2>1
    <2> QED
        BY <1>0, <2>4, <2>5, <2>6, <2>7, <2>8 DEF RosTypeOK
<1>2. \A q : q = <<>> => ToSet(q) = {} /\ IsInjective(q)
    BY DEF ToSet, IsInjective
<1>3. \A t \in Streams : published[t] = <<>> /\ ToSet(published[t]) = {} /\ Len(published[t]) = 0
    BY <1>0, <1>2
<1>4. \A s \in Stages : StreamOf(s) \in Streams /\ s \in Threads /\ Sent(s) = {}
    BY <1>3, Names DEF Sent
<1>5. Cardinality({}) = 0 /\ IsFiniteSet({})
    BY FS_EmptySet
<1>6. StagePlace
    BY <1>0, <1>4 DEF StagePlace, Busy
<1>7. AuditPlace
    <2>1. pc["audit"] \in {"unstarted", "wait"} /\ owed["audit"] = <<>>
        BY <1>0 DEF Threads
    <2>2. \A t \in Streams : IsInjective(auditq[t]) /\ ToSet(auditq[t]) = {}
        BY <1>0, <1>2
    <2> QED
        BY <2>1, <2>2 DEF AuditPlace, Busy
<1>8. MainPlace
    <2>1. \A t \in Threads : pc[t] # "failed"
        BY <1>0
    <2>2. \A h \in Hogs : hog[h] # "failed"
        BY <1>0
    <2>3. \A s \in Stages : LineOf(s)
        <3>1. \A s \in Stages : snap[s] = NoLine /\ stats[s] = NoStats
            BY <1>0
        <3>2. /\ NoLine.resolved = 0 /\ NoLine.first_job_id = 0 /\ NoLine.last_job_id = 0
              /\ NoStats.first_job_id = 0 /\ NoStats.last_job_id = 0 /\ ResolvedIn(NoStats) = 0
            BY DEF NoLine, NoStats, ResolvedIn
        <3> QED
            BY <3>1, <3>2 DEF LineOf, SentIds
    <2> QED
        BY <1>0, <2>1, <2>2, <2>3, MainParts DEF MainOrder, Failed
<1>9. AtOnePlace
    <2>1. \A s \in Stages :
              Queued(s) = {} /\ InHand(s) = {} /\ LostAt(s) = {} /\ IsInjective(inq[s])
        BY <1>0, <1>2, <1>4 DEF Queued, InHand, LostAt, Busy
    <2> QED
        BY <1>0, <2>1 DEF AtOnePlace, At
<1>10. Accounted
    <2>1. \A s \in Stages : ResolvedIn(stats[s]) = 0
        BY <1>0 DEF ResolvedIn, NoStats
    <2>2. \A s \in Stages : {m \in Sent(s) : Unresolved(s, m)} = {}
        BY <1>4
    <2> QED
        BY <1>4, <1>5, <2>1, <2>2 DEF Accounted
<1>11. /\ recording \in (IF External THEN Recordings ELSE {NoBag}) /\ AdapterInit(recording.index)
       /\ players = {} /\ harness = "starting" /\ played = recording.offset
       /\ index = recording.index /\ counts = [t \in Topics |-> NoCounts]
       /\ delivery_trace = [records |-> 0, published |-> 0, omitted |-> 0]
    BY DEF SessionInit, AdapterInit
<1>12. SessionTypeOK
    <2>1. /\ recording.index \in [Streams -> IndexFile]
          /\ recording.offset \in [Streams -> Nat]
          /\ \A t \in Streams : recording.offset[t] <= Len(recording.bag[t])
        <3>1. CASE External
            BY <1>11, <3>1, RecordingsAssumption
        <3>2. CASE ~ External
            <4>1. [path |-> FALSE, rows |-> <<>>] \in IndexFile
                BY DEF IndexFile
            <4>2. /\ NoBag.index \in [Streams -> IndexFile] /\ NoBag.offset \in [Streams -> Nat]
                  /\ \A t \in Streams : NoBag.offset[t] = 0 /\ NoBag.bag[t] = <<>>
                BY <4>1 DEF NoBag
            <4> QED
                BY <1>11, <3>2, <4>2
        <3> QED
            BY <3>1, <3>2
    <2>2. NoCounts \in [received : Nat, published : Nat, dropped : Nat, first_source_ts : Nat]
        BY DEF NoCounts
    <2>3. delivery_trace \in [records : 0 .. trace_limit, published : Nat, omitted : Nat]
        BY <1>11, AdapterAssumption
    <2>4. AdapterTypeOK
        BY <1>11, <2>1, <2>2, <2>3, Topical DEF AdapterTypeOK
    <2> QED
        BY <1>11, <2>1, <2>4 DEF SessionTypeOK, Bag
<1>13. Balanced
    BY <1>11, Topical DEF Balanced, NoCounts
<1>14. Gated
    BY <1>3, <1>11, Topical DEF Gated, NoCounts
<1>15. Origins
    <2> SUFFICES ASSUME NEW t \in Streams PROVE IdentityOf(t) /\ CountOf(t)
        BY OriginParts
    <2>1. Sent(WorkerOf(t)) = {}
        BY <1>4, Names
    <2>2. Cardinality(Played(t)) \in Nat /\ Jobs[t] \in Nat
        BY <1>12, BagTypes, RosAssumption
    <2> QED
        BY <1>3, <1>5, <2>1, <2>2 DEF IdentityOf, CountOf
<1>16. AuditHearsAll
    <2>1. Heard
        <3>1. \A s \in Stages : stats[s].offered = 0
            BY <1>0 DEF NoStats
        <3>2. \A s \in Stages : {m \in Sent(s) : NotOffered(s, m)} = {}
            BY <1>4
        <3> QED
            BY <1>1, <1>4, <1>5, <3>1, <3>2, WaitingIs DEF WaitingWhere
    <2> QED
        BY <1>1, <1>14, <2>1, AuditIs
<1> QED
    BY <1>1, <1>6, <1>7, <1>8, <1>9, <1>10, <1>12, <1>13, <1>14, <1>15, <1>16 DEF SessionInv, RosInv

(* Every message is accounted for at every stage, by the adapter and by the  *)
(* audit, in every reachable state of a case and of a synthetic run.         *)
THEOREM SessionInvariance == SessionSpec => []SessionInv
BY SessionStarts, SessionSteps, PTL DEF SessionSpec

(* The counters of account_job() and observe() at every stage, those of      *)
(* publish_job() with its trace, and the offers of the audit node count each *)
(* message once.                                                             *)
THEOREM CountedOnceHolds == SessionSpec => []CountedOnce
<1>1. SessionInv => CountedOnce
    BY DEF SessionInv, RosInv, CountedOnce
<1> QED
    BY <1>1, SessionInvariance, PTL

-----------------------------------------------------------------------------
(* The end of the program                                                  *)

(* A stage whose counters hold as many messages as were sent has none left.  *)
LEMMA NoneOpen ==
    ASSUME SessionInv, NEW s \in Stages, Cardinality(Sent(s)) <= ResolvedIn(stats[s])
    PROVE  /\ \A m \in Sent(s) : ~ Unresolved(s, m)
           /\ Cardinality(Sent(s)) = ResolvedIn(stats[s])
<1>1. Balances(ResolvedIn(stats[s]), Sent(s), Open(s))
    BY AccountedBalances DEF SessionInv, RosInv
<1>2. Open(s) = {} /\ ResolvedIn(stats[s]) = Cardinality(Sent(s))
    BY <1>1, BalanceAll
<1> QED
    BY <1>2 DEF Open

(* There are no more measured jobs than messages that could make one.        *)
LEMMA SentBound ==
    ASSUME SessionInv, NEW s \in Stages, NEW t \in Streams, t = StreamOf(s)
    PROVE  /\ External => Cardinality(Sent(s)) <= Cardinality(WindowOrdinals(t))
           /\ ~ External => /\ Cardinality(Sent(s)) <= Len(published[t])
                            /\ Len(published[t]) <= Jobs[t]
           /\ Cardinality(Sent(s)) \in Nat /\ Cardinality(WindowOrdinals(t)) \in Nat
           /\ Len(published[t]) \in Nat /\ Jobs[t] \in Nat
<1>1. Sent(s) = Sent(WorkerOf(t))
    BY Names DEF Sent
<1>2. CountOf(t) /\ RosTypeOK /\ SessionTypeOK
    BY OriginParts DEF SessionInv, RosInv
<1>3. /\ Cardinality(Sent(s)) \in Nat /\ Jobs[t] \in Nat /\ Len(published[t]) \in Nat
    <2>1. published[t] \in Seq(StampedJob)
        BY <1>2 DEF RosTypeOK
    <2> QED
        BY <1>2, <2>1, SentFinite, FS_CardinalityType, RosAssumption
<1>4. /\ IsFiniteSet(WindowOrdinals(t)) /\ Played(t) \subseteq WindowOrdinals(t)
      /\ Cardinality(WindowOrdinals(t)) \in Nat /\ Cardinality(Played(t)) \in Nat
      /\ Cardinality(Played(t)) <= Cardinality(WindowOrdinals(t))
    <2>1. IsFiniteSet(WindowOrdinals(t)) /\ Cardinality(Played(t)) \in Nat
        BY <1>2, BagTypes
    <2>2. Played(t) \subseteq WindowOrdinals(t)
        BY DEF Played
    <2> QED
        BY <2>1, <2>2, FS_Subset, FS_CardinalityType
<1> QED
    BY <1>1, <1>2, <1>3, <1>4 DEF CountOf

(* A synthetic run whose stages have completed what was asked for has sent   *)
(* and lost nothing else.                                                    *)
LEMMA DrainedIsClean ==
    ASSUME SessionInv, ~ External, Drained, \A t \in Threads : pc[t] \in {"gone", "failed"}
    PROVE  /\ lost = {} /\ \A s \in Stages : inq[s] = <<>> /\ msg[s] = None
           /\ \A t \in Streams : Len(published[t]) = Jobs[t]
<1>0. /\ RosTypeOK /\ StagePlace /\ AtOnePlace /\ UnresolvedWhere
    BY InvParts DEF SessionInv, RosInv
<1>1. \A s \in Stages : /\ Sent(s) = ToSet(published[StreamOf(s)])
                        /\ \A m \in Sent(s) : ~ Unresolved(s, m)
                        /\ Jobs[StreamOf(s)] <= Len(published[StreamOf(s)])
    <2> SUFFICES ASSUME NEW s \in Stages
                 PROVE  /\ Sent(s) = ToSet(published[StreamOf(s)])
                        /\ \A m \in Sent(s) : ~ Unresolved(s, m)
                        /\ Jobs[StreamOf(s)] <= Len(published[StreamOf(s)])
        OBVIOUS
    <2>d. PICK t \in Streams : t = StreamOf(s)
        BY Names
    <2>1. stats[s].completed = Jobs[t]
        BY <2>d DEF Drained, Expected
    <2>2. stats[s] \in StatsType
        BY <1>0 DEF RosTypeOK
    <2>3. Jobs[t] <= ResolvedIn(stats[s]) /\ ResolvedIn(stats[s]) \in Nat
        BY <2>1, <2>2 DEF StatsType, ResolvedIn
    <2>4. /\ Cardinality(Sent(s)) <= Len(published[t]) /\ Len(published[t]) <= Jobs[t]
          /\ Cardinality(Sent(s)) \in Nat /\ Len(published[t]) \in Nat /\ Jobs[t] \in Nat
        BY <2>d, SentBound
    <2>5. /\ \A m \in Sent(s) : ~ Unresolved(s, m)
          /\ Cardinality(Sent(s)) = ResolvedIn(stats[s])
        BY <2>3, <2>4, NoneOpen
    <2> QED
        BY <2>d, <2>3, <2>4, <2>5 DEF Sent, Measured
<1>2. \A t \in Streams : Len(published[t]) = Jobs[t]
    <2> SUFFICES ASSUME NEW t \in Streams PROVE Len(published[t]) = Jobs[t]
        OBVIOUS
    <2>1. WorkerOf(t) \in Stages /\ t = StreamOf(WorkerOf(t))
        BY Names
    <2>2. /\ Len(published[t]) <= Jobs[t] /\ Len(published[t]) \in Nat /\ Jobs[t] \in Nat
        BY <2>1, SentBound
    <2>3. Jobs[t] <= Len(published[t])
        BY <1>1, <2>1
    <2> QED
        BY <2>2, <2>3
<1>3. \A s \in Stages : \A m : Near(s, m) => Unresolved(s, m)
    BY <1>0 DEF UnresolvedWhere, Stages
<1>4. lost = {}
    <2> SUFFICES ASSUME NEW p \in lost PROVE FALSE
        OBVIOUS
    <2>1. PICK s, m : s \in Stages /\ p = <<s, m>>
        BY <1>0 DEF RosTypeOK
    <2>2. m \in ToSet(published[StreamOf(s)])
        BY <1>0, <2>1 DEF AtOnePlace
    <2> QED
        BY <1>1, <1>3, <2>1, <2>2 DEF Near
<1>5. ASSUME NEW s \in Stages PROVE inq[s] = <<>> /\ msg[s] = None
    <2>1. msg[s] = None
        BY <1>0, Names DEF StagePlace, Busy
    <2>2. inq[s] \in Seq(StampedJob)
        BY <1>0 DEF RosTypeOK
    <2>3. ASSUME inq[s] # <<>> PROVE FALSE
        <3>1. PICK m : m \in Queued(s)
            BY <2>2, <2>3, SeqElements DEF Queued
        <3>2. m \in ToSet(published[StreamOf(s)])
            BY <1>0, <3>1 DEF AtOnePlace, At
        <3> QED
            BY <1>1, <1>3, <3>1, <3>2 DEF Near
    <2> QED
        BY <2>1, <2>3
<1> QED
    BY <1>2, <1>4, <1>5

(* The last statement of main().                                             *)
LEMMA FinishTells ==
    ASSUME SessionInv, Finish
    PROVE  ExitTruth'
<1>0. /\ RosTypeOK /\ (Failed => background_error # None)
      /\ main' = "done" /\ \A t \in Threads : pc[t] \in {"gone", "failed"}
      /\ UNCHANGED <<input_mode, pc, hog, lost, inq, msg, published>>
    BY MainParts DEF SessionInv, RosInv, Finish, MainGoto, NotMain, dds, hogVars
<1>1. ASSUME exit' = 0
      PROVE  /\ background_error = None
             /\ ~ External /\ ~ WindowStats => Drained
    <2>1. exit' = CASE ReportsFailure -> 1
                    [] ~ ReportsFailure /\ ~ WindowStats /\ FinalSnapshotThrows -> 1
                    [] ~ ReportsFailure /\ ~ WindowStats /\ ~ FinalSnapshotThrows
                       /\ ~ External /\ ~ Drained -> 2
                    [] OTHER -> 0
        BY DEF Finish
    <2>2. ~ ReportsFailure
        BY <1>1, <2>1
    <2>3. ~ External /\ ~ WindowStats => Drained
        BY <1>1, <2>1
    <2> QED
        BY <2>2, <2>3 DEF ReportsFailure
<1>2. ASSUME exit' = 0 PROVE ~ Failed
    BY <1>0, <1>1, <1>2
<1>3. ASSUME exit' = 0, ~ External, ~ WindowStats
      PROVE  /\ lost = {} /\ \A s \in Stages : inq[s] = <<>> /\ msg[s] = None
             /\ \A t \in Streams : Len(published[t]) = Jobs[t]
    BY <1>0, <1>1, <1>3, DrainedIsClean
<1> QED
    BY <1>0, <1>2, <1>3 DEF ExitTruth, Failed, External, WindowStats, Hogs

(* The abort: a reader is missing, or the thread of an active job has ended. *)
LEMMA AbortTells ==
    ASSUME SessionInv, ConnectFails \/ Snapshot, main' = "aborted"
    PROVE  (\/ ~ (Stages \subseteq linked)
            \/ \E s \in Stages : stats[s].active /\ pc[s] \in {"raise", "failed"})'
<1>1. UNCHANGED <<linked, stats, pc>>
    BY DEF ConnectFails, Snapshot, Quiet, NotMain, dds
<1>2. CASE ConnectFails
    <2>1. ~ (Stages \subseteq linked)
        <3> SUFFICES ASSUME Stages \subseteq linked PROVE FALSE
            OBVIOUS
        <3>1. {"imu", "vision", "estimator", "mapping"} \subseteq linked
            BY DEF Stages
        <3>2. \A t \in Streams : WorkerOf(t) \in {WorkerOf(t), AuditOf(t)} \cap linked
            BY <3>1 DEF WorkerOf
        <3>3. GraphReady /\ {"imu", "vision"} \subseteq linked
            BY <3>1, <3>2 DEF GraphReady
        <3> QED
            BY <1>2, <3>3 DEF ConnectFails
    <2> QED
        BY <1>1, <2>1
<1>3. CASE Snapshot
    <2>1. main = "snapshot" /\ step \in 1 .. 4
        <3>1. step \in 1 .. 5 /\ (main = "snapshot" => step <= 4)
            BY MainParts, Names DEF SessionInv, RosInv, RosTypeOK, MainOrder
        <3> QED
            BY <1>3, <3>1 DEF Snapshot
    <2>2. SnapOrder[step] \in Stages
        BY <2>1, Names
    <2>3. stats[SnapOrder[step]].active /\ pc[SnapOrder[step]] \in {"raise", "failed"}
        BY <1>3, <2>1 DEF Snapshot, MainGoto
    <2> QED
        BY <1>1, <2>2, <2>3
<1> QED
    BY <1>2, <1>3

(* No other step of main() ends the program.                                 *)
LEMMA TruthSteps == SessionInv /\ ExitTruth /\ [SessionNext]_sessionVars => ExitTruth'
<1> SUFFICES ASSUME SessionInv, ExitTruth, [SessionNext]_sessionVars PROVE ExitTruth'
    OBVIOUS
<1>0. RosInv /\ (exit # None => main = "done")
    BY MainParts DEF SessionInv, RosInv, MainOrder
<1>1. CASE UNCHANGED sessionVars
    <2>1. UNCHANGED <<input_mode, published, linked, inq, stats, pc, msg, hog, main, exit, lost>>
        BY <1>1 DEF sessionVars, vars, dds, threads, hogVars, mainVars
    <2> QED
        BY <2>1 DEF ExitTruth, External, WindowStats, Hogs
<1>2. ASSUME exit' = None, main' # "aborted" PROVE ExitTruth'
    <2>1. None # 0
        BY RosAssumption
    <2> QED
        BY <1>2, <2>1 DEF ExitTruth
<1>3. CASE ~ Ended /\ UNCHANGED mainVars
    BY <1>0, <1>2, <1>3 DEF Ended, mainVars
<1>4. CASE ~ Ended /\ Session
    <2>1. UNCHANGED mainVars
        BY <1>4 DEF Session, Discover, Miss, AdapterReady, NotReady, Resume, Receive, Send, vars
    <2> QED
        BY <1>3, <1>4, <2>1
<1>5. CASE ~ Ended /\ RosStep
    <2>1. CASE Finish
        BY <2>1, FinishTells
    <2>2. CASE ConnectFails \/ Snapshot
        <3>1. exit' = exit
            BY <2>2 DEF ConnectFails, Snapshot
        <3>2. exit' # 0
            BY <1>0, <1>5, <3>1, RosAssumption DEF Ended
        <3> QED
            BY <2>2, <3>2, AbortTells DEF ExitTruth
    <2>3. CASE \/ Connect \/ JoinGenerators \/ WindowOpens \/ WindowTimesOut \/ StopHogs \/ Cancel
        <3>1. exit' = exit
            BY <2>3 DEF Connect, JoinGenerators, WindowOpens, WindowTimesOut, StopHogs, Cancel
        <3>2. main' # "aborted"
            BY <1>5, <2>3 DEF Connect, JoinGenerators, WindowOpens, WindowTimesOut, StopHogs,
               Cancel, Cancelling, MainGoto, Ended
        <3> QED
            BY <1>0, <1>2, <1>5, <3>1, <3>2 DEF Ended
    <2> QED
        BY <1>0, <1>3, <1>5, <2>1, <2>2, <2>3, OrderSteps DEF Main
<1> QED
    BY <1>1, <1>4, <1>5 DEF SessionNext

(* Exit code 0 and the abort say what they should, for every number of       *)
(* messages and contenders and whatever throws, comes late or is lost.       *)
THEOREM ExitTruthHolds == SessionSpec => []ExitTruth
<1>1. SessionInit => ExitTruth
    <2> SUFFICES ASSUME SessionInit PROVE ExitTruth
        OBVIOUS
    <2>1. exit = None /\ main = "graph" /\ None # 0
        BY RosAssumption DEF SessionInit, Init
    <2> QED
        BY <2>1 DEF ExitTruth
<1> QED
    BY <1>1, SessionInvariance, TruthSteps, PTL DEF SessionSpec

-----------------------------------------------------------------------------
(* The order of the offers                                                 *)

(* Every nonempty set of numbers has a least element.                        *)
LEMMA LeastNumber ==
    ASSUME NEW T, T \subseteq Nat, T # {}
    PROVE  \E x \in T : \A y \in T : x <= y
<1> DEFINE less == {p \in Nat \X Nat : p[1] < p[2]}
<1>1. IsWellFoundedOn(less, Nat)
    BY NatLessThanWellFounded DEF OpToRel
<1>2. \A y, x \in Nat : y < x => <<y, x>> \in less
    OBVIOUS
<1> HIDE DEF less
<1>3. PICK x \in T : \A y \in T : ~(<<y, x>> \in less)
    BY <1>1, WFMin
<1>4. \A y \in T : ~(y < x)
    BY <1>2, <1>3
<1> QED
    BY <1>4

(* A job of a numbered stream has the ordinal of a message that was played.  *)
LEMMA OrdinalIs ==
    ASSUME SessionInv, External, NEW t \in Streams, Numbered(t)
    PROVE  /\ \A i \in 1 .. Len(Bag[t]) : \A c : JobIds(index[t], Bag[t][i], c) = {i}
           /\ \A m \in ToSet(published[t]) :
                  m.job_id \in 1 .. played[t] /\ m.source_ts = Bag[t][m.job_id]
           /\ DOMAIN Bag[t] = 1 .. Len(Bag[t]) /\ played[t] \in 0 .. Len(Bag[t])
           /\ Len(Bag[t]) \in Nat
<1>d. PICK q, n : q = Bag[t] /\ n = Len(q)
    OBVIOUS
<1>0. /\ IdentityOf(t) /\ q \in Seq(Int) /\ n \in Nat /\ IsInjective(q) /\ DOMAIN q = 1 .. n
      /\ played[t] \in Nat /\ played[t] <= n
    <2>1. /\ SessionTypeOK /\ IdentityOf(t) /\ index = recording.index
        BY OriginParts DEF SessionInv, Gated
    <2>2. q \in Seq(Int) /\ IsInjective(q) /\ played[t] \in Nat /\ played[t] <= n
        BY <1>d, <2>1, BagTypes DEF Numbered
    <2> QED
        BY <1>d, <2>1, <2>2
<1>1. PICK rows : rows = index[t].rows
    OBVIOUS
<1>2. rows = [i \in 1 .. n |-> [stamp |-> q[i], ordinal |-> i]]
    BY <1>d, <1>0, <1>1 DEF Numbered, BagRows
<1>3. DOMAIN rows = 1 .. n /\ \A i \in 1 .. n : rows[i].stamp = q[i] /\ rows[i].ordinal = i
    BY <1>2
<1>4. \A i, k \in 1 .. n : q[i] = q[k] => i = k
    BY <1>0 DEF IsInjective
<1>5. ASSUME NEW i \in 1 .. n, NEW c PROVE JobIds(index[t], q[i], c) = {i}
    <2>1. JobIds(index[t], q[i], c) =
              {rows[k].ordinal : k \in {l \in DOMAIN rows : rows[l].stamp = q[i]}}
        BY <1>1 DEF JobIds, Numbered
    <2>2. {l \in DOMAIN rows : rows[l].stamp = q[i]} = {i}
        BY <1>3, <1>4, <1>5
    <2> QED
        BY <1>3, <2>1, <2>2
<1>6. ASSUME NEW m \in ToSet(published[t])
      PROVE  m.job_id \in 1 .. played[t] /\ m.source_ts = q[m.job_id]
    <2>1. PICK i \in 1 .. played[t] : m.source_ts = q[i]
        BY <1>d, <1>6, <1>0 DEF IdentityOf
    <2>2. m.job_id \in JobIds(index[t], q[i], 0)
        BY <1>d, <1>6, <1>0, <2>1 DEF IdentityOf, Numbered
    <2>3. i \in 1 .. n
        BY <1>0
    <2> QED
        BY <1>5, <2>1, <2>2, <2>3
<1>7. /\ DOMAIN Bag[t] = 1 .. Len(Bag[t]) /\ played[t] \in 0 .. Len(Bag[t])
      /\ Len(Bag[t]) \in Nat
    BY <1>d, <1>0
<1>8. \A i \in 1 .. Len(Bag[t]) : \A c : JobIds(index[t], Bag[t][i], c) = {i}
    BY <1>d, <1>5
<1> QED
    BY <1>d, <1>6, <1>7, <1>8

(* A list of jobs in the order of their numbers.                             *)
Rising(q) == \A i, k \in 1 .. Len(q) : i < k => q[i].job_id < q[k].job_id

(* Its first job is before the others.                                       *)
LEMMA RisingTail ==
    ASSUME NEW q \in Seq(StampedJob), q # <<>>, Rising(q)
    PROVE  /\ Rising(Tail(q)) /\ \A x \in ToSet(Tail(q)) : Head(q).job_id < x.job_id
           /\ Head(q) \in ToSet(q) /\ ToSet(Tail(q)) \subseteq ToSet(q)
<1>1. /\ Tail(q) \in Seq(StampedJob) /\ Len(Tail(q)) = Len(q) - 1 /\ Len(q) \in Nat \ {0}
      /\ \A i \in 1 .. Len(q) - 1 : Tail(q)[i] = q[i + 1]
      /\ Head(q) = q[1]
    OBVIOUS
<1>2. Rising(Tail(q))
    <2> SUFFICES ASSUME NEW i \in 1 .. Len(q) - 1, NEW k \in 1 .. Len(q) - 1, i < k
                 PROVE  Tail(q)[i].job_id < Tail(q)[k].job_id
        BY <1>1 DEF Rising
    <2>1. i + 1 \in 1 .. Len(q) /\ k + 1 \in 1 .. Len(q) /\ i + 1 < k + 1
        BY <1>1
    <2>2. q[i + 1].job_id < q[k + 1].job_id
        BY <2>1 DEF Rising
    <2> QED
        BY <1>1, <2>2
<1>3. ASSUME NEW x \in ToSet(Tail(q)) PROVE Head(q).job_id < x.job_id /\ x \in ToSet(q)
    <2>1. PICK i \in 1 .. Len(q) - 1 : x = Tail(q)[i]
        BY <1>1, <1>3, SeqElements DEF ToSet
    <2>2. i + 1 \in 1 .. Len(q) /\ 1 \in 1 .. Len(q) /\ 1 < i + 1 /\ x = q[i + 1]
        BY <1>1, <2>1
    <2>3. q[1].job_id < q[i + 1].job_id
        BY <2>2 DEF Rising
    <2> QED
        BY <1>1, <2>2, <2>3 DEF ToSet
<1> QED
    BY <1>1, <1>2, <1>3 DEF ToSet

(* A later job may follow.                                                   *)
LEMMA RisingAppend ==
    ASSUME NEW q \in Seq(StampedJob), Rising(q), NEW m,
           \A x \in ToSet(q) : x.job_id < m.job_id
    PROVE  Rising(Append(q, m))
<1>1. /\ Len(Append(q, m)) = Len(q) + 1 /\ Len(q) \in Nat
      /\ \A i \in 1 .. Len(q) : Append(q, m)[i] = q[i]
      /\ Append(q, m)[Len(q) + 1] = m
    OBVIOUS
<1>2. \A i \in 1 .. Len(q) : q[i].job_id < m.job_id
    BY DEF ToSet
<1> SUFFICES ASSUME NEW i \in 1 .. Len(q) + 1, NEW k \in 1 .. Len(q) + 1, i < k
             PROVE  Append(q, m)[i].job_id < Append(q, m)[k].job_id
    BY <1>1 DEF Rising
<1>3. i \in 1 .. Len(q) /\ (k = Len(q) + 1 \/ k \in 1 .. Len(q))
    BY <1>1
<1> QED
    BY <1>1, <1>2, <1>3 DEF Rising

(* The jobs of a line are numbered from its first to its last, and some of   *)
(* them were offered.                                                        *)
Covered(line, ids) == {i \in ids : line.first_job_id <= i /\ i <= line.last_job_id}
RunOf(line, ids) ==
    /\ line.first_job_id = 0 => line.last_job_id = 0
    /\ line.first_job_id <= line.last_job_id
    /\ line.offered <= Cardinality(Covered(line, ids))

(* More jobs are sent than were.                                             *)
LEMMA RunGrows ==
    ASSUME NEW A, NEW B, A \subseteq B, IsFiniteSet(B), NEW line, line.offered \in Nat,
           RunOf(line, A)
    PROVE  RunOf(line, B)
<1>1. Covered(line, A) \subseteq Covered(line, B) /\ IsFiniteSet(Covered(line, B))
    <2>1. Covered(line, B) \subseteq B
        BY DEF Covered
    <2> QED
        BY <2>1, FS_Subset DEF Covered
<1>2. /\ Cardinality(Covered(line, A)) <= Cardinality(Covered(line, B))
      /\ Cardinality(Covered(line, A)) \in Nat /\ Cardinality(Covered(line, B)) \in Nat
    BY <1>1, FS_Subset, FS_CardinalityType
<1> QED
    BY <1>2 DEF RunOf

(* A job after the last is offered.                                          *)
LEMMA RunExtends ==
    ASSUME NEW st \in StatsType, NEW ids, ids \subseteq Nat \ {0}, IsFiniteSet(ids), NEW m,
           m.job_id \in ids, st.last_job_id < m.job_id, RunOf(st, ids)
    PROVE  RunOf(Offered(st, m), ids)
<1>d. PICK a, b, n, j : /\ a = st.first_job_id /\ b = st.last_job_id /\ n = st.offered
                        /\ j = m.job_id
    OBVIOUS
<1>0. /\ a \in Nat /\ b \in Nat /\ n \in Nat /\ j \in Nat \ {0} /\ b < j /\ j \in ids
      /\ a = 0 => b = 0
      /\ a <= b
    BY <1>d DEF StatsType, RunOf
<1>1. /\ Offered(st, m).offered = n + 1 /\ Offered(st, m).last_job_id = j
      /\ Offered(st, m).first_job_id = IF a = 0 THEN j ELSE a
    BY <1>d DEF Offered, StatsType
<1>2. PICK R, Q : R = Covered(st, ids) /\ Q = Covered(Offered(st, m), ids)
    OBVIOUS
<1>3. /\ IsFiniteSet(R) /\ IsFiniteSet(Q) /\ Cardinality(R) \in Nat /\ Cardinality(Q) \in Nat
      /\ n <= Cardinality(R)
    <2>1. R \subseteq ids /\ Q \subseteq ids
        BY <1>2 DEF Covered
    <2> QED
        BY <1>d, <1>2, <2>1, FS_Subset, FS_CardinalityType DEF RunOf
<1>4. /\ \A i \in R : i \in ids /\ a <= i /\ i <= b
      /\ \A i \in ids : (IF a = 0 THEN j ELSE a) <= i /\ i <= j => i \in Q
    BY <1>d, <1>1, <1>2 DEF Covered
<1>5. j \notin R /\ R \cup {j} \subseteq Q
    <2>1. ASSUME NEW i \in R PROVE i \in Q /\ i # j
        <3>1. i \in ids /\ i \in Nat \ {0} /\ a <= i /\ i <= b
            BY <1>4, <2>1
        <3>2. a # 0 /\ i <= j /\ i # j
            BY <1>0, <3>1
        <3> QED
            BY <1>4, <3>1, <3>2
    <2>2. j \in Q
        BY <1>0, <1>4
    <2> QED
        BY <2>1, <2>2
<1>6. Cardinality(R \cup {j}) = Cardinality(R) + 1
    BY <1>3, <1>5, FS_AddElement
<1>7. Cardinality(R \cup {j}) <= Cardinality(Q)
    BY <1>3, <1>5, FS_Subset
<1> QED
    BY <1>0, <1>1, <1>2, <1>3, <1>6, <1>7 DEF RunOf

(* The numbers of the jobs that were sent to a numbered stage.               *)
LEMMA IdsAre ==
    ASSUME SessionInv, External, NEW s \in Stages, Numbered(StreamOf(s))
    PROVE  Ids(Sent(s)) \subseteq Nat \ {0} /\ IsFiniteSet(Ids(Sent(s)))
<1>d. PICK n : n = played[StreamOf(s)]
    OBVIOUS
<1>1. /\ n \in Int
      /\ \A m \in Sent(s) : m.job_id \in 1 .. n
    BY <1>d, Names, OrdinalIs DEF Sent
<1>2. Ids(Sent(s)) \subseteq 1 .. n
    BY <1>1 DEF Ids
<1>3. IsFiniteSet(1 .. n) /\ 1 .. n \subseteq Nat \ {0}
    BY <1>1, FS_Interval
<1> QED
    BY <1>2, <1>3, FS_Subset

(* The audit node hears the jobs of a numbered stream in the order of the    *)
(* bag: what waits comes after what was offered, and the jobs between the    *)
(* first and the last one of a line were all sent if they are that many.     *)
OfferOrder(s) ==
    /\ Rising(auditq[StreamOf(s)])
    /\ \A m : NotOffered(s, m) => stats[s].last_job_id < m.job_id
    /\ \A m : Hearing(s, m) =>
           \A x \in ToSet(auditq[StreamOf(s)]) : m.job_id < x.job_id
    /\ RunOf(stats[s], Ids(Sent(s)))
    /\ WindowStats => RunOf(snap[s], Ids(Sent(s)))
InOrder == External => \A s \in Stages : Numbered(StreamOf(s)) => OfferOrder(s)

(* A step that does not bring the audit to stage s: more may be sent, and a  *)
(* snapshot taken.                                                           *)
LEMMA OrderStays ==
    ASSUME SessionInv, SessionInv', External, NEW s \in Stages, Numbered(StreamOf(s)),
           OfferOrder(s), UNCHANGED <<input_mode, index, recording>>,
           auditq'[StreamOf(s)] = auditq[StreamOf(s)],
           \A m : Hearing(s, m)' => Hearing(s, m),
           Sent(s) \subseteq Sent(s)',
           Later(stats'[s], stats[s]),
           snap'[s] = snap[s] \/ snap'[s] = Line(s)
    PROVE  OfferOrder(s)'
<1>0. /\ RosTypeOK /\ RosTypeOK' /\ External' /\ Numbered(StreamOf(s))'
      /\ stats[s] \in StatsType /\ snap[s] \in LineType /\ WindowStats' = WindowStats
      /\ StreamOf(s) \in Streams
    <2>1. RosTypeOK /\ RosTypeOK' /\ StreamOf(s) \in Streams
        BY Names DEF SessionInv, RosInv
    <2>2. stats[s] \in StatsType /\ snap[s] \in LineType
        BY <2>1 DEF RosTypeOK
    <2>3. External' /\ WindowStats' = WindowStats
        BY DEF External, WindowStats
    <2>4. Numbered(StreamOf(s))'
        BY DEF Numbered, BagRows, Bag
    <2> QED
        BY <2>1, <2>2, <2>3, <2>4
<1>1. PICK A, B : A = Ids(Sent(s)) /\ B = Ids(Sent(s))'
    OBVIOUS
<1>2. A \subseteq B /\ IsFiniteSet(B) /\ IsFiniteSet(A)
    <2>1. IsFiniteSet(Ids(Sent(s)))
        BY <1>0, IdsAre
    <2>2. SessionInv' /\ External' /\ Numbered(StreamOf(s))' => IsFiniteSet(Ids(Sent(s)))'
        BY IdsAre, PTL
    <2>3. IsFiniteSet(Ids(Sent(s))')
        BY <1>0, <2>2
    <2>4. A \subseteq B
        BY <1>1 DEF Ids
    <2> QED
        BY <1>1, <2>1, <2>3, <2>4
<1>3. RunOf(stats'[s], B)
    <2>1. RunOf(stats[s], B)
        BY <1>0, <1>1, <1>2, RunGrows DEF OfferOrder, StatsType
    <2> QED
        BY <2>1 DEF Later, RunOf, Covered
<1>4. ASSUME WindowStats PROVE RunOf(snap'[s], B)
    <2>1. CASE snap'[s] = snap[s]
        BY <1>0, <1>1, <1>2, <1>4, <2>1, RunGrows DEF OfferOrder, LineType
    <2>2. CASE snap'[s] = Line(s)
        <3>1. RunOf(stats[s], B)
            BY <1>0, <1>1, <1>2, RunGrows DEF OfferOrder, StatsType
        <3>2. /\ Line(s).first_job_id = stats[s].first_job_id
              /\ Line(s).last_job_id = stats[s].last_job_id
              /\ Line(s).offered \in {0, stats[s].offered}
            BY <1>4 DEF Line
        <3>3. Covered(Line(s), B) = Covered(stats[s], B) /\ Covered(stats[s], B) \subseteq B
            BY <3>2 DEF Covered
        <3>4. Cardinality(Covered(stats[s], B)) \in Nat
            BY <1>2, <3>3, FS_Subset, FS_CardinalityType
        <3> QED
            BY <2>2, <3>1, <3>2, <3>3, <3>4 DEF RunOf
    <2> QED
        BY <2>1, <2>2
<1>5. \A m : NotOffered(s, m)' => NotOffered(s, m)
    BY <1>0, WaitingIs, WaitingIsNext DEF WaitingWhere
<1>6. stats'[s].last_job_id = stats[s].last_job_id
    BY DEF Later
<1> QED
    BY <1>0, <1>1, <1>3, <1>4, <1>5, <1>6 DEF OfferOrder

(* What the audit has in hand for stage s was sent to it, and is not queued. *)
LEMMA HearingIs ==
    ASSUME SessionInv, NEW s \in Stages, NEW m, Hearing(s, m)
    PROVE  m \in Sent(s) /\ m \in ToSet(published[StreamOf(s)]) /\ owed["audit"] # <<>>
<1>1. pc["audit"] = "offer" /\ msg["audit"] = m /\ Contains(owed["audit"], s)
    BY DEF Hearing
<1>2. PICK t \in Streams : /\ owed["audit"] \in Rests(Opportunities(t))
                           /\ m \in ToSet(published[t]) /\ Measured(m)
    BY <1>1 DEF SessionInv, RosInv, AuditPlace
<1>3. StreamOf(s) = t /\ owed["audit"] # <<>>
    BY <1>1, <1>2, OfferShape
<1> QED
    BY <1>2, <1>3 DEF Sent

(* The audit node takes the first job of a stream.                           *)
LEMMA TakeOrder ==
    ASSUME SessionInv, SessionInv', External, NEW s \in Stages, Numbered(StreamOf(s)),
           OfferOrder(s), UNCHANGED <<input_mode, index, recording>>,
           NEW t \in Streams, AuditTake(t)
    PROVE  OfferOrder(s)'
<1>d. PICK q, m : q = auditq[t] /\ m = Head(auditq[t])
    OBVIOUS
<1>0. /\ RosTypeOK /\ RosTypeOK' /\ HandTypes /\ "audit" \in Threads
      /\ q \in Seq(StampedJob) /\ q # <<>> /\ pc["audit"] = "wait"
      /\ auditq' = [auditq EXCEPT ![t] = Tail(q)] /\ auditq \in [Streams -> Seq(StampedJob)]
      /\ UNCHANGED <<input_mode, published, stats, snap>> /\ StreamOf(s) \in Streams
      /\ stats[s] \in StatsType
    BY <1>d, TypeParts, Names DEF SessionInv, RosInv, AuditTake, RosTypeOK, mainVars
<1>1. \A x : Hearing(s, x)' => StreamOf(s) = t /\ x = m
    <2>1. CASE Measured(m)
        <3>1. owed'["audit"] = Opportunities(t) /\ msg'["audit"] = m
            BY <1>d, <1>0, <2>1 DEF AuditTake, HandTypes
        <3> QED
            BY <3>1, OpportunitiesAre DEF Hearing
    <2>2. CASE ~ Measured(m)
        <3>1. pc'["audit"] \in {"wait", "gone", "raise"}
            BY <1>d, <1>0, <2>2, LoopIs DEF AuditTake
        <3> QED
            BY <3>1 DEF Hearing
    <2> QED
        BY <2>1, <2>2
<1>2. CASE StreamOf(s) = t
    <2>1. auditq'[t] = Tail(q) /\ Rising(q)
        BY <1>d, <1>0, <1>2 DEF OfferOrder
    <2>2. /\ Rising(Tail(q)) /\ \A x \in ToSet(Tail(q)) : m.job_id < x.job_id
          /\ m \in ToSet(q) /\ ToSet(Tail(q)) \subseteq ToSet(q)
        BY <1>d, <1>0, <2>1, RisingTail
    <2>3. \A x : NotOffered(s, x)' => NotOffered(s, x)
        <3>1. WaitingWhere /\ WaitingWhere'
            BY <1>0, WaitingIs, WaitingIsNext
        <3>2. \A x : NotOffered(s, x)' => x \in ToSet(Tail(q)) \/ Hearing(s, x)'
            BY <1>2, <2>1, <3>1 DEF WaitingWhere
        <3>3. \A x \in ToSet(q) : NotOffered(s, x)
            BY <1>d, <1>2, <3>1 DEF WaitingWhere
        <3> QED
            BY <1>1, <2>2, <3>2, <3>3
    <2>4. Sent(s)' = Sent(s) /\ Ids(Sent(s))' = Ids(Sent(s)) /\ WindowStats' = WindowStats
        BY <1>0, SentSame DEF Ids, WindowStats
    <2> QED
        BY <1>0, <1>1, <1>2, <2>1, <2>2, <2>3, <2>4 DEF OfferOrder
<1>3. CASE StreamOf(s) # t
    <2>1. auditq'[StreamOf(s)] = auditq[StreamOf(s)] /\ Sent(s) \subseteq Sent(s)'
        BY <1>0, <1>3, SentSame
    <2>2. Later(stats'[s], stats[s])
        BY <1>0, LaterIs
    <2> QED
        BY <1>0, <1>1, <1>3, <2>1, <2>2, OrderStays
<1> QED
    BY <1>2, <1>3

(* It offers the job to a stage.                                             *)
LEMMA OfferKeepsOrder ==
    ASSUME SessionInv, SessionInv', External, NEW s \in Stages, Numbered(StreamOf(s)),
           OfferOrder(s), UNCHANGED <<input_mode, index, recording>>, AuditOffer
    PROVE  OfferOrder(s)'
<1>d. PICK d, m : d = Head(owed["audit"]) /\ m = msg["audit"]
    OBVIOUS
<1>0. /\ RosTypeOK /\ RosTypeOK' /\ HandTypes /\ "audit" \in Threads /\ pc["audit"] = "offer"
      /\ UNCHANGED <<input_mode, published, auditq, snap>> /\ StreamOf(s) \in Streams
      /\ stats \in [Stages -> StatsType]
      /\ stats' = [stats EXCEPT ![d] = Offered(stats[d], m)]
      /\ owed'["audit"] = Tail(owed["audit"])
    <2>1. /\ RosTypeOK /\ RosTypeOK' /\ HandTypes /\ "audit" \in Threads /\ pc["audit"] = "offer"
          /\ UNCHANGED <<input_mode, published, auditq, snap>> /\ StreamOf(s) \in Streams
          /\ stats \in [Stages -> StatsType]
        BY TypeParts, Names DEF SessionInv, RosInv, RosTypeOK, AuditOffer, dds, mainVars
    <2>2. stats' = [stats EXCEPT ![d] = Offered(stats[d], m)]
        BY <1>d, <2>1 DEF AuditOffer
    <2>3. owed'["audit"] = Tail(owed["audit"])
        BY <2>1 DEF AuditOffer, HandTypes
    <2> QED
        BY <2>1, <2>2, <2>3
<1>1. /\ d \in Stages /\ Contains(owed["audit"], d)
      /\ \A u \in Stages : Contains(Tail(owed["audit"]), u) <=> Contains(owed["audit"], u) /\ u # d
    <2>1. PICK t \in Streams : owed["audit"] \in Rests(Opportunities(t))
        BY <1>0 DEF SessionInv, RosInv, AuditPlace
    <2> QED
        BY <1>d, <2>1, OfferShape
<1>2. \A x : Hearing(s, x)' => Hearing(s, x) /\ s # d
    <2>1. Contains(owed'["audit"], s) => Contains(owed["audit"], s) /\ s # d
        BY <1>0, <1>1
    <2>2. Contains(owed'["audit"], s) /\ pc'["audit"] = "offer" => msg'["audit"] = m
        <3>1. CASE Len(owed["audit"]) > 1
            BY <1>d, <3>1 DEF AuditOffer
        <3>2. CASE ~ (Len(owed["audit"]) > 1)
            BY <1>0, <3>2, LoopIs DEF AuditOffer
        <3> QED
            BY <3>1, <3>2
    <2> QED
        BY <1>d, <1>0, <2>1, <2>2 DEF Hearing
<1>3. Sent(s)' = Sent(s)
    BY <1>0, SentSame
<1>4. CASE s # d
    <2>1. Later(stats'[s], stats[s])
        BY <1>0, <1>4, LaterIs
    <2> QED
        BY <1>0, <1>2, <1>3, <2>1, OrderStays
<1>5. CASE s = d
    <2>1. Hearing(s, m)
        BY <1>d, <1>0, <1>1, <1>5 DEF Hearing
    <2>2. m \in Sent(s)
        BY <2>1, HearingIs
    <2>3. WaitingWhere /\ WaitingWhere'
        BY <1>0, WaitingIs, WaitingIsNext
    <2>4. stats[s].last_job_id < m.job_id
        BY <2>1, <2>3 DEF OfferOrder, WaitingWhere
    <2>5. /\ m.job_id \in Ids(Sent(s)) /\ Ids(Sent(s)) \subseteq Nat \ {0}
          /\ IsFiniteSet(Ids(Sent(s)))
        BY <2>2, IdsAre DEF Ids
    <2>6. RunOf(Offered(stats[s], m), Ids(Sent(s)))
        BY <1>0, <2>4, <2>5, RunExtends DEF OfferOrder
    <2>7. stats'[s] = Offered(stats[s], m) /\ stats'[s].last_job_id = m.job_id
        <3>1. stats'[s] = Offered(stats[s], m)
            BY <1>0, <1>1, <1>5
        <3>2. Offered(stats[s], m).last_job_id = m.job_id
            BY <1>0 DEF Offered, StatsType
        <3> QED
            BY <3>1, <3>2
    <2>8. \A x : NotOffered(s, x)' => x \in ToSet(auditq[StreamOf(s)])
        BY <1>0, <1>2, <1>5, <2>3 DEF WaitingWhere
    <2>9. \A x \in ToSet(auditq[StreamOf(s)]) : m.job_id < x.job_id
        BY <2>1 DEF OfferOrder
    <2>10. Ids(Sent(s))' = Ids(Sent(s)) /\ WindowStats' = WindowStats
        BY <1>0, <1>3 DEF Ids, WindowStats
    <2> QED
        BY <1>0, <1>2, <1>5, <2>6, <2>7, <2>8, <2>9, <2>10 DEF OfferOrder
<1> QED
    BY <1>4, <1>5

(* The next job of the bag comes after all jobs that were sent.              *)
LEMMA ReceiveOrder ==
    ASSUME SessionInv, SessionInv', External, NEW s \in Stages, Numbered(StreamOf(s)),
           OfferOrder(s), UNCHANGED <<input_mode, index, recording>>,
           NEW t \in Streams, t = StreamOf(s), played[t] < Len(Bag[t]),
           NEW m \in StampedJobs(t, Bag[t][played[t] + 1]), Send(t, m)
    PROVE  OfferOrder(s)'
<1>d. PICK q : q = auditq[t]
    OBVIOUS
<1>0. /\ RosTypeOK /\ RosTypeOK' /\ q \in Seq(StampedJob) /\ Rising(q)
      /\ auditq'[t] = q \/ auditq'[t] = Append(q, m)
      /\ UNCHANGED <<input_mode, stats, snap, pc, msg, owed>>
      /\ published'[t] = Append(published[t], m) /\ published[t] \in Seq(StampedJob)
      /\ ToSet(q) \subseteq ToSet(published[t])
      /\ stats[s] \in StatsType /\ snap[s] \in LineType
    <2>1. RosTypeOK /\ RosTypeOK' /\ AuditPlace
        BY DEF SessionInv, RosInv
    <2> QED
        BY <1>d, <2>1 DEF RosTypeOK, AuditPlace, OfferOrder, Send, threads, mainVars
<1>1. PICK n : n = played[t] /\ n \in Nat
    BY OrdinalIs
<1>2. m.job_id = n + 1 /\ m \in StampedJob
    <2>1. n + 1 \in 1 .. Len(Bag[t])
        BY <1>1, OrdinalIs
    <2>2. m.job_id \in JobIds(index[t], Bag[t][n + 1], counts[t].received + 1)
        BY <1>1 DEF StampedJobs
    <2>3. JobIds(index[t], Bag[t][n + 1], counts[t].received + 1) = {n + 1}
        BY <2>1, OrdinalIs
    <2>4. published'[t][Len(published'[t])] = m /\ Len(published'[t]) \in 1 .. Len(published'[t])
        BY <1>0
    <2>5. published'[t] \in Seq(StampedJob)
        BY <1>0 DEF RosTypeOK
    <2> QED
        BY <2>2, <2>3, <2>4, <2>5
<1>3. \A x \in ToSet(published[t]) : x.job_id \in 1 .. n
    BY <1>1, OrdinalIs
<1>4. \A x \in ToSet(q) : x.job_id < m.job_id
    BY <1>0, <1>1, <1>2, <1>3
<1>5. Rising(auditq'[t])
    BY <1>0, <1>4, RisingAppend
<1>6. ToSet(auditq'[t]) \subseteq ToSet(q) \cup {m}
    <2>1. ToSet(Append(q, m)) = ToSet(q) \cup {m}
        BY <1>0, <1>2, AppendElements
    <2> QED
        BY <1>0, <2>1
<1>7. \A x : Hearing(s, x)' <=> Hearing(s, x)
    BY <1>0 DEF Hearing
<1>8. \A x : Hearing(s, x) => x.job_id < m.job_id
    BY <1>1, <1>2, <1>3, HearingIs
<1>9. stats[s].last_job_id < m.job_id
    <2>1. stats[s].last_job_id \in SentIds(s)
        BY MainParts DEF SessionInv, RosInv, LineOf
    <2>2. stats[s].last_job_id \in 0 .. n
        BY <1>1, <1>3, <2>1 DEF SentIds, Sent
    <2> QED
        BY <1>1, <1>2, <2>2
<1>10. \A x : NotOffered(s, x)' => NotOffered(s, x) \/ x = m
    <2>1. WaitingWhere /\ WaitingWhere'
        BY <1>0, WaitingIs, WaitingIsNext
    <2> QED
        BY <1>d, <1>6, <1>7, <2>1 DEF WaitingWhere
<1>11. /\ Sent(s) \subseteq Sent(s)' /\ Ids(Sent(s)) \subseteq Ids(Sent(s))'
       /\ IsFiniteSet(Ids(Sent(s))')
    <2>1. ToSet(published'[t]) = ToSet(published[t]) \cup {m}
        BY <1>0, <1>2, AppendElements
    <2>2. Sent(s) \subseteq Sent(s)'
        BY <2>1 DEF Sent, Measured, External, InSourceWindow
    <2>3. Numbered(StreamOf(s))' /\ External'
        BY DEF Numbered, BagRows, Bag, External
    <2>4. SessionInv' /\ External' /\ Numbered(StreamOf(s))' => IsFiniteSet(Ids(Sent(s)))'
        BY IdsAre, PTL
    <2> QED
        BY <2>2, <2>3, <2>4 DEF Ids
<1>12. /\ RunOf(stats[s], Ids(Sent(s))')
       /\ WindowStats => RunOf(snap[s], Ids(Sent(s))')
    <2>1. stats[s].offered \in Nat /\ snap[s].offered \in Nat
        BY <1>0 DEF StatsType, LineType
    <2>2. PICK A, B : A = Ids(Sent(s)) /\ B = Ids(Sent(s))'
        OBVIOUS
    <2>3. RunOf(stats[s], A) /\ (WindowStats => RunOf(snap[s], A))
        BY <2>2 DEF OfferOrder
    <2> QED
        BY <1>11, <2>1, <2>2, <2>3, RunGrows
<1>13. WindowStats' = WindowStats
    BY DEF WindowStats
<1> QED
    BY <1>d, <1>0, <1>5, <1>6, <1>7, <1>8, <1>9, <1>10, <1>12, <1>13 DEF OfferOrder

(* No step changes the bag, its index or the input mode.                     *)
LEMMA BagStays ==
    ASSUME SessionInv, [SessionNext]_sessionVars
    PROVE  UNCHANGED <<input_mode, index, recording>>
<1>1. CASE RosStep /\ UNCHANGED <<adapterVars, scriptVars, played>>
    <2>1. UNCHANGED <<index, recording>>
        BY <1>1 DEF adapterVars, scriptVars
    <2>2. UNCHANGED input_mode
        <3>1. ASSUME NEW t \in Streams, Generate(t) PROVE UNCHANGED input_mode
            BY <3>1 DEF Generate, Send
        <3> QED
            BY <1>1, <3>1, PipelineKeeps DEF SessionInv
    <2> QED
        BY <2>1, <2>2
<1>2. CASE Session
    BY <1>2 DEF Session, Discover, Miss, AdapterReady, NotReady, Resume, Receive, PublishJob, Send,
       vars, adapterVars, scriptVars
<1>3. CASE UNCHANGED sessionVars
    BY <1>3 DEF sessionVars, vars, adapterVars, scriptVars
<1> QED
    BY <1>1, <1>2, <1>3 DEF SessionNext

(* Every step keeps the order.                                               *)
LEMMA OfferSteps == SessionInv /\ InOrder /\ [SessionNext]_sessionVars => InOrder'
<1> SUFFICES ASSUME SessionInv, InOrder, [SessionNext]_sessionVars, External',
                    NEW s \in Stages, Numbered(StreamOf(s))'
             PROVE  OfferOrder(s)'
    BY DEF InOrder
<1>0. /\ SessionInv' /\ UNCHANGED <<input_mode, index, recording>> /\ External
      /\ Numbered(StreamOf(s)) /\ OfferOrder(s) /\ StreamOf(s) \in Streams
      /\ RosInv /\ RosTypeOK /\ RosTypeOK' /\ stats[s] \in StatsType
    <2>1. SessionInv' /\ UNCHANGED <<input_mode, index, recording>>
        BY SessionSteps, BagStays
    <2>2. External /\ Numbered(StreamOf(s))
        BY <2>1 DEF External, Numbered, BagRows, Bag
    <2>3. RosInv /\ RosTypeOK /\ RosTypeOK' /\ stats[s] \in StatsType
        BY <2>1 DEF SessionInv, RosInv, RosTypeOK
    <2> QED
        BY <2>1, <2>2, <2>3, Names DEF InOrder
<1>1. CASE UNCHANGED vars
    <2>1. UNCHANGED <<published, auditq, stats, pc, msg, owed, snap>>
        BY <1>1 DEF vars, dds, threads, mainVars
    <2>2. \A m : Hearing(s, m)' => Hearing(s, m)
        BY <2>1 DEF Hearing
    <2>3. Sent(s)' = Sent(s) /\ Later(stats'[s], stats[s])
        BY <1>0, <2>1, SentSame, LaterIs
    <2> QED
        BY <1>0, <2>1, <2>2, <2>3, OrderStays
<1>2. CASE Session
    <2>1. ASSUME NEW t \in Streams, Receive(t), ~ UNCHANGED vars PROVE OfferOrder(s)'
        <3>1. /\ played[t] < Len(Bag[t])
              /\ \E m \in StampedJobs(t, Bag[t][played[t] + 1]) : Send(t, m)
            BY <2>1 DEF Receive
        <3>2. PICK m \in StampedJobs(t, Bag[t][played[t] + 1]) : Send(t, m)
            BY <3>1
        <3>3. CASE t = StreamOf(s)
            BY <1>0, <3>1, <3>2, <3>3, ReceiveOrder
        <3>4. CASE t # StreamOf(s)
            <4>1. /\ UNCHANGED <<stats, pc, msg, owed, snap>>
                  /\ auditq'[StreamOf(s)] = auditq[StreamOf(s)]
                  /\ published'[StreamOf(s)] = published[StreamOf(s)]
                BY <1>0, <3>2, <3>4 DEF Send, threads, mainVars, RosTypeOK
            <4>2. \A x : Hearing(s, x)' => Hearing(s, x)
                BY <4>1 DEF Hearing
            <4>3. Sent(s)' = Sent(s) /\ Later(stats'[s], stats[s])
                BY <1>0, <4>1, LaterIs DEF Sent, Measured, External, InSourceWindow
            <4> QED
                BY <1>0, <4>1, <4>2, <4>3, OrderStays
        <3> QED
            BY <3>3, <3>4
    <2>2. UNCHANGED vars \/ \E t \in Streams : Receive(t)
        BY <1>2 DEF Session, Discover, Miss, AdapterReady, NotReady, Resume
    <2> QED
        BY <1>1, <2>1, <2>2
<1>3. CASE RosStep
    <2>1. ASSUME NEW t \in Streams, Generate(t) PROVE FALSE
        BY <1>0, <2>1 DEF Generate
    <2>2. ASSUME NEW t \in Streams, AuditTake(t) PROVE OfferOrder(s)'
        BY <1>0, <2>2, TakeOrder
    <2>3. CASE AuditOffer
        BY <1>0, <2>3, OfferKeepsOrder
    <2>4. CASE Unheard /\ ~ AuditOffer
        <3>1. UNCHANGED <<input_mode, published, auditq>> /\ Kept("audit") /\ AuditPlace
            BY <1>0, <2>4 DEF Unheard, RosInv
        <3>2. \A x : Hearing(s, x)' => Hearing(s, x)
            BY <3>1 DEF Hearing, Kept, AuditPlace, HandPlaces, Busy
        <3>3. Sent(s)' = Sent(s)
            BY <3>1, SentSame
        <3>4. Later(stats'[s], stats[s])
            BY <1>0, <1>3, <2>4, BookSteps, StageBooks, LaterIs DEF Stage
        <3>5. snap'[s] = snap[s] \/ snap'[s] = Line(s)
            BY <1>0, <1>3, SnapSteps
        <3> QED
            BY <1>0, <3>1, <3>2, <3>3, <3>4, <3>5, OrderStays
    <2> QED
        BY <1>0, <1>3, <2>1, <2>2, <2>3, <2>4, UnheardSteps
<1>4. CASE UNCHANGED sessionVars
    BY <1>1, <1>4 DEF sessionVars
<1> QED
    BY <1>2, <1>3, <1>4 DEF SessionNext

(* Nothing is offered at first.                                              *)
LEMMA OfferStarts == SessionInit => InOrder
<1> SUFFICES ASSUME SessionInit, NEW s \in Stages PROVE OfferOrder(s)
    BY DEF InOrder
<1>0. /\ auditq[StreamOf(s)] = <<>> /\ stats[s] = NoStats /\ snap[s] = NoLine
      /\ pc["audit"] # "offer" /\ RosTypeOK /\ published[StreamOf(s)] = <<>>
    <2>1. RosTypeOK
        BY SessionStarts DEF SessionInv, RosInv
    <2> QED
        BY <2>1, Names DEF SessionInit, Init
<1>1. Len(<<>>) = 0 /\ ToSet(<<>>) = {}
    BY DEF ToSet
<1>2. Rising(auditq[StreamOf(s)])
    BY <1>0, <1>1 DEF Rising
<1>3. \A m : ~ Hearing(s, m)
    BY <1>0 DEF Hearing
<1>4. \A m : ~ NotOffered(s, m)
    BY <1>0, <1>1, <1>3, WaitingIs DEF WaitingWhere
<1>5. Ids(Sent(s)) = {}
    BY <1>0, <1>1 DEF Ids, Sent
<1>6. Covered(NoStats, {}) = {} /\ Covered(NoLine, {}) = {} /\ Cardinality({}) = 0
    BY FS_EmptySet DEF Covered
<1>7. RunOf(NoStats, {}) /\ RunOf(NoLine, {})
    BY <1>6 DEF RunOf, NoStats, NoLine
<1> QED
    BY <1>0, <1>1, <1>2, <1>3, <1>4, <1>5, <1>7 DEF OfferOrder

-----------------------------------------------------------------------------
(* An accepted stream                                                      *)

(* A sequence that increases from each element to the next is in order.      *)
LEMMA Increases ==
    ASSUME NEW n \in Nat, NEW q, \A i \in 1 .. n : q[i] \in Int,
           \A i \in 2 .. n : q[i - 1] < q[i]
    PROVE  \A i, k \in 1 .. n : i < k => q[i] < q[k]
<1> SUFFICES ASSUME NEW i \in 1 .. n, NEW k \in 1 .. n, i < k, ~ (q[i] < q[k]) PROVE FALSE
    OBVIOUS
<1> DEFINE T == {l \in i + 1 .. n : ~ (q[i] < q[l])}
<1>1. T \subseteq Nat /\ k \in T
    OBVIOUS
<1>2. PICK l \in T : \A y \in T : l <= y
    BY <1>1, LeastNumber
<1>3. /\ l \in 2 .. n /\ ~ (q[i] < q[l]) /\ l - 1 \in 1 .. n /\ i <= l - 1 /\ l - 1 < l
      /\ l - 1 \notin T
    <2>1. l \in i + 1 .. n /\ ~ (q[i] < q[l])
        OBVIOUS
    <2>2. l - 1 \notin T
        BY <1>2, <2>1
    <2> QED
        BY <2>1, <2>2
<1>4. i = l - 1 \/ q[i] < q[l - 1]
    BY <1>3
<1>5. q[l - 1] < q[l] /\ q[l - 1] \in Int /\ q[l] \in Int /\ q[i] \in Int
    BY <1>3
<1> QED
    BY <1>3, <1>4, <1>5

(* A set of b - a + 1 numbers without a gap that has both a and b.           *)
LEMMA Ends ==
    ASSUME NEW W, W \subseteq Nat, NEW a \in W, NEW b \in W,
           \A i, k \in W : \A l \in Nat : i <= l /\ l <= k => l \in W,
           IsFiniteSet(W), b - a + 1 = Cardinality(W)
    PROVE  a = Min(W) /\ b = Max(W)
<1>0. a \in Nat /\ b \in Nat /\ Cardinality(W) \in Nat
    BY FS_CardinalityType
<1>1. Cardinality(W) > 0
    BY <1>0, FS_EmptySet
<1>2. a <= b
    BY <1>0, <1>1
<1>3. a .. b \subseteq W
    BY <1>0, <1>2
<1>4. Cardinality(a .. b) = b - a + 1 /\ IsFiniteSet(a .. b)
    BY <1>0, <1>2, FS_Interval
<1>5. W = a .. b
    BY <1>3, <1>4, FS_Subset
<1>6. /\ \A x \in W : a <= x /\ x <= b
    BY <1>0, <1>5
<1>7. Min(W) = a
    <2>1. \A x \in W : (\A y \in W : x <= y) => x = a
        BY <1>0, <1>6
    <2> QED
        BY <1>6, <2>1 DEF Min
<1>8. Max(W) = b
    <2>1. \A x \in W : (\A y \in W : x >= y) => x = b
        BY <1>0, <1>6
    <2>2. \A y \in W : b >= y
        BY <1>0, <1>6
    <2> QED
        BY <2>1, <2>2 DEF Max
<1> QED
    BY <1>7, <1>8

(* A measured job of a numbered bag has the ordinal of its message, which is *)
(* one of the window; the messages of the window follow each other.          *)
LEMMA OrdinalsOfWindow ==
    ASSUME SessionInv, External, NEW t \in Streams, Numbered(t),
           NEW s \in Stages, t = StreamOf(s), NEW j \in Ids(Sent(s))
    PROVE  /\ j \in WindowOrdinals(t)
           /\ \A i, k \in WindowOrdinals(t) : \A l \in Nat :
                  i <= l /\ l <= k => l \in WindowOrdinals(t)
<1>d. PICK q, n : q = Bag[t] /\ n = Len(q)
    OBVIOUS
<1>0. /\ SessionTypeOK /\ Gated /\ q \in Seq(Int) /\ n \in Nat
      /\ DOMAIN q = 1 .. n /\ \A i \in 1 .. n : q[i] \in Int
    <2>1. SessionTypeOK /\ Gated
        BY DEF SessionInv
    <2>2. q \in Seq(Int)
        BY <1>d, <2>1, BagTypes
    <2> QED
        BY <1>d, <2>1, <2>2
<1>1. PICK m \in Sent(s) : j = m.job_id
    BY DEF Ids
<1>2. m \in ToSet(published[t]) /\ InSourceWindow(m)
    BY DEF Sent, Measured
<1>3. j \in WindowOrdinals(t)
    <2>1. j \in 1 .. played[t] /\ m.source_ts = q[j] /\ played[t] \in 0 .. n
        BY <1>d, <1>1, <1>2, OrdinalIs
    <2>2. j \in 1 .. n
        BY <1>0, <2>1
    <2> QED
        BY <1>d, <1>0, <1>2, <2>1, <2>2 DEF WindowOrdinals, InSourceWindow
<1>4. PICK rows : rows = index[t].rows
    OBVIOUS
<1>5. DOMAIN rows = 1 .. n /\ \A i \in 1 .. n : rows[i].stamp = q[i]
    BY <1>d, <1>0, <1>4 DEF Numbered, BagRows
<1>6. \A i \in 2 .. n : q[i - 1] < q[i]
    <2>1. published[t] # <<>>
        BY <1>2 DEF ToSet
    <2>2. Spinning
        BY <1>0, <2>1 DEF Gated
    <2>3. ValidIndex(rows)
        BY <1>4, <2>2, Topical DEF Spinning, Numbered
    <2> SUFFICES ASSUME NEW i \in 2 .. n PROVE q[i - 1] < q[i]
        OBVIOUS
    <2>4. i \in DOMAIN rows /\ i # 1 /\ i - 1 \in 1 .. n /\ i \in 1 .. n
        BY <1>0, <1>5
    <2>5. rows[i].stamp > rows[i - 1].stamp
        BY <2>3, <2>4 DEF ValidIndex
    <2> QED
        BY <1>0, <1>5, <2>4, <2>5
<1>7. \A i, k \in 1 .. n : i < k => q[i] < q[k]
    BY <1>0, <1>6, Increases
<1>8. ASSUME NEW i \in WindowOrdinals(t), NEW k \in WindowOrdinals(t), NEW l \in Nat,
             i <= l, l <= k
      PROVE  l \in WindowOrdinals(t)
    <2>1. /\ i \in 1 .. n /\ k \in 1 .. n /\ q[i] >= WindowFrom /\ q[k] < WindowTo
        BY <1>d, <1>0 DEF WindowOrdinals
    <2>2. l \in 1 .. n /\ (i = l \/ i < l) /\ (l = k \/ l < k)
        BY <1>0, <1>8, <2>1
    <2>3. q[i] <= q[l] /\ q[l] <= q[k]
        BY <1>0, <1>7, <2>1, <2>2
    <2>4. q[l] >= WindowFrom /\ q[l] < WindowTo
        BY SMTT(30), <1>0, <2>1, <2>2, <2>3, RosAssumption
    <2> QED
        BY <1>d, <1>0, <2>2, <2>4 DEF WindowOrdinals
<1> QED
    BY <1>3, <1>8

(* A line whose span is the number of its offers has no gap: every number    *)
(* from its first to its last was sent.                                      *)
LEMMA NoGap ==
    ASSUME NEW line \in LineType, NEW ids, ids \subseteq Nat, IsFiniteSet(ids), RunOf(line, ids),
           line.last_job_id - line.first_job_id + 1 = line.offered
    PROVE  /\ line.first_job_id .. line.last_job_id \subseteq ids
           /\ {line.first_job_id, line.last_job_id} \subseteq ids
<1>d. PICK a, b, n : a = line.first_job_id /\ b = line.last_job_id /\ n = line.offered
    OBVIOUS
<1>0. a \in Nat /\ b \in Nat /\ n \in Nat /\ a <= b /\ b - a + 1 = n
    BY <1>d DEF LineType, RunOf
<1>1. PICK K : K = Covered(line, ids)
    OBVIOUS
<1>2. K \subseteq ids /\ K \subseteq a .. b
    <2>1. \A i \in K : i \in ids /\ i \in Nat /\ a <= i /\ i <= b
        BY <1>d, <1>1 DEF Covered
    <2> QED
        BY <1>0, <2>1
<1>3. Cardinality(a .. b) = n /\ IsFiniteSet(a .. b) /\ a \in a .. b /\ b \in a .. b
    BY <1>0, FS_Interval
<1>4. Cardinality(K) \in Nat /\ Cardinality(K) <= n /\ n <= Cardinality(K)
    BY <1>d, <1>1, <1>2, <1>3, FS_Subset, FS_CardinalityType DEF RunOf
<1>5. K = a .. b
    <2>1. Cardinality(K) = Cardinality(a .. b)
        BY <1>0, <1>3, <1>4
    <2> QED
        BY <1>2, <1>3, <2>1, FS_Subset
<1> QED
    BY <1>d, <1>2, <1>3, <1>5

(* What the script's test says of a line of an accepted stream.              *)
LEMMA AcceptedLine ==
    ASSUME SessionInv, NEW t \in Streams, StreamAccepted(t), NEW s \in Stages, t = StreamOf(s)
    PROVE  /\ External /\ WindowStats /\ Nominal[t] \in Nat \ {0} /\ snap[s] \in LineType
           /\ snap[s].last_job_id - snap[s].first_job_id + 1 = Nominal[t]
           /\ snap[WorkerOf(t)].offered = Nominal[t]
           /\ Nominal[t] <= ResolvedIn(stats[s]) /\ ResolvedIn(stats[s]) \in Nat
<1>1. LineAccepted(s) /\ External /\ WindowStats
    BY DEF StreamAccepted
<1>2. stats[s] \in StatsType /\ snap[s] \in LineType /\ Nominal[t] \in Nat \ {0}
    BY NominalAssumption DEF SessionInv, RosInv, RosTypeOK
<1>3. /\ Expected(s) = Nominal[t]
      /\ snap[s].last_job_id - snap[s].first_job_id + 1 = Nominal[t]
      /\ Resolved(s) + unfinished(s) = Nominal[t] /\ unfinished(s) = 0
    BY <1>1 DEF LineAccepted
<1>4. snap[WorkerOf(t)].offered = Nominal[t]
    BY <1>1, <1>3 DEF Expected, WorkerOf, StreamOf, Stages
<1>5. snap[s].resolved = Nominal[t]
    BY <1>1, <1>2, <1>3 DEF Resolved, LineType
<1>6. snap[s].resolved <= ResolvedIn(stats[s]) /\ ResolvedIn(stats[s]) \in Nat
    <2>1. ResolvedIn(stats[s]) \in Nat
        BY <1>2 DEF StatsType, ResolvedIn
    <2> QED
        BY <2>1, MainParts DEF SessionInv, RosInv, LineOf
<1> QED
    BY <1>1, <1>2, <1>3, <1>4, <1>5, <1>6

(* The worker of an accepted stream reports messages of the window without a *)
(* gap.                                                                      *)
LEMMA AcceptedRun ==
    ASSUME SessionInv, InOrder, NEW t \in Streams, StreamAccepted(t), Numbered(t)
    PROVE  LET line == snap[WorkerOf(t)] IN
           /\ line.first_job_id .. line.last_job_id
                  \subseteq Ids(Sent(WorkerOf(t))) \cap WindowOrdinals(t)
           /\ {line.first_job_id, line.last_job_id} \subseteq Ids(Sent(WorkerOf(t)))
<1>d. PICK w \in Stages : w = WorkerOf(t) /\ StreamOf(w) = t
    BY Names
<1>1. /\ External /\ WindowStats /\ snap[w] \in LineType
      /\ snap[w].last_job_id - snap[w].first_job_id + 1 = snap[w].offered
    BY <1>d, AcceptedLine
<1>2. RunOf(snap[w], Ids(Sent(w)))
    BY <1>d, <1>1 DEF InOrder, OfferOrder
<1>3. Ids(Sent(w)) \subseteq Nat /\ IsFiniteSet(Ids(Sent(w)))
    BY <1>d, <1>1, IdsAre
<1>4. /\ snap[w].first_job_id .. snap[w].last_job_id \subseteq Ids(Sent(w))
      /\ {snap[w].first_job_id, snap[w].last_job_id} \subseteq Ids(Sent(w))
    BY <1>1, <1>2, <1>3, NoGap
<1>5. Ids(Sent(w)) \subseteq WindowOrdinals(t)
    BY <1>d, <1>1, OrdinalsOfWindow
<1> QED
    BY <1>d, <1>4, <1>5

(* If the window holds no more messages than the script expects, each stage  *)
(* has all of them behind it, and reports the first and the last one.        *)
LEMMA AcceptedWindow ==
    ASSUME SessionInv, InOrder, NEW t \in Streams, StreamAccepted(t), Numbered(t),
           Cardinality(WindowOrdinals(t)) <= Nominal[t], NEW s \in Stages, StreamOf(s) = t
    PROVE  /\ s = WorkerOf(t) \/ Nominal[t] > 1 =>
                  /\ snap[s].first_job_id = Min(WindowOrdinals(t))
                  /\ snap[s].last_job_id = Max(WindowOrdinals(t))
           /\ \A m \in Sent(s) : ~ Unresolved(s, m)
<1>d. PICK W, N, a, b : /\ W = WindowOrdinals(t) /\ N = Nominal[t]
                        /\ a = snap[s].first_job_id /\ b = snap[s].last_job_id
    OBVIOUS
<1>1. /\ External /\ WindowStats /\ N \in Nat \ {0} /\ a \in Nat /\ b \in Nat
      /\ b - a + 1 = N /\ N <= ResolvedIn(stats[s]) /\ ResolvedIn(stats[s]) \in Nat
    <2>1. /\ External /\ WindowStats /\ N \in Nat \ {0} /\ snap[s] \in LineType
          /\ b - a + 1 = N /\ N <= ResolvedIn(stats[s]) /\ ResolvedIn(stats[s]) \in Nat
        BY <1>d, AcceptedLine
    <2> QED
        BY <1>d, <2>1 DEF LineType
<1>2. /\ Cardinality(Sent(s)) <= Cardinality(W)
      /\ Cardinality(Sent(s)) \in Nat /\ Cardinality(W) \in Nat /\ Cardinality(W) <= N
    BY <1>d, <1>1, SentBound
<1>3. /\ \A m \in Sent(s) : ~ Unresolved(s, m)
      /\ Cardinality(Sent(s)) = ResolvedIn(stats[s])
    <2>1. Cardinality(Sent(s)) <= ResolvedIn(stats[s])
        BY <1>1, <1>2
    <2> QED
        BY <2>1, NoneOpen
<1>4. Cardinality(W) = N
    BY <1>1, <1>2, <1>3
<1>5. ASSUME s = WorkerOf(t) \/ N > 1 PROVE a \in Ids(Sent(s)) /\ b \in Ids(Sent(s))
    <2>1. CASE s = WorkerOf(t)
        BY <1>d, <2>1, AcceptedRun
    <2>2. CASE N > 1
        <3>1. a = 0 => b = 0
            BY <1>d, <1>1 DEF InOrder, OfferOrder, RunOf
        <3>2. a # 0 /\ b # 0
            BY <1>1, <2>2, <3>1
        <3>3. {a, b} \subseteq SentIds(s)
            BY <1>d, MainParts DEF SessionInv, RosInv, LineOf
        <3> QED
            BY <3>2, <3>3 DEF SentIds, Ids
    <2> QED
        BY <1>5, <2>1, <2>2
<1>6. ASSUME s = WorkerOf(t) \/ N > 1 PROVE a = Min(W) /\ b = Max(W)
    <2>1. /\ a \in W /\ b \in W
          /\ \A i, k \in W : \A l \in Nat : i <= l /\ l <= k => l \in W
        BY <1>d, <1>1, <1>5, <1>6, OrdinalsOfWindow
    <2>2. IsFiniteSet(W) /\ W \subseteq Nat
        <3>1. Bag[t] \in Seq(Int) /\ IsFiniteSet(W)
            BY <1>d, BagTypes DEF SessionInv
        <3> QED
            BY <1>d, <3>1 DEF WindowOrdinals
    <2> QED
        BY <1>1, <1>4, <2>1, <2>2, Ends
<1> QED
    BY <1>d, <1>3, <1>6

(* An accepted stream measured as many messages of the window as the script  *)
(* expects, without a gap, and the whole window if it holds no more: for     *)
(* every recording and nominal count, whatever is lost first.                *)
THEOREM AcceptedIsWholeHolds == SessionSpec => []AcceptedIsWhole
<1>1. SessionInv /\ InOrder => AcceptedIsWhole
    <2> SUFFICES ASSUME SessionInv, InOrder, NEW t \in Streams, StreamAccepted(t), Numbered(t)
                 PROVE  LET line == snap[WorkerOf(t)]
                            window == WindowOrdinals(t)
                        IN  /\ line.first_job_id .. line.last_job_id
                                   \subseteq Ids(Sent(WorkerOf(t))) \cap window
                            /\ Cardinality(window) <= Nominal[t] =>
                                   \A s \in Stages : StreamOf(s) = t =>
                                       /\ s = WorkerOf(t) \/ Nominal[t] > 1 =>
                                              /\ snap[s].first_job_id = Min(window)
                                              /\ snap[s].last_job_id = Max(window)
                                       /\ \A m \in Sent(s) : ~ Unresolved(s, m)
        BY DEF AcceptedIsWhole
    <2> QED
        BY AcceptedRun, AcceptedWindow
<1>2. SessionSpec => []InOrder
    BY OfferStarts, OfferSteps, SessionInvariance, PTL DEF SessionSpec
<1> QED
    BY <1>1, <1>2, SessionInvariance, PTL

-----------------------------------------------------------------------------
(* The report                                                              *)

(* For every number of recorded times, the index that percentile_99() reads  *)
(* is inside the vector and is the nearest rank.                             *)
THEOREM PercentileIsNearestRank ==
    ASSUME NEW n \in Nat \ {0}
    PROVE  NearestRank(n, PercentileIndex(n))
<1> DEFINE i == (n * 99 + 99) \div 100
<1>1. i \in Int /\ i * 100 <= n * 99 + 99 /\ n * 99 + 99 < (i + 1) * 100
    OBVIOUS
<1>2. 1 <= i /\ i <= n /\ i * 100 >= n * 99 /\ (i - 1) * 100 < n * 99
    BY <1>1
<1> QED
    BY <1>1, <1>2 DEF NearestRank, PercentileIndex

=============================================================================
