------------------------- MODULE EdfWorkloadProofs --------------------------
(***************************************************************************)
(* The EDF probe keeps its hints, policies and samples straight for every  *)
(* task set, lead and mode, and shows the contrast of its schedulers for   *)
(* every task set that fits and whose tasks starve each other.             *)
(***************************************************************************)
EXTENDS EdfWorkload, FiniteSetTheorems, TLAPS

\* The conjuncts that are shown step by step; Hinted follows from them.
Core == EdfTypeOK /\ (\A t \in Tasks : Position(t)) /\ Together /\ Enrolled /\ CleanEnd

(* The positions of both threads imply what sched_ext may see of them.      *)
LEMMA CoreHinted == Core => Hinted
<1> SUFFICES ASSUME Core, NEW t \in Tasks
             PROVE  /\ policy[t] = "scx" => hint[t] \in 1 .. count[t]
                    /\ mode = "scx" /\ pc[t] \in InLoop => hint[t] = job[t] + 1
    BY DEF Hinted
<1>1. Position(t) /\ job[t] \in Nat /\ count[t] \in Nat \ {0} /\ mode \in Modes
      /\ pc[t] \in {"new", "affinity", "enroll", "barrier", "check", "sleep",
                    "work", "next", "restore", "clear", "gone"}
    BY EdfAssumption DEF Core, EdfTypeOK
<1>2. policy[t] = "scx" => mode = "scx" /\ pc[t] \in Attached
    BY <1>1, EdfAssumption DEF Position, PolicyOf
<1> QED
    BY <1>1, <1>2 DEF Position, Attached, InLoop

(* Before main() has created a thread.                                      *)
LEMMA CoreInit == Init => Core
<1> SUFFICES ASSUME Init PROVE Core
    OBVIOUS
<1> USE EdfAssumption DEF Init
<1>1. EdfTypeOK
    BY DEF EdfTypeOK
<1>2. \A t \in Tasks : Position(t)
    BY DEF Position, Attached, InLoop
<1>3. Together /\ Enrolled /\ CleanEnd
    BY DEF Together, Started, InLoop, Enrolled, CleanEnd
<1> QED
    BY <1>1, <1>2, <1>3 DEF Core

(* A call fails, in any thread: the process ends with exit code 2.          *)
LEMMA FailCore == Core /\ fail => Core'
<1> SUFFICES ASSUME Core, fail PROVE Core'
    OBVIOUS
<1> USE EdfAssumption DEF Core, fail, sampled
<1>1. EdfTypeOK'
    BY DEF EdfTypeOK
<1>2. \A t \in Tasks : Position(t)'
    BY DEF Position, PolicyOf
<1>3. Together' /\ Enrolled' /\ CleanEnd'
    BY DEF Together, Enrolled, CleanEnd, Done, PolicyOf, release, epoch
<1> QED
    BY <1>1, <1>2, <1>3

Label == {"new", "affinity", "enroll", "barrier", "check", "sleep", "work", "next",
          "restore", "clear", "gone"}

(* A statement of thread t that takes no time: it moves t, changes at most   *)
(* its own policy, job and slot, and neither passes the barrier nor enters   *)
(* a job.                                                                    *)
LEMMA MoveCore ==
    ASSUME Core, Running, NEW t \in Tasks, NEW l \in Label \ {"work", "next"},
           NEW p \in {"other", "fifo", "deadline", "scx"}, NEW j \in Nat,
           NEW h \in Nat \cup {None, Clear},
           pc' = [pc EXCEPT ![t] = l], policy' = [policy EXCEPT ![t] = p],
           job' = [job EXCEPT ![t] = j], hint' = [hint EXCEPT ![t] = h],
           UNCHANGED <<mode, now, start, left, missed, exit>>,
           Position(t)', pc[t] \in Started <=> l \in Started
    PROVE  Core'
<1> USE EdfAssumption DEF Core
<1>1. EdfTypeOK'
    BY DEF EdfTypeOK, Label
<1>2. ASSUME NEW u \in Tasks, u # t
      PROVE  /\ pc'[u] = pc[u] /\ policy'[u] = policy[u] /\ job'[u] = job[u]
             /\ hint'[u] = hint[u]
    BY <1>2 DEF EdfTypeOK
<1>3. pc'[t] = l /\ job'[t] = j
    BY DEF EdfTypeOK
<1>4. \A u \in Tasks : Position(u)'
    <2> SUFFICES ASSUME NEW u \in Tasks, u # t PROVE Position(u)'
        OBVIOUS
    <2> QED
        BY <1>2 DEF Position, PolicyOf
<1>5. Together'
    BY <1>2, <1>3 DEF Together
<1>6. Enrolled'
    <2> SUFFICES ASSUME NEW u \in Tasks, pc'[u] \in {"work", "next"}
                 PROVE  /\ \A v \in Tasks : Done(v)' \/ policy'[v] = PolicyOf'
                        /\ start'[u] >= release(u)'
                        /\ now' - start'[u] + left'[u] >= work[u]
        BY DEF Enrolled
    <2>1. u # t /\ pc[u] \in {"work", "next"}
        BY <1>2, <1>3
    <2>2. \A v \in Tasks : pc'[v] \in Started
        BY <1>5 DEF Together, Started, InLoop
    <2>3. \A v \in Tasks : Done(v)' \/ policy'[v] = PolicyOf'
        BY <1>4, <2>2 DEF Position, Started, InLoop, Attached, Done
    <2> QED
        BY <1>2, <2>1, <2>3 DEF Enrolled, release, epoch
<1>7. CleanEnd'
    BY DEF Running, CleanEnd
<1> QED
    BY <1>1, <1>4, <1>5, <1>6, <1>7

(* The threads outside the barrier and the CPU.                             *)
LEMMA WorkerCore ==
    ASSUME Core, Running, NEW t \in Tasks, Worker(t)
    PROVE  Core'
<1> USE EdfAssumption DEF Label, Goto, sampled
<1>1. /\ Position(t) /\ pc[t] \in Label /\ job[t] \in Nat /\ mode \in Modes
      /\ policy[t] \in {"other", "fifo", "deadline", "scx"}
      /\ hint[t] \in Nat \cup {None, Clear} /\ count[t] \in Nat \ {0}
      /\ policy = [policy EXCEPT ![t] = policy[t]] /\ job = [job EXCEPT ![t] = job[t]]
      /\ hint = [hint EXCEPT ![t] = hint[t]]
      /\ pc \in [Tasks -> Label] /\ job \in [Tasks -> Nat]
      /\ DOMAIN policy = Tasks /\ DOMAIN hint = Tasks
      /\ PolicyOf \in {"other", "fifo", "deadline", "scx"}
    BY DEF Core, EdfTypeOK, PolicyOf
<1>2. CASE Create(t)
    <2>1. Position(t)'
        BY <1>1, <1>2 DEF Create, Position, Attached, InLoop, PolicyOf
    <2>2. /\ pc' = [pc EXCEPT ![t] = "affinity"] /\ policy' = [policy EXCEPT ![t] = policy[t]]
          /\ job' = [job EXCEPT ![t] = job[t]] /\ hint' = [hint EXCEPT ![t] = hint[t]]
          /\ UNCHANGED <<mode, now, start, left, missed, exit>>
          /\ pc[t] \in Started <=> "affinity" \in Started
        BY <1>1, <1>2 DEF Create, Started, InLoop
    <2> QED
        BY <1>1, <2>1, <2>2, MoveCore
<1>3. CASE Affinity(t)
    <2> DEFINE h == IF mode = "scx" THEN 1 ELSE hint[t]
    <2>1. hint' = [hint EXCEPT ![t] = h] /\ h \in Nat \cup {None, Clear}
        <3>1. CASE mode = "scx"
            BY <1>3, <3>1 DEF Affinity, publish
        <3>2. CASE mode # "scx"
            BY <1>1, <1>3, <3>2 DEF Affinity, publish
        <3> QED
            BY <3>1, <3>2
    <2>2. Position(t)'
        BY <1>1, <1>3, <2>1 DEF Affinity, Position, Attached, InLoop, PolicyOf
    <2> QED
        BY ZenonT(40), <1>1, <1>3, <2>1, <2>2, MoveCore DEF Affinity, Started, InLoop
<1>4. CASE Enroll(t)
    <2>1. Position(t)'
        BY <1>1, <1>4 DEF Enroll, Position, Attached, InLoop, PolicyOf
    <2> QED
        BY ZenonT(40), <1>1, <1>4, <2>1, MoveCore DEF Enroll, Started, InLoop
<1>5. CASE LateEnrollment(t)
    BY <1>5, FailCore DEF LateEnrollment
<1>6. CASE InTime(t)
    <2>1. Position(t)'
        BY <1>1, <1>6 DEF InTime, Position, Attached, InLoop, PolicyOf
    <2>2. /\ pc' = [pc EXCEPT ![t] = "sleep"] /\ policy' = [policy EXCEPT ![t] = policy[t]]
          /\ job' = [job EXCEPT ![t] = job[t]] /\ hint' = [hint EXCEPT ![t] = hint[t]]
          /\ UNCHANGED <<mode, now, start, left, missed, exit>>
          /\ pc[t] \in Started <=> "sleep" \in Started
        BY <1>1, <1>6 DEF InTime, Started, InLoop
    <2> QED
        BY <1>1, <2>1, <2>2, MoveCore
<1>7. CASE NextJob(t)
    <2> DEFINE more == job[t] + 1 < count[t]
               l == IF more THEN "sleep" ELSE "restore"
               h == IF more /\ mode = "scx" THEN job[t] + 2 ELSE hint[t]
    <2>1. /\ hint' = [hint EXCEPT ![t] = h] /\ h \in Nat \cup {None, Clear}
          /\ pc' = [pc EXCEPT ![t] = l] /\ pc[t] = "next"
          /\ job' = [job EXCEPT ![t] = job[t] + 1] /\ job[t] < count[t]
        BY <1>1, <1>7 DEF NextJob, publish, Position, InLoop
    <2>2. Position(t)'
        BY <1>1, <1>7, <2>1 DEF NextJob, Position, Attached, InLoop, PolicyOf
    <2>3. /\ policy' = [policy EXCEPT ![t] = policy[t]]
          /\ UNCHANGED <<mode, now, start, left, missed, exit>>
          /\ pc[t] \in Started <=> l \in Started
          /\ l \in Label \ {"work", "next"} /\ job[t] + 1 \in Nat
        BY <1>1, <1>7, <2>1 DEF NextJob, Started, InLoop
    <2> HIDE DEF l, h
    <2> QED
        BY <1>1, <2>1, <2>2, <2>3, MoveCore
<1>8. CASE Restore(t)
    <2> DEFINE l == IF mode = "scx" THEN "clear" ELSE "gone"
    <2>1. Position(t)'
        BY <1>1, <1>8 DEF Restore, Position, Attached, InLoop, PolicyOf
    <2> QED
        BY ZenonT(40), <1>1, <1>8, <2>1, MoveCore DEF Restore, Started, InLoop
<1>9. CASE ClearHint(t)
    <2>1. Position(t)'
        BY <1>1, <1>9 DEF ClearHint, Position, Attached, InLoop, PolicyOf
    <2> QED
        BY <1>1, <1>9, <2>1, MoveCore DEF ClearHint, Started, InLoop
<1> QED
    BY <1>2, <1>3, <1>4, <1>5, <1>6, <1>7, <1>8, <1>9 DEF Worker

(* The barrier opens only for both threads.                                 *)
LEMMA AllAtBarrier ==
    ASSUME Barrier
    PROVE  \A t \in Tasks : pc[t] = "barrier"
<1> DEFINE W == {t \in Tasks : pc[t] = "barrier"}
<1>1. IsFiniteSet({"A"}) /\ Cardinality({"A"}) = 1
    BY FS_Singleton
<1>2. Tasks = {"A"} \cup {"B"} /\ "B" \notin {"A"}
    BY DEF Tasks
<1>3. IsFiniteSet(Tasks) /\ Cardinality(Tasks) = 2
    <2>1. /\ IsFiniteSet({"A"} \cup {"B"})
          /\ Cardinality({"A"} \cup {"B"}) = Cardinality({"A"}) + 1
        BY <1>1, <1>2, FS_AddElement
    <2> QED
        BY <1>1, <1>2, <2>1
<1>4. W \subseteq Tasks /\ Cardinality(W) = 2
    BY DEF Barrier, BarrierCount
<1>5. W = Tasks
    BY <1>3, <1>4, FS_Subset
<1> QED
    BY <1>5

(* Only when both threads wait at the barrier do they leave it, together.    *)
LEMMA BarrierCore == Core /\ Running /\ Barrier => Core'
<1> SUFFICES ASSUME Core, Running, Barrier PROVE Core'
    OBVIOUS
<1> USE EdfAssumption DEF Core, Barrier, sampled
<1>1. \A t \in Tasks : pc[t] = "barrier"
    BY AllAtBarrier
<1>2. EdfTypeOK'
    BY DEF EdfTypeOK
<1>3. \A t \in Tasks : Position(t)'
    <2> SUFFICES ASSUME NEW t \in Tasks PROVE Position(t)'
        OBVIOUS
    <2>1. Position(t) /\ pc'[t] = "check" /\ PolicyOf' = PolicyOf
        BY DEF PolicyOf
    <2> QED
        BY <1>1, <2>1 DEF Position, Attached, InLoop
<1>4. Together' /\ Enrolled'
    BY DEF Together, Enrolled, Started
<1>5. CleanEnd'
    BY DEF Running, CleanEnd
<1> QED
    BY <1>2, <1>3, <1>4, <1>5

(* main() prints the rows when both threads are gone.                       *)
LEMMA ReportCore == Core /\ Running /\ Report => Core'
<1> SUFFICES ASSUME Core, Running, Report PROVE Core'
    OBVIOUS
<1> USE EdfAssumption DEF Core, Report, sampled
<1>1. EdfTypeOK'
    BY DEF EdfTypeOK
<1>2. \A t \in Tasks : Position(t)'
    BY DEF Position, PolicyOf
<1>3. Together' /\ Enrolled'
    BY DEF Together, Enrolled
<1>4. CleanEnd'
    BY DEF CleanEnd, Position, Attached
<1> QED
    BY <1>1, <1>2, <1>3, <1>4

(* Time passes and nothing else: while enrolling, or with an idle CPU.      *)
LEMMA PassCore ==
    ASSUME Core, Running, now' \in Nat, now' >= now,
           UNCHANGED <<mode, pc, job, policy, hint, sampled, exit>>
    PROVE  Core'
<1> USE EdfAssumption DEF Core, sampled
<1>1. EdfTypeOK'
    BY DEF EdfTypeOK
<1>2. \A t \in Tasks : Position(t)'
    BY DEF Position, PolicyOf
<1>3. Together'
    BY DEF Together
<1>4. Enrolled'
    <2> SUFFICES ASSUME NEW t \in Tasks, pc[t] \in {"work", "next"}
                 PROVE  /\ \A u \in Tasks : Done(u) \/ policy[u] = PolicyOf
                        /\ start[t] >= release(t)
                        /\ now' - start[t] + left[t] >= work[t]
        BY DEF Enrolled, Done, PolicyOf, release, epoch
    <2>1. now \in Nat /\ start[t] \in Nat /\ left[t] \in Nat /\ work[t] \in Nat
        BY DEF EdfTypeOK
    <2> QED
        BY <2>1 DEF Enrolled
<1>5. CleanEnd'
    BY DEF Running, CleanEnd
<1> QED
    BY <1>1, <1>2, <1>3, <1>4, <1>5

(* What sleeps wakes later, so the CPU runs on for a natural number of       *)
(* ticks, and no longer than the work that is due.                           *)
LEMMA RunLength ==
    ASSUME Core, NEW due \in Nat
    PROVE  LET S == {due} \cup {w - now : w \in Wakes}
           IN  Min(S) \in Nat /\ Min(S) <= due /\ \A y \in S : Min(S) <= y
<1> DEFINE S == {due} \cup {w - now : w \in Wakes}
           a == release("A") - now
           b == release("B") - now
<1>1. now \in Nat /\ \A t \in Tasks : release(t) \in Nat
    <2>1. \A t \in Tasks : job[t] \in Nat /\ period[t] \in Nat
        BY EdfAssumption DEF Core, EdfTypeOK
    <2> QED
        BY <2>1, EdfAssumption DEF Core, EdfTypeOK, release, epoch
<1>2. a \in Int /\ b \in Int
    BY <1>1 DEF Tasks
<1>3. S \subseteq {due, a, b} /\ due \in S /\ S \subseteq Nat
    BY <1>1 DEF Wakes, Tasks
<1> HIDE DEF S, a, b
<1>4. \E x \in S : \A y \in S : x <= y
    <2>1. CASE a \in S /\ b \in S
        BY <1>2, <1>3, <2>1
    <2>2. CASE a \in S /\ b \notin S
        BY <1>2, <1>3, <2>2
    <2>3. CASE a \notin S
        BY <1>2, <1>3, <2>3
    <2> QED
        BY <2>1, <2>2, <2>3
<1>5. Min(S) \in S /\ \A y \in S : Min(S) <= y
    BY <1>4 DEF Min
<1>6. Min(S) \in Nat /\ Min(S) <= due
    BY <1>3, <1>5
<1> QED
    BY <1>5, <1>6 DEF S

(* A thread runs: its sample starts at or after the release, and the time    *)
(* since then and the work that is left cover the work of the job.           *)
LEMMA RunCore ==
    ASSUME Core, Running, NEW t \in Tasks, Run(t)
    PROVE  Core'
<1> USE EdfAssumption
<1>0. /\ pc \in [Tasks -> Label] /\ start \in [Tasks -> Nat] /\ left \in [Tasks -> Nat]
      /\ missed \in [Tasks -> Nat] /\ now \in Nat /\ job \in [Tasks -> Nat]
      /\ work[t] \in Nat /\ reservation[t] \in Nat /\ work[t] <= reservation[t]
    BY DEF Core, EdfTypeOK, Label
<1>1. PICK due \in (IF pc[t] = "sleep" THEN {work[t], reservation[t]} ELSE {left[t]}) :
        LET d == Min({due} \cup {w - now : w \in Wakes})
        IN  /\ Settled /\ Picks(t)
            /\ now' = now + d /\ left' = [left EXCEPT ![t] = due - d]
            /\ start' = IF pc[t] = "sleep" THEN [start EXCEPT ![t] = now] ELSE start
            /\ Goto(t, IF d = due THEN "next" ELSE "work")
            /\ missed' = IF d = due /\ now + d > release(t) + period[t]
                         THEN [missed EXCEPT ![t] = @ + 1] ELSE missed
            /\ UNCHANGED <<mode, job, policy, hint, exit>>
    BY DEF Run
<1>2. due \in Nat /\ (pc[t] = "sleep" => due >= work[t]) /\ (pc[t] # "sleep" => due = left[t])
    BY <1>0, <1>1
<1> DEFINE d == Min({due} \cup {w - now : w \in Wakes})
           l == IF d = due THEN "next" ELSE "work"
<1>3. d \in Nat /\ d <= due
    BY <1>2, RunLength
<1>4. /\ Settled /\ Picks(t)
      /\ now' = now + d /\ left' = [left EXCEPT ![t] = due - d]
      /\ start' = IF pc[t] = "sleep" THEN [start EXCEPT ![t] = now] ELSE start
      /\ pc' = [pc EXCEPT ![t] = l] /\ l \in {"work", "next"}
      /\ missed' \in [Tasks -> Nat]
      /\ UNCHANGED <<mode, job, policy, hint, exit>>
    BY <1>0, <1>1 DEF Goto
<1> HIDE DEF d, l
<1>5. pc[t] = "work" \/ (pc[t] = "sleep" /\ now >= release(t))
    BY <1>4 DEF Picks, Runnable
<1>6. /\ pc'[t] = l /\ \A u \in Tasks : u # t => pc'[u] = pc[u]
      /\ now' \in Nat /\ now' >= now
    BY <1>0, <1>3, <1>4
<1>7. EdfTypeOK'
    BY <1>0, <1>2, <1>3, <1>4, <1>6 DEF Core, EdfTypeOK, Label
<1>8. PolicyOf' = PolicyOf /\ \A u \in Tasks : release(u)' = release(u)
    BY <1>4 DEF PolicyOf, release, epoch
<1>9. \A u \in Tasks : Position(u)'
    BY <1>4, <1>5, <1>6, <1>8 DEF Core, Position, Attached, InLoop
<1>10. Together'
    BY <1>4, <1>5, <1>6 DEF Core, Together, Started, InLoop
<1>11. Enrolled'
    <2> SUFFICES ASSUME NEW u \in Tasks, pc'[u] \in {"work", "next"}
                 PROVE  /\ \A v \in Tasks : Done(v)' \/ policy'[v] = PolicyOf'
                        /\ start'[u] >= release(u)'
                        /\ now' - start'[u] + left'[u] >= work[u]
        BY DEF Enrolled
    <2>1. \A v \in Tasks : pc'[v] \in Started
        BY <1>10 DEF Together, Started, InLoop
    <2>2. \A v \in Tasks : Done(v)' \/ policy'[v] = PolicyOf'
        BY <1>9, <2>1 DEF Position, Started, InLoop, Attached, Done
    <2>3. work[u] \in Nat /\ start[u] \in Nat /\ left[u] \in Nat /\ release(u) \in Int
        <3>1. job[u] \in Nat /\ period[u] \in Nat
            BY <1>0
        <3> QED
            BY <1>0, <3>1 DEF release, epoch
    <2>4. pc[u] = "work" \/ pc[u] = "next" =>
              start[u] >= release(u) /\ now - start[u] + left[u] >= work[u]
        BY DEF Core, Enrolled
    <2>5. CASE u = t /\ pc[t] = "sleep"
        <3>1. start'[u] = now /\ left'[u] = due - d
            BY <1>0, <1>4, <2>5
        <3> QED
            BY <1>0, <1>2, <1>3, <1>4, <1>5, <1>8, <2>2, <2>3, <2>5, <3>1
    <2>6. CASE u = t /\ pc[t] = "work"
        <3>1. start'[u] = start[u] /\ left'[u] = left[u] - d
            BY <1>0, <1>2, <1>4, <2>6
        <3> QED
            BY <1>0, <1>3, <1>4, <1>8, <2>2, <2>3, <2>4, <2>6, <3>1
    <2>7. CASE u # t
        <3>1. start'[u] = start[u] /\ left'[u] = left[u] /\ pc'[u] = pc[u]
            BY <1>0, <1>4, <1>6, <2>7
        <3> QED
            BY <1>0, <1>6, <1>8, <2>2, <2>3, <2>4, <3>1
    <2> QED
        BY <1>5, <2>5, <2>6, <2>7
<1>12. CleanEnd'
    BY <1>4 DEF Running, CleanEnd
<1> QED
    BY <1>7, <1>9, <1>10, <1>11, <1>12 DEF Core

(* The CPU idles until the next sleeper wakes, and not longer.              *)
LEMMA IdleLater ==
    ASSUME Core, Idle
    PROVE  /\ now' \in Nat /\ now' > now
           /\ \A t \in Tasks : pc[t] = "sleep" /\ release(t) > now => now' <= release(t)
<1>1. now \in Nat /\ \A t \in Tasks : release(t) \in Nat
    <2>1. \A t \in Tasks : job[t] \in Nat /\ period[t] \in Nat
        BY EdfAssumption DEF Core, EdfTypeOK
    <2> QED
        BY <2>1, EdfAssumption DEF Core, EdfTypeOK, release, epoch
<1> DEFINE a == release("A")
           b == release("B")
<1>2. a \in Nat /\ b \in Nat
    BY <1>1 DEF Tasks
<1>3. Wakes \subseteq {a, b} /\ Wakes # {} /\ \A w \in Wakes : w > now
    BY DEF Wakes, Tasks, Idle
<1> HIDE DEF a, b
<1>4. \E x \in Wakes : \A y \in Wakes : x <= y
    <2>1. CASE a \in Wakes /\ b \in Wakes
        BY <1>2, <1>3, <2>1
    <2>2. CASE a \notin Wakes \/ b \notin Wakes
        <3>1. PICK w \in Wakes : w \in {a, b}
            BY <1>3
        <3>2. \A y \in Wakes : y = w
            BY <1>3, <2>2, <3>1
        <3> QED
            BY <1>2, <3>1, <3>2
    <2> QED
        BY <2>1, <2>2
<1>5. Min(Wakes) \in Wakes /\ \A w \in Wakes : Min(Wakes) <= w
    BY <1>4 DEF Min
<1>6. now' = Min(Wakes)
    BY DEF Idle
<1>7. now' \in Nat /\ now' > now
    <2>1. Min(Wakes) \in {a, b} /\ Min(Wakes) > now
        BY <1>3, <1>5
    <2> HIDE DEF Wakes
    <2> QED
        BY <1>1, <1>2, <1>6, <2>1
<1>8. ASSUME NEW t \in Tasks, pc[t] = "sleep", release(t) > now PROVE now' <= release(t)
    <2>1. release(t) \in Wakes
        BY <1>8 DEF Wakes
    <2> QED
        BY <1>5, <1>6, <2>1
<1> QED
    BY <1>7, <1>8

(* An idle CPU changes no thread.                                           *)
LEMMA IdleCore == Core /\ Running /\ Idle => Core'
<1> SUFFICES ASSUME Core, Running, Idle PROVE Core'
    OBVIOUS
<1>1. now \in Nat /\ now' \in Nat /\ now' >= now
    <2>1. now \in Nat
        BY DEF Core, EdfTypeOK
    <2> QED
        BY <2>1, IdleLater
<1> QED
    BY <1>1, PassCore DEF Idle

-----------------------------------------------------------------------------
(* Demand                                                                  *)

(* Inequalities are scaled.                                                 *)
LEMMA Scale ==
    ASSUME NEW a \in Int, NEW b \in Int, NEW c \in Nat, a <= b
    PROVE  c * a <= c * b
<1>1. b - a \in Nat
    OBVIOUS
<1>2. c * (b - a) \in Nat
    BY <1>1
<1>3. c * (b - a) = c * b - c * a /\ c * a \in Int /\ c * b \in Int
    OBVIOUS
<1> QED
    BY <1>2, <1>3

(* And back.                                                                *)
LEMMA Unscale ==
    ASSUME NEW a \in Int, NEW b \in Int, NEW c \in Nat \ {0}, c * a <= c * b
    PROVE  a <= b
<1> SUFFICES ASSUME b + 1 <= a PROVE FALSE
    OBVIOUS
<1>1. c * (b + 1) <= c * a
    BY Scale
<1>2. c * (b + 1) = c * b + c /\ c * b \in Int /\ c * a \in Int
    OBVIOUS
<1> QED
    BY <1>1, <1>2

(* Two jobs that are not released before time n, of tasks with periods P, Q  *)
(* and reservations R, S that fit, are feasible up to the later deadline.    *)
LEMMA FreshPair ==
    ASSUME NEW P \in Nat \ {0}, NEW Q \in Nat \ {0}, NEW R \in Nat, NEW S \in Nat,
           R * Q + S * P <= P * Q,
           NEW n \in Int, NEW r \in Int, NEW s \in Int, n <= r, n <= s, r + P <= s + Q
    PROVE  /\ R <= P
           /\ P * (R + S) + ((s + Q) - (r + P)) * R <= P * ((s + Q) - n)
<1> DEFINE y == r - n
           z == s - n
<1>1. y \in Nat /\ z \in Nat /\ r = n + y /\ s = n + z
    OBVIOUS
<1>2. P * (R + S) + ((s + Q) - (r + P)) * R = (R * Q + S * P) + z * R - y * R
    OBVIOUS
<1>3. P * ((s + Q) - n) = P * Q + z * P
    OBVIOUS
<1>4. R <= P
    <2>1. S * P \in Nat
        OBVIOUS
    <2>2. Q * R <= Q * P
        BY <2>1
    <2> QED
        BY <2>2, Unscale
<1>5. z * R <= z * P
    BY <1>1, <1>4, Scale
<1>6. y * R \in Nat /\ z * R \in Int /\ z * P \in Int
    BY <1>1
<1> HIDE DEF y, z
<1> QED
    BY <1>2, <1>3, <1>4, <1>5, <1>6

(* The job with deadline d is done and the next one of its task begins: its  *)
(* deadline is still the earlier one,                                        *)
LEMMA NextFirst ==
    ASSUME NEW P \in Nat, NEW R \in Nat, NEW c \in Nat, NEW n \in Int, NEW d \in Int,
           NEW e \in Int, P * (0 + c) + (e - d) * R <= P * (e - n)
    PROVE  P * (R + c) + (e - (d + P)) * R <= P * (e - n)
<1>1. P * (R + c) + (e - (d + P)) * R = P * (0 + c) + (e - d) * R
    OBVIOUS
<1> QED
    BY <1>1

(* or it was and remains the later one,                                      *)
LEMMA NextLast ==
    ASSUME NEW P \in Nat, NEW Q \in Nat, NEW R \in Nat, NEW S \in Nat,
           R * Q + S * P <= P * Q,
           NEW c \in Nat, NEW n \in Int, NEW d \in Int, NEW e \in Int,
           Q * (c + 0) + (d - e) * S <= Q * (d - n)
    PROVE  Q * (c + R) + ((d + P) - e) * S <= Q * ((d + P) - n)
<1>1. Q * (c + R) + ((d + P) - e) * S = Q * (c + 0) + (d - e) * S + (R * Q + S * P)
    OBVIOUS
<1>2. Q * ((d + P) - n) = Q * (d - n) + P * Q
    OBVIOUS
<1>3. /\ Q * (c + 0) + (d - e) * S \in Int /\ Q * (d - n) \in Int /\ P * Q \in Int
      /\ R * Q + S * P \in Int
    OBVIOUS
<1> QED
    BY <1>1, <1>2, <1>3

(* or it becomes the later one.                                              *)
LEMMA NextCrosses ==
    ASSUME NEW P \in Nat \ {0}, NEW Q \in Nat \ {0}, NEW R \in Nat, NEW S \in Nat,
           R * Q + S * P <= P * Q,
           NEW c \in Nat, NEW n \in Int, NEW d \in Int, NEW e \in Int, d <= e, e <= d + P,
           P * (0 + c) + (e - d) * R <= P * (e - n)
    PROVE  Q * (c + R) + ((d + P) - e) * S <= Q * ((d + P) - n)
<1> DEFINE x == d + P - e
           lhs == Q * (c + R) + x * S
           rhs == Q * ((d + P) - n)
<1>1. x \in Nat /\ e - d = P - x /\ d + P = e + x
    OBVIOUS
<1>2. Q * (P * c + (P - x) * R) <= Q * (P * (e - n))
    BY <1>1, Scale
<1>3. x * (R * Q + S * P) <= x * (P * Q)
    BY <1>1, Scale
<1>4. P * lhs = Q * (P * c + (P - x) * R) + x * (R * Q + S * P)
    BY <1>1
<1>5. P * rhs = Q * (P * (e - n)) + x * (P * Q)
    BY <1>1
<1>6. P * lhs <= P * rhs
    <2>1. /\ Q * (P * c + (P - x) * R) \in Int /\ Q * (P * (e - n)) \in Int
          /\ x * (R * Q + S * P) \in Int /\ x * (P * Q) \in Int
        BY <1>1
    <2> HIDE DEF x, lhs, rhs
    <2> QED
        BY <1>2, <1>3, <1>4, <1>5, <2>1
<1>7. lhs \in Int /\ rhs \in Int
    BY <1>1
<1> HIDE DEF lhs, rhs, x
<1>8. lhs <= rhs
    BY <1>6, <1>7, Unscale
<1> QED
    BY <1>8 DEF lhs, rhs, x

-----------------------------------------------------------------------------
(* Time and work                                                           *)

(* The constants of a task, its job and its deadline are numbers.           *)
LEMMA TaskTypes ==
    ASSUME Core, NEW t \in Tasks
    PROVE  /\ period[t] \in Nat \ {0} /\ work[t] \in Nat \ {0} /\ count[t] \in Nat \ {0}
           /\ reservation[t] \in Nat \ {0} /\ work[t] <= reservation[t]
           /\ job[t] \in Nat /\ left[t] \in Nat /\ missed[t] \in Nat /\ start[t] \in Nat
           /\ now \in Nat /\ epoch \in Nat /\ release(t) \in Nat /\ deadline(t) \in Nat
           /\ release(t) >= epoch /\ deadline(t) = release(t) + period[t]
           /\ Owed(t) \in Nat /\ pc[t] \in Label /\ job[t] * period[t] \in Nat
<1>1. /\ period[t] \in Nat \ {0} /\ work[t] \in Nat \ {0} /\ count[t] \in Nat \ {0}
      /\ reservation[t] \in Nat \ {0} /\ work[t] <= reservation[t]
      /\ job[t] \in Nat /\ left[t] \in Nat /\ missed[t] \in Nat /\ start[t] \in Nat
      /\ now \in Nat /\ epoch \in Nat /\ pc[t] \in Label
    BY EdfAssumption DEF Core, EdfTypeOK, epoch, Label
<1>2. job[t] * period[t] \in Nat
    BY <1>1
<1>3. release(t) \in Nat /\ release(t) >= epoch /\ release(t) = epoch + job[t] * period[t]
    BY <1>1, <1>2 DEF release
<1>4. deadline(t) \in Nat /\ deadline(t) = release(t) + period[t]
    BY <1>1, <1>3 DEF deadline
<1>5. Owed(t) \in Nat
    BY <1>1 DEF Owed
<1> QED
    BY <1>1, <1>2, <1>3, <1>4, <1>5

(* A step of thread t on the CPU: d ticks of what is due, and not longer     *)
(* than a thread sleeps that waits for its release.                          *)
Runs(t, due, d) ==
    /\ due \in Nat /\ d \in Nat /\ d <= due /\ Settled /\ Picks(t)
    /\ IF pc[t] = "sleep" THEN due >= work[t] /\ due <= reservation[t] ELSE due = left[t]
    /\ now' = now + d /\ left' = [left EXCEPT ![t] = due - d]
    /\ pc' = [pc EXCEPT ![t] = IF d = due THEN "next" ELSE "work"]
    /\ missed' = IF d = due /\ now + d > release(t) + period[t]
                 THEN [missed EXCEPT ![t] = @ + 1] ELSE missed
    /\ UNCHANGED <<mode, job, policy, hint, exit>>
    /\ \A u \in Tasks : pc[u] = "sleep" /\ release(u) > now => now' <= release(u)


(* The action is such a step.                                               *)
LEMMA RunIs ==
    ASSUME Core, NEW t \in Tasks, Run(t)
    PROVE  \E due, d : Runs(t, due, d)
<1> USE DEF Run
<1>1. PICK due \in (IF pc[t] = "sleep" THEN {work[t], reservation[t]} ELSE {left[t]}) :
        LET d == Min({due} \cup {w - now : w \in Wakes})
        IN  /\ Settled /\ Picks(t)
            /\ now' = now + d /\ left' = [left EXCEPT ![t] = due - d]
            /\ start' = IF pc[t] = "sleep" THEN [start EXCEPT ![t] = now] ELSE start
            /\ Goto(t, IF d = due THEN "next" ELSE "work")
            /\ missed' = IF d = due /\ now + d > release(t) + period[t]
                         THEN [missed EXCEPT ![t] = @ + 1] ELSE missed
            /\ UNCHANGED <<mode, job, policy, hint, exit>>
    OBVIOUS
<1>2. /\ due \in Nat
      /\ IF pc[t] = "sleep" THEN due >= work[t] /\ due <= reservation[t] ELSE due = left[t]
    BY <1>1, TaskTypes
<1> DEFINE S == {due} \cup {w - now : w \in Wakes}
<1>d. PICK d : d = Min(S)
    OBVIOUS
<1>3. d \in Nat /\ d <= due /\ \A y \in S : d <= y
    BY <1>2, <1>d, RunLength
<1>4. /\ Settled /\ Picks(t)
      /\ now' = now + d /\ left' = [left EXCEPT ![t] = due - d]
      /\ pc' = [pc EXCEPT ![t] = IF d = due THEN "next" ELSE "work"]
      /\ missed' = IF d = due /\ now + d > release(t) + period[t]
                   THEN [missed EXCEPT ![t] = @ + 1] ELSE missed
      /\ UNCHANGED <<mode, job, policy, hint, exit>>
    BY <1>1, <1>d DEF Goto
<1>5. ASSUME NEW u \in Tasks, pc[u] = "sleep", release(u) > now PROVE now' <= release(u)
    <2>1. release(u) \in Wakes
        BY <1>5 DEF Wakes
    <2>2. release(u) - now \in S
        BY <2>1
    <2>3. d <= release(u) - now
        BY <1>3, <2>2
    <2>4. now \in Nat /\ release(u) \in Nat
        BY TaskTypes
    <2> QED
        BY <1>3, <1>4, <2>3, <2>4
<1>6. Runs(t, due, d)
    BY <1>2, <1>3, <1>4, <1>5 DEF Runs
<1> QED
    BY <1>6

(* A step that takes no time and concerns no job: a thread moves towards the *)
(* sleep for its first job, or from its last one to its end.                 *)
Quiet ==
    /\ UNCHANGED <<mode, now, job, left, missed>>
    /\ \A t \in Tasks :
           \/ pc'[t] = pc[t]
           \/ pc[t] \in Enrolling /\ pc'[t] \in Enrolling \cup {"sleep"}
           \/ pc[t] \in {"restore", "clear"} /\ pc'[t] \in {"clear", "gone"}

(* What the steps are to the argument about time.                           *)
LEMMA StepIs ==
    ASSUME Core, [Next]_vars
    PROVE  \/ Quiet \/ (\E t \in Tasks : NextJob(t)) \/ Idle \/ Delay
           \/ \E t \in Tasks : \E due, d : Runs(t, due, d)
<1>0. pc \in [Tasks -> Label]
    BY DEF Core, EdfTypeOK, Label
<1> USE DEF Goto, sampled, Enrolling
<1>1. CASE \E t \in Tasks : Worker(t)
    <2>1. PICK t \in Tasks : Worker(t)
        BY <1>1
    <2>2. CASE Create(t)
        BY <1>0, <2>2 DEF Create, Quiet
    <2>3. CASE Affinity(t)
        BY <1>0, <2>3 DEF Affinity, Quiet
    <2>4. CASE Enroll(t)
        BY <1>0, <2>4 DEF Enroll, Quiet
    <2>5. CASE LateEnrollment(t)
        BY <2>5 DEF LateEnrollment, fail, Quiet
    <2>6. CASE InTime(t)
        BY <1>0, <2>6 DEF InTime, Quiet
    <2>7. CASE Restore(t)
        BY <1>0, <2>7 DEF Restore, Quiet
    <2>8. CASE ClearHint(t)
        BY <1>0, <2>8 DEF ClearHint, Quiet
    <2> QED
        BY <2>1, <2>2, <2>3, <2>4, <2>5, <2>6, <2>7, <2>8 DEF Worker
<1>2. CASE (\E t \in Tasks : Fails(t)) \/ CreateFails \/ Report
    BY <1>2 DEF Fails, CreateFails, Report, fail, Quiet
<1>3. CASE Barrier
    <2>1. \A t \in Tasks : pc[t] = "barrier"
        BY <1>3, AllAtBarrier
    <2> QED
        BY <1>3, <2>1 DEF Barrier, Quiet
<1>4. CASE \E t \in Tasks : Run(t)
    BY <1>4, RunIs
<1>5. CASE UNCHANGED vars
    BY <1>5 DEF vars, Quiet
<1> QED
    BY <1>1, <1>2, <1>3, <1>4, <1>5 DEF Next, Cpu

(* While a thread enrolls, no job has begun.                                *)
LEMMA EarlyStep ==
    ASSUME Core, Early, [Next]_vars
    PROVE  Early'
<1>0. pc \in [Tasks -> Label] /\ job \in [Tasks -> Nat] /\ now \in Nat /\ epoch \in Nat
    BY EdfAssumption DEF Core, EdfTypeOK, Label, epoch
<1> USE DEF Enrolling
<1>1. CASE Quiet
    BY <1>1 DEF Quiet, Early, epoch
<1>2. CASE \E t \in Tasks : NextJob(t)
    <2>1. PICK t \in Tasks : NextJob(t)
        BY <1>2
    <2>2. \A u \in Tasks : pc[u] \notin Enrolling
        BY <2>1 DEF NextJob, Early
    <2>3. \A u \in Tasks : pc'[u] \notin Enrolling
        BY <1>0, <2>1, <2>2 DEF NextJob, Goto
    <2> QED
        BY <2>3 DEF Early
<1>3. CASE Idle
    BY <1>3 DEF Idle, Settled, Early
<1>4. CASE Delay
    BY <1>0, <1>4 DEF Delay, Early, epoch
<1>5. CASE \E t \in Tasks : \E due, d : Runs(t, due, d)
    <2>a. PICK t \in Tasks : \E due, d : Runs(t, due, d)
        BY <1>5
    <2>1. PICK due, d : Runs(t, due, d)
        BY <2>a
    <2>2. \A u \in Tasks : pc'[u] \notin Enrolling
        BY <1>0, <2>1 DEF Runs, Settled
    <2> QED
        BY <2>2 DEF Early
<1> QED
    BY <1>1, <1>2, <1>3, <1>4, <1>5, StepIs


(* What a thread got is a number: its work left is at most its work, or more *)
(* when the job holds on to its reservation.                                 *)
LEMMA SpentInt ==
    ASSUME Core, NEW t \in Tasks
    PROVE  Spent(t) \in Int /\ job[t] * work[t] \in Nat
<1>1. job[t] \in Nat /\ work[t] \in Nat /\ left[t] \in Nat
    BY TaskTypes
<1>2. job[t] * work[t] \in Nat
    BY <1>1
<1> QED
    BY <1>1, <1>2 DEF Spent

SpentType == \A t \in Tasks : Spent(t) \in Int

(* The same of both threads, to be used of the next state.                   *)
LEMMA SpentTyped == Core => SpentType
    BY SpentInt DEF SpentType

(* A step on the CPU: the job is under way and gets at most the time that    *)
(* passes.                                                                   *)
LEMMA SpentRun ==
    ASSUME Core, NEW t \in Tasks, NEW due, NEW d, Runs(t, due, d)
    PROVE  /\ pc[t] = "work" \/ (pc[t] = "sleep" /\ now >= release(t))
           /\ pc'[t] = IF d = due THEN "next" ELSE "work"
           /\ Spent(t)' <= Spent(t) + d
           /\ \A u \in Tasks \ {t} : pc'[u] = pc[u] /\ left'[u] = left[u] /\ Spent(u)' = Spent(u)
<1>0. pc \in [Tasks -> Label] /\ left \in [Tasks -> Nat]
    BY DEF Core, EdfTypeOK, Label
<1>1. pc[t] = "work" \/ (pc[t] = "sleep" /\ now >= release(t))
    BY DEF Runs, Picks, Runnable
<1>2. /\ pc'[t] = (IF d = due THEN "next" ELSE "work") /\ left'[t] = due - d /\ job' = job
      /\ \A u \in Tasks \ {t} : pc'[u] = pc[u] /\ left'[u] = left[u]
    BY <1>0 DEF Runs
<1>3. \A u \in Tasks \ {t} : Spent(u)' = Spent(u)
    BY <1>2 DEF Spent
<1>4. /\ due \in Nat /\ d \in Nat /\ d <= due
      /\ IF pc[t] = "sleep" THEN due >= work[t] /\ due <= reservation[t] ELSE due = left[t]
    BY DEF Runs
<1>5. /\ job[t] * work[t] \in Nat /\ work[t] \in Nat /\ left[t] \in Nat
    BY TaskTypes, SpentInt
<1>6. Spent(t) = job[t] * work[t] + (IF pc[t] = "work" THEN work[t] - left[t] ELSE 0)
    BY <1>1 DEF Spent
<1>7. Spent(t)' = job[t] * work[t] + (IF d = due THEN work[t] ELSE work[t] - (due - d))
    BY <1>2 DEF Spent
<1>8. Spent(t)' <= Spent(t) + d
    <2>1. CASE pc[t] = "sleep"
        BY <1>4, <1>5, <1>6, <1>7, <2>1
    <2>2. CASE pc[t] = "work"
        BY <1>4, <1>5, <1>6, <1>7, <2>2
    <2> QED
        BY <1>1, <2>1, <2>2
<1> QED
    BY <1>1, <1>2, <1>3, <1>8

(* The CPU gives no more work than time has passed.                         *)
LEMMA ElapsedStep ==
    ASSUME Core, Core', Early, Elapsed, [Next]_vars
    PROVE  Elapsed'
<1> DEFINE begun == \E t \in Tasks : job[t] > 0 \/ pc[t] \in {"work", "next"}
<1>0. /\ pc \in [Tasks -> Label] /\ job \in [Tasks -> Nat] /\ left \in [Tasks -> Nat]
      /\ now \in Nat /\ now' \in Nat /\ epoch \in Nat /\ epoch' = epoch
      /\ Spent("A") \in Int /\ Spent("B") \in Int
      /\ "A" \in Tasks /\ "B" \in Tasks /\ Tasks = {"A", "B"}
    BY EdfAssumption, SpentInt DEF Core, EdfTypeOK, Label, epoch, Tasks
<1>1. CASE Quiet
    <2>1. ASSUME NEW t \in Tasks
          PROVE  /\ Spent(t)' = Spent(t)
                 /\ pc'[t] \in {"work", "next"} <=> pc[t] \in {"work", "next"}
        BY <1>1 DEF Quiet, Spent, Enrolling
    <2>2. Spent("A")' = Spent("A") /\ Spent("B")' = Spent("B")
        BY <1>0, <2>1
    <2> QED
        BY <1>0, <1>1, <2>1, <2>2 DEF Quiet, Elapsed
<1>2. CASE \E t \in Tasks : NextJob(t)
    <2>1. PICK t \in Tasks : NextJob(t)
        BY <1>2
    <2>2. /\ now' = now /\ left' = left /\ pc[t] = "next" /\ job'[t] = job[t] + 1
          /\ pc'[t] \in {"sleep", "restore"}
          /\ \A u \in Tasks \ {t} : pc'[u] = pc[u] /\ job'[u] = job[u]
        BY <1>0, <2>1 DEF NextJob, Goto, sampled
    <2>3. Spent(t)' = Spent(t)
        <3>1. job[t] \in Nat /\ work[t] \in Nat
            BY TaskTypes
        <3>2. (job[t] + 1) * work[t] + 0 = job[t] * work[t] + work[t]
            BY <3>1
        <3> QED
            BY <2>2, <3>2 DEF Spent
    <2>4. \A u \in Tasks \ {t} : Spent(u)' = Spent(u)
        BY <2>2 DEF Spent
    <2>5. Spent("A")' = Spent("A") /\ Spent("B")' = Spent("B")
        BY <1>0, <2>3, <2>4
    <2> QED
        BY <1>0, <2>2, <2>5 DEF Elapsed
<1>3. CASE Idle \/ Delay
    <2>1. /\ pc' = pc /\ job' = job /\ left' = left
          /\ Idle => now' >= now
        <3>1. Idle => now' >= now
            BY <1>0, IdleLater
        <3> QED
            BY <1>3, <3>1 DEF Idle, Delay, sampled
    <2>2. Spent("A")' = Spent("A") /\ Spent("B")' = Spent("B")
        BY <2>1 DEF Spent
    <2>3. CASE Idle
        BY <1>0, <2>1, <2>2, <2>3 DEF Elapsed
    <2>4. CASE Delay
        <3>1. \A t \in Tasks : pc[t] \in Enrolling \cup {"sleep"} /\ job[t] = 0
            BY <2>4 DEF Delay, Early, Enrolling
        <3> QED
            BY <2>1, <3>1 DEF Elapsed, Enrolling
    <2> QED
        BY <1>3, <2>3, <2>4
<1>4. CASE \E t \in Tasks : \E due, d : Runs(t, due, d)
    <2>a. PICK t \in Tasks : \E due, d : Runs(t, due, d)
        BY <1>4
    <2>1. PICK due, d : Runs(t, due, d)
        BY <2>a
    <2>2. now' = now + d /\ d \in Nat
        BY <2>1 DEF Runs
    <2>3. Spent("A")' \in Int /\ Spent("B")' \in Int
        <3>1. Core' => SpentType'
            BY SpentTyped, PTL
        <3> QED
            BY <1>0, <3>1 DEF SpentType
    <2>4. Spent("A")' + Spent("B")' <= Spent("A") + Spent("B") + d
        <3>2. CASE t = "A"
            BY <1>0, <2>1, <2>2, <2>3, <3>2, SpentRun
        <3>3. CASE t = "B"
            BY <1>0, <2>1, <2>2, <2>3, <3>3, SpentRun
        <3> QED
            BY <1>0, <3>2, <3>3
    <2>5. now >= epoch /\ now - epoch >= Spent("A") + Spent("B")
        <3>1. CASE begun
            BY <3>1 DEF Elapsed
        <3>2. CASE ~ begun
            <4>1. pc[t] = "sleep" /\ now >= release(t) /\ release(t) >= epoch
                  /\ release(t) \in Nat
                BY <2>1, <3>2, SpentRun, TaskTypes
            <4>2. ASSUME NEW u \in Tasks PROVE Spent(u) = 0
                <5>1. job[u] = 0 /\ pc[u] \notin {"work", "next"} /\ work[u] \in Nat
                    BY <1>0, <3>2, TaskTypes
                <5> QED
                    BY <5>1 DEF Spent
            <4> QED
                BY <1>0, <4>1, <4>2
        <3> QED
            BY <3>1, <3>2
    <2> QED
        BY <1>0, <2>2, <2>4, <2>5, <2>3 DEF Elapsed
<1> QED
    BY <1>1, <1>2, <1>3, <1>4, StepIs


-----------------------------------------------------------------------------
(* Deadline order                                                          *)

(* The task set fits, whichever task comes first, and each of the two alone. *)
LEMMA FitsPair ==
    ASSUME Fits, Core, NEW t \in Tasks, NEW u \in Tasks \ {t}
    PROVE  reservation[t] * period[u] + reservation[u] * period[t] <= period[t] * period[u]
<1>1. /\ period["A"] \in Nat /\ period["B"] \in Nat
      /\ reservation["A"] \in Nat /\ reservation["B"] \in Nat
    BY TaskTypes DEF Tasks
<1>2. CASE t = "A" /\ u = "B"
    BY <1>2 DEF Fits
<1>3. CASE t = "B" /\ u = "A"
    <2>1. /\ reservation["B"] * period["A"] + reservation["A"] * period["B"]
                = reservation["A"] * period["B"] + reservation["B"] * period["A"]
          /\ period["B"] * period["A"] = period["A"] * period["B"]
        BY <1>1
    <2> QED
        BY <1>3, <2>1 DEF Fits
<1> QED
    BY <1>2, <1>3 DEF Tasks

(* A reservation that fits with the other fits its period.                   *)
LEMMA FitsOne ==
    ASSUME NEW P \in Nat \ {0}, NEW Q \in Nat \ {0}, NEW R \in Nat, NEW S \in Nat,
           R * Q + S * P <= P * Q
    PROVE  R <= P
<1>1. S * P \in Nat /\ R * Q \in Nat /\ P * Q \in Nat
    OBVIOUS
<1>2. Q * R <= Q * P
    BY <1>1
<1> QED
    BY <1>2, Unscale

(* Work that is done in the time that passes takes nothing from a pair.      *)
LEMMA WorkPaces ==
    ASSUME NEW P \in Nat, NEW a \in Int, NEW b \in Int, NEW c \in Int, NEW d \in Int,
           NEW k \in Int, NEW e \in Int, NEW n \in Int,
           c <= a - d, P * (a + b) + k <= P * (e - n)
    PROVE  P * (c + b) + k <= P * (e - (n + d))
<1>1. P * (c + b) <= P * ((a + b) - d)
    BY Scale
<1>2. P * ((a + b) - d) = P * (a + b) - P * d /\ P * (e - (n + d)) = P * (e - n) - P * d
    OBVIOUS
<1>3. /\ P * (c + b) \in Int /\ P * (a + b) \in Int /\ P * d \in Int /\ P * (e - n) \in Int
    OBVIOUS
<1> QED
    BY <1>1, <1>2, <1>3

\* One deadline, and an ordered pair of deadlines
InSlack(t) == Active(t) => Owed(t) <= deadline(t) - now
Feasible(t, u) ==
    Active(t) /\ Active(u) /\ deadline(t) <= deadline(u) =>
        period[t] * (Owed(t) + Owed(u)) + (deadline(u) - deadline(t)) * reservation[t]
            <= period[t] * (deadline(u) - now)
DeadlineOrder == Fits /\ mode \in {"deadline", "scx"}

(* The invariant in these terms.                                             *)
LEMMA OnTimeParts ==
    OnTime <=> (DeadlineOrder => \A t \in Tasks :
                    /\ missed[t] = 0 /\ InSlack(t)
                    /\ \A u \in Tasks \ {t} : Feasible(t, u))
    BY DEF OnTime, DeadlineOrder, InSlack, Feasible

(* When every task still waits for its next release, both jobs are feasible. *)
Fresh ==
    DeadlineOrder => \A t \in Tasks :
        missed[t] = 0 /\ (Active(t) => Owed(t) = reservation[t] /\ now <= release(t))

(* Then nothing is late.                                                    *)
LEMMA FreshOnTime == Core /\ Fresh => OnTime
<1> SUFFICES ASSUME Core, Fresh, DeadlineOrder, NEW t \in Tasks, NEW u \in Tasks \ {t}
             PROVE  InSlack(t) /\ Feasible(t, u)
    <2>1. \A t \in Tasks : \E u \in Tasks : u # t
        BY DEF Tasks
    <2> QED
        BY <2>1, OnTimeParts DEF Fresh
<1>1. /\ Active(t) => Owed(t) = reservation[t] /\ now <= release(t)
      /\ Active(u) => Owed(u) = reservation[u] /\ now <= release(u)
    BY DEF Fresh
<1>2. /\ period[t] \in Nat \ {0} /\ reservation[t] \in Nat /\ release(t) \in Nat
      /\ period[u] \in Nat \ {0} /\ reservation[u] \in Nat /\ release(u) \in Nat
      /\ deadline(t) = release(t) + period[t] /\ deadline(u) = release(u) + period[u]
      /\ now \in Nat
    BY TaskTypes
<1>3. reservation[t] * period[u] + reservation[u] * period[t] <= period[t] * period[u]
    BY FitsPair DEF DeadlineOrder
<1>4. reservation[t] <= period[t]
    BY <1>2, <1>3, FitsOne
<1>5. InSlack(t)
    BY <1>1, <1>2, <1>4 DEF InSlack
<1>6. Feasible(t, u)
    <2> SUFFICES ASSUME Active(t), Active(u), deadline(t) <= deadline(u) PROVE Feasible(t, u)
        BY DEF Feasible
    <2>1. /\ now <= release(t) /\ now <= release(u) /\ now \in Int
          /\ release(t) + period[t] <= release(u) + period[u]
          /\ release(t) \in Int /\ release(u) \in Int
        BY <1>1, <1>2
    <2>2. period[t] * (reservation[t] + reservation[u])
              + ((release(u) + period[u]) - (release(t) + period[t])) * reservation[t]
            <= period[t] * ((release(u) + period[u]) - now)
        BY ZenonT(40), <1>2, <1>3, <2>1, FreshPair
    <2> QED
        BY <1>1, <1>2, <2>2 DEF Feasible
<1> QED
    BY <1>5, <1>6


(* A job ends and the next one of the task begins: both deadlines stay        *)
(* feasible, with the deadline of the task moved by its period.              *)
LEMMA OnTimeNext ==
    ASSUME Core, Core', OnTime, NEW t \in Tasks, NextJob(t)
    PROVE  OnTime'
<1>1. PICK u \in Tasks \ {t} : Tasks = {t, u}
    BY DEF Tasks
<1>2. /\ pc \in [Tasks -> Label] /\ job \in [Tasks -> Nat]
    BY DEF Core, EdfTypeOK, Label
<1>3. /\ mode' = mode /\ now' = now /\ left' = left /\ missed' = missed /\ pc[t] = "next"
      /\ pc'[t] \in {"sleep", "restore"} /\ pc'[u] = pc[u]
      /\ job'[t] = job[t] + 1 /\ job'[u] = job[u]
    BY <1>2 DEF NextJob, Goto, sampled
<1>4. /\ period[t] \in Nat \ {0} /\ reservation[t] \in Nat /\ deadline(t) \in Nat
      /\ period[u] \in Nat \ {0} /\ reservation[u] \in Nat /\ deadline(u) \in Nat
      /\ now \in Nat /\ Owed(u) \in Nat
    BY TaskTypes
<1>5. deadline(t)' = deadline(t) + period[t] /\ deadline(u)' = deadline(u)
    <2>1. job[t] \in Nat /\ period[t] \in Nat
        BY TaskTypes
    <2>2. (job[t] + 1) * period[t] = job[t] * period[t] + period[t] /\ job[t] * period[t] \in Nat
        BY <2>1
    <2>3. epoch \in Nat /\ epoch' = epoch
        BY EdfAssumption DEF epoch
    <2> QED
        BY <1>3, <1>4, <2>2, <2>3 DEF deadline, release
<1>6. /\ Owed(t) = 0 /\ Owed(u)' = Owed(u) /\ Active(t) /\ Active(u)' = Active(u)
      /\ Active(t)' => Owed(t)' = reservation[t]
    BY <1>3 DEF Owed, Active
<1> SUFFICES ASSUME DeadlineOrder'
             PROVE  /\ missed'[t] = 0 /\ missed'[u] = 0 /\ InSlack(t)' /\ InSlack(u)'
                    /\ Feasible(t, u)' /\ Feasible(u, t)'
    <2>1. OnTime' <=> (DeadlineOrder' => \A v \in Tasks :
                        /\ missed'[v] = 0 /\ InSlack(v)'
                        /\ \A w \in Tasks \ {v} : Feasible(v, w)')
        BY DEF OnTime, DeadlineOrder, InSlack, Feasible
    <2> QED
        BY <1>1, <2>1
<1>7. /\ DeadlineOrder /\ Fits
    BY <1>3 DEF DeadlineOrder, Fits
<1>8. /\ missed[t] = 0 /\ missed[u] = 0 /\ InSlack(t) /\ InSlack(u)
      /\ Feasible(t, u) /\ Feasible(u, t)
    BY <1>7, OnTimeParts
<1>9. reservation[t] * period[u] + reservation[u] * period[t] <= period[t] * period[u]
    BY <1>7, FitsPair
<1>10. reservation[t] <= period[t]
    BY <1>4, <1>9, FitsOne
<1>11. InSlack(t)' /\ InSlack(u)'
    BY <1>3, <1>4, <1>5, <1>6, <1>8, <1>10 DEF InSlack
<1>i. /\ now \in Int /\ deadline(t) \in Int /\ deadline(u) \in Int
      /\ period[t] \in Nat /\ period[u] \in Nat
    BY <1>4
<1>12. Feasible(t, u)'
    <2> SUFFICES ASSUME Active(t)', Active(u), deadline(t) + period[t] <= deadline(u)
                 PROVE  period[t] * (reservation[t] + Owed(u))
                            + (deadline(u) - (deadline(t) + period[t])) * reservation[t]
                          <= period[t] * (deadline(u) - now)
        BY <1>3, <1>5, <1>6 DEF Feasible
    <2>1. period[t] * (0 + Owed(u)) + (deadline(u) - deadline(t)) * reservation[t]
              <= period[t] * (deadline(u) - now)
        BY <1>4, <1>6, <1>8 DEF Feasible
    <2> QED
        BY ZenonT(40), <1>4, <1>i, <2>1, NextFirst
<1>13. Feasible(u, t)'
    <2> SUFFICES ASSUME Active(t)', Active(u), deadline(u) <= deadline(t) + period[t]
                 PROVE  period[u] * (Owed(u) + reservation[t])
                            + ((deadline(t) + period[t]) - deadline(u)) * reservation[u]
                          <= period[u] * ((deadline(t) + period[t]) - now)
        BY <1>3, <1>5, <1>6 DEF Feasible
    <2>1. CASE deadline(u) <= deadline(t)
        <3>1. period[u] * (Owed(u) + 0) + (deadline(t) - deadline(u)) * reservation[u]
                  <= period[u] * (deadline(t) - now)
            BY <1>4, <1>6, <1>8, <2>1 DEF Feasible
        <3> QED
            BY ZenonT(40), <1>4, <1>9, <1>i, <3>1, NextLast
    <2>2. CASE deadline(t) <= deadline(u)
        <3>1. period[t] * (0 + Owed(u)) + (deadline(u) - deadline(t)) * reservation[t]
                  <= period[t] * (deadline(u) - now)
            BY <1>4, <1>6, <1>8, <2>2 DEF Feasible
        <3> QED
            BY ZenonT(40), <1>4, <1>9, <1>i, <2>2, <3>1, NextCrosses
    <2> QED
        BY <1>4, <2>1, <2>2
<1> QED
    BY <1>3, <1>8, <1>11, <1>12, <1>13


(* The scheduler knows the deadline of every job that can run: in scx mode by *)
(* the hint, which is the job's own.                                         *)
LEMMA DeadlineKnown ==
    ASSUME Core, NEW t \in Tasks, pc[t] \in InLoop
    PROVE  DeadlineOf(t) = deadline(t)
<1>1. /\ Position(t) /\ job[t] \in Nat /\ period[t] \in Nat /\ epoch \in Nat
    BY TaskTypes DEF Core
<1>2. mode = "scx" => hint[t] = job[t] + 1
    BY <1>1 DEF Position, InLoop
<1>3. (job[t] + 1) - 1 = job[t]
    BY <1>1
<1> QED
    BY <1>2, <1>3 DEF DeadlineOf, deadline, release


(* A job gets the CPU: deadline order gave it to the earlier deadline, so the *)
(* other job loses no time that it needs, and a job that ends is in time.    *)
LEMMA OnTimeRun ==
    ASSUME Core, OnTime, NEW t \in Tasks, NEW due, NEW d, Runs(t, due, d)
    PROVE  OnTime'
<1>1. PICK u \in Tasks \ {t} : Tasks = {t, u}
    BY DEF Tasks
<1>2. /\ pc \in [Tasks -> Label] /\ left \in [Tasks -> Nat] /\ due \in Nat /\ d \in Nat
      /\ d <= due
    BY DEF Core, EdfTypeOK, Label, Runs
<1>3. /\ mode' = mode /\ now' = now + d /\ left'[t] = due - d /\ left'[u] = left[u]
      /\ pc'[t] = (IF d = due THEN "next" ELSE "work") /\ pc'[u] = pc[u] /\ job' = job
      /\ pc[t] = "work" \/ pc[t] = "sleep"
    BY <1>2, SpentRun DEF Runs
<1>4. /\ period[t] \in Nat \ {0} /\ reservation[t] \in Nat /\ deadline(t) \in Nat
      /\ period[u] \in Nat \ {0} /\ reservation[u] \in Nat /\ deadline(u) \in Nat
      /\ now \in Nat /\ Owed(t) \in Nat /\ Owed(u) \in Nat /\ left[t] \in Nat
      /\ release(u) \in Nat /\ deadline(u) = release(u) + period[u]
      /\ deadline(t) = release(t) + period[t]
    BY TaskTypes
<1>5. deadline(t)' = deadline(t) /\ deadline(u)' = deadline(u)
    BY <1>3 DEF deadline, release, epoch
<1>6. /\ due <= Owed(t) /\ Owed(t)' = due - d /\ Owed(u)' = Owed(u)
      /\ Active(t) /\ Active(t)' /\ Active(u)' = Active(u)
    BY <1>2, <1>3, <1>4 DEF Owed, Active, Runs
<1>c. OnTime' <=> (DeadlineOrder' => \A v \in Tasks :
                       /\ missed'[v] = 0 /\ InSlack(v)'
                       /\ \A w \in Tasks \ {v} : Feasible(v, w)')
    BY DEF OnTime, DeadlineOrder, InSlack, Feasible
<1> SUFFICES ASSUME DeadlineOrder'
             PROVE  /\ missed'[t] = 0 /\ missed'[u] = 0 /\ InSlack(t)' /\ InSlack(u)'
                    /\ Feasible(t, u)' /\ Feasible(u, t)'
    BY <1>1, <1>c
<1>7. /\ DeadlineOrder /\ Fits /\ mode \in {"deadline", "scx"}
    BY <1>3 DEF DeadlineOrder, Fits
<1>8. /\ missed[t] = 0 /\ missed[u] = 0 /\ InSlack(t) /\ InSlack(u)
      /\ Feasible(t, u) /\ Feasible(u, t)
    BY <1>7, OnTimeParts
<1>9. Owed(t) <= deadline(t) - now
    BY <1>6, <1>8 DEF InSlack
<1>10. missed' = missed
    BY <1>2, <1>4, <1>6, <1>9 DEF Runs
<1>11. InSlack(t)'
    BY <1>2, <1>3, <1>4, <1>5, <1>6, <1>9 DEF InSlack
<1>12. InSlack(u)'
    <2> SUFFICES ASSUME Active(u) PROVE Owed(u) <= deadline(u) - (now + d)
        BY <1>3, <1>5, <1>6 DEF InSlack
    <2>1. CASE Runnable(u)
        <3>1. deadline(t) <= deadline(u)
            <4>1. DeadlineOf(t) <= DeadlineOf(u)
                BY <1>1, <1>7, <2>1 DEF Runs, Picks, PolicyOf
            <4>2. DeadlineOf(t) = deadline(t) /\ DeadlineOf(u) = deadline(u)
                BY <1>3, <2>1, DeadlineKnown DEF Runnable, InLoop
            <4> QED
                BY <4>1, <4>2
        <3>2. period[t] * (Owed(t) + Owed(u)) + (deadline(u) - deadline(t)) * reservation[t]
                  <= period[t] * (deadline(u) - now)
            BY <1>6, <1>8, <3>1 DEF Feasible
        <3>3. (deadline(u) - deadline(t)) * reservation[t] \in Nat
            <4>1. deadline(u) - deadline(t) \in Nat
                BY <1>4, <3>1
            <4> QED
                BY <1>4, <4>1
        <3>4. period[t] * (Owed(t) + Owed(u)) <= period[t] * (deadline(u) - now)
            <4>1. /\ period[t] * (Owed(t) + Owed(u)) \in Int
                  /\ period[t] * (deadline(u) - now) \in Int
                BY <1>4
            <4> QED
                BY <3>2, <3>3, <4>1
        <3>5. Owed(t) + Owed(u) <= deadline(u) - now
            BY <1>4, <3>4, Unscale
        <3> QED
            BY <1>2, <1>4, <1>6, <3>5
    <2>2. CASE ~ Runnable(u)
        <3>1. pc[u] = "sleep" /\ release(u) > now
            BY <1>4, <2>2 DEF Runs, Settled, Runnable, Active
        <3>2. now' <= release(u) /\ Owed(u) = reservation[u]
            BY <3>1 DEF Runs, Owed
        <3>3. reservation[u] <= period[u]
            BY <1>4, <1>7, FitsPair, FitsOne
        <3> QED
            BY <1>2, <1>3, <1>4, <3>2, <3>3
    <2> QED
        BY <2>1, <2>2
<1>13. Feasible(t, u)'
    <2> SUFFICES ASSUME Active(u), deadline(t) <= deadline(u)
                 PROVE  period[t] * ((due - d) + Owed(u))
                            + (deadline(u) - deadline(t)) * reservation[t]
                          <= period[t] * (deadline(u) - (now + d))
        BY <1>3, <1>5, <1>6 DEF Feasible
    <2>1. period[t] * (Owed(t) + Owed(u)) + (deadline(u) - deadline(t)) * reservation[t]
              <= period[t] * (deadline(u) - now)
        BY <1>6, <1>8 DEF Feasible
    <2>2. /\ due - d <= Owed(t) - d /\ due - d \in Int /\ d \in Int /\ now \in Int
          /\ period[t] \in Nat /\ Owed(t) \in Int /\ Owed(u) \in Int /\ deadline(u) \in Int
          /\ (deadline(u) - deadline(t)) * reservation[t] \in Int
        BY <1>2, <1>4, <1>6
    <2> QED
        BY ZenonT(40), <2>1, <2>2, WorkPaces
<1>14. Feasible(u, t)'
    <2> SUFFICES ASSUME Active(u), deadline(u) <= deadline(t)
                 PROVE  period[u] * (Owed(u) + (due - d))
                            + (deadline(t) - deadline(u)) * reservation[u]
                          <= period[u] * (deadline(t) - (now + d))
        BY <1>3, <1>5, <1>6 DEF Feasible
    <2>1. period[u] * (Owed(t) + Owed(u)) + (deadline(t) - deadline(u)) * reservation[u]
              <= period[u] * (deadline(t) - now)
        <3>1. period[u] * (Owed(u) + Owed(t)) + (deadline(t) - deadline(u)) * reservation[u]
                  <= period[u] * (deadline(t) - now)
            BY <1>6, <1>8 DEF Feasible
        <3>2. Owed(u) + Owed(t) = Owed(t) + Owed(u)
            BY <1>4
        <3> QED
            BY <3>1, <3>2
    <2>2. /\ due - d <= Owed(t) - d /\ due - d \in Int /\ d \in Int /\ now \in Int
          /\ period[u] \in Nat /\ Owed(t) \in Int /\ Owed(u) \in Int /\ deadline(t) \in Int
          /\ (deadline(t) - deadline(u)) * reservation[u] \in Int
          /\ Owed(u) + (due - d) = (due - d) + Owed(u)
        BY <1>2, <1>4, <1>6
    <2>3. period[u] * ((due - d) + Owed(u)) + (deadline(t) - deadline(u)) * reservation[u]
              <= period[u] * (deadline(t) - (now + d))
        BY ZenonT(40), <2>1, <2>2, WorkPaces
    <2> QED
        BY <2>2, <2>3
<1> QED
    BY <1>8, <1>10, <1>11, <1>12, <1>13, <1>14

(* If the task set fits, deadline order keeps both deadlines feasible.       *)
LEMMA OnTimeStep ==
    ASSUME Core, Core', Early, OnTime, [Next]_vars
    PROVE  OnTime'
<1>0. /\ pc \in [Tasks -> Label] /\ job \in [Tasks -> Nat] /\ now \in Nat /\ epoch \in Nat
      /\ epoch' = epoch
    BY EdfAssumption DEF Core, EdfTypeOK, Label, epoch
<1>1. CASE Quiet
    <2>1. /\ mode' = mode /\ now' = now /\ missed' = missed
          /\ \A t \in Tasks : deadline(t)' = deadline(t)
        BY <1>1 DEF Quiet, deadline, release, epoch
    <2>2. ASSUME NEW t \in Tasks
          PROVE  Active(t)' => Active(t) /\ Owed(t)' = Owed(t)
        BY <1>1 DEF Quiet, Active, Owed, Enrolling
    <2> QED
        BY <2>1, <2>2 DEF OnTime, Fits
<1>2. CASE Idle \/ Delay
    <2>1. Fresh'
        <3> SUFFICES ASSUME DeadlineOrder', NEW t \in Tasks
                     PROVE  /\ missed'[t] = 0
                            /\ Active(t)' => Owed(t)' = reservation[t] /\ now' <= release(t)'
            BY DEF Fresh
        <3>1. UNCHANGED <<mode, pc, job, left, missed>> /\ release(t)' = release(t)
            BY <1>2 DEF Idle, Delay, sampled, release, epoch
        <3>2. missed'[t] = 0
            BY <3>1, OnTimeParts DEF DeadlineOrder, Fits
        <3>3. CASE Idle
            <4>1. Active(t) => pc[t] = "sleep" /\ release(t) > now
                <5>1. release(t) \in Nat
                    BY TaskTypes
                <5> QED
                    BY <1>0, <3>3, <5>1 DEF Idle, Settled, Active, Runnable
            <4>2. Active(t) => Owed(t) = reservation[t] /\ now' <= release(t)
                BY <3>3, <4>1, IdleLater DEF Owed
            <4> QED
                BY <3>1, <3>2, <4>2 DEF Active, Owed
        <3>4. CASE Delay
            <4>1. now' <= epoch /\ pc[t] \in Enrolling \cup {"sleep"}
                BY <1>0, <3>4 DEF Delay, Early, Enrolling
            <4>2. Owed(t) = reservation[t]
                BY <4>1 DEF Owed, Enrolling
            <4>3. release(t) \in Nat /\ release(t) >= epoch /\ now' \in Nat
                BY TaskTypes DEF Core, EdfTypeOK
            <4> QED
                BY <1>0, <3>1, <3>2, <4>1, <4>2, <4>3 DEF Owed
        <3> QED
            BY <1>2, <3>3, <3>4
    <2>2. Core' /\ Fresh' => OnTime'
        BY FreshOnTime, PTL
    <2> QED
        BY <2>1, <2>2
<1> QED
    BY <1>1, <1>2, OnTimeNext, OnTimeRun, StepIs


-----------------------------------------------------------------------------
(* Fixed priorities                                                        *)

(* Seen from the starved task.                                               *)
LEMMA FirstMissParts ==
    FirstMiss <=> \A l \in Tasks : \A h \in Tasks \ {l} :
        Starves(h, l) /\ mode = (IF h = "A" THEN "fifo-a" ELSE "fifo-b") =>
            (job[l] > 0 \/ pc[l] = "next" => missed[l] > 0)
    BY DEF FirstMiss

(* A starved thread ends its first job: the other one, of higher priority,   *)
(* has left the CPU to it, so that one has done a job at least, and a second *)
(* one unless that comes after the deadline.                                 *)
LEMMA StarvedMisses ==
    ASSUME Core, Core', Elapsed, Elapsed', NEW l \in Tasks, NEW h \in Tasks \ {l},
           Starves(h, l), mode = (IF h = "A" THEN "fifo-a" ELSE "fifo-b"),
           NEW due, NEW d, Runs(l, due, d), d = due, job[l] = 0
    PROVE  missed'[l] > 0
<1>0. /\ pc \in [Tasks -> Label] /\ job' = job /\ now' = now + d /\ d \in Nat
      /\ missed \in [Tasks -> Nat]
    BY DEF Core, EdfTypeOK, Label, Runs
<1>1. /\ pc[l] = "work" \/ (pc[l] = "sleep" /\ now >= release(l))
      /\ pc'[l] = "next" /\ pc'[h] = pc[h]
    BY SpentRun
<1>2. /\ period[l] \in Nat /\ work[l] \in Nat /\ missed[l] \in Nat /\ now \in Nat
      /\ epoch \in Nat /\ period[h] \in Nat /\ work[h] \in Nat \ {0} /\ job[h] \in Nat
      /\ count[h] \in Nat \ {0} /\ release(h) \in Nat /\ release(l) \in Nat
      /\ job[h] * work[h] \in Nat
    BY TaskTypes, SpentInt
<1>3. release(l) = epoch /\ now >= epoch
    <2>1. release(l) = epoch
        BY <1>2 DEF release
    <2> QED
        BY <1>1, <2>1 DEF Elapsed
<1>4. pc[h] = "gone" \/ (pc[h] = "sleep" /\ release(h) > now /\ now' <= release(h))
    <2>1. sched_priority(l) = 50 /\ sched_priority(h) = 60 /\ PolicyOf = "fifo"
        BY DEF sched_priority, PolicyOf, Tasks
    <2>2. ~ Runnable(h)
        BY <2>1 DEF Runs, Picks
    <2> QED
        BY <1>0, <1>2, <2>2 DEF Runs, Settled, Runnable
<1>5. now' - epoch >= work[l] + job[h] * work[h]
    <2>1. Spent(l)' = work[l] /\ Spent(h)' = job[h] * work[h]
        BY <1>0, <1>1, <1>2, <1>4 DEF Spent
    <2>2. epoch' = epoch /\ now' - epoch >= Spent("A")' + Spent("B")'
        BY <1>1, <1>2 DEF Elapsed, epoch
    <2> QED
        BY <1>2, <2>1, <2>2 DEF Tasks
<1>6. job[h] >= 1
    <2>1. CASE pc[h] = "gone"
        BY <1>2, <2>1 DEF Core, Position
    <2>2. CASE pc[h] = "sleep"
        <3> SUFFICES ASSUME job[h] = 0 PROVE FALSE
            BY <1>2
        <3>1. release(h) = epoch
            BY <1>2 DEF release
        <3> QED
            BY <1>2, <1>3, <1>4, <2>2, <3>1
    <2> QED
        BY <1>4, <2>1, <2>2
<1>7. job[h] * work[h] >= work[h]
    <2>1. work[h] * 1 <= work[h] * job[h]
        BY <1>2, <1>6, Scale
    <2>2. work[h] * 1 = work[h] /\ work[h] * job[h] = job[h] * work[h]
        BY <1>2
    <2> QED
        BY <1>2, <2>1, <2>2
<1>8. now' - epoch > period[l]
    <2>1. CASE work[l] + work[h] > period[l]
        BY <1>0, <1>2, <1>5, <1>7, <2>1
    <2>2. CASE /\ count[h] > 1 /\ work[l] + work[h] > period[h]
               /\ work[l] + 2 * work[h] > period[l]
        <3>1. CASE job[h] = 1
            <4>1. pc[h] = "sleep" /\ release(h) = epoch + period[h]
                BY <1>2, <1>4, <2>2, <3>1 DEF Core, Position, release
            <4> QED
                BY <1>0, <1>2, <1>4, <1>5, <1>7, <2>2, <4>1
        <3>2. CASE job[h] >= 2
            <4>1. work[h] * 2 <= work[h] * job[h]
                BY <1>2, <3>2, Scale
            <4>2. work[h] * 2 = 2 * work[h] /\ work[h] * job[h] = job[h] * work[h]
                BY <1>2
            <4> QED
                BY <1>0, <1>2, <1>5, <2>2, <4>1, <4>2
        <3> QED
            BY <1>2, <1>6, <3>1, <3>2
    <2> QED
        BY <2>1, <2>2 DEF Starves
<1>9. missed' = [missed EXCEPT ![l] = @ + 1]
    BY <1>0, <1>2, <1>3, <1>8 DEF Runs
<1> QED
    BY <1>0, <1>2, <1>9

(* A priority that starves a task makes its first job miss.                 *)
LEMMA FirstMissStep ==
    ASSUME Core, Core', Elapsed, Elapsed', FirstMiss, [Next]_vars
    PROVE  FirstMiss'
<1>0. /\ pc \in [Tasks -> Label] /\ job \in [Tasks -> Nat] /\ missed \in [Tasks -> Nat]
    BY DEF Core, EdfTypeOK, Label
<1>1. CASE Quiet
    BY <1>1 DEF Quiet, FirstMiss, Starves, Enrolling
<1>2. CASE \E t \in Tasks : NextJob(t)
    BY <1>0, <1>2 DEF NextJob, Goto, sampled, FirstMiss, Starves
<1>3. CASE Idle \/ Delay
    BY <1>3 DEF Idle, Delay, sampled, FirstMiss, Starves
<1>4. CASE \E t \in Tasks : \E due, d : Runs(t, due, d)
    <2>a. PICK t \in Tasks : \E due, d : Runs(t, due, d)
        BY <1>4
    <2>1. PICK due, d : Runs(t, due, d)
        BY <2>a
    <2>2. /\ mode' = mode /\ job' = job /\ \A l \in Tasks : missed'[l] >= missed[l]
          /\ pc'[t] = (IF d = due THEN "next" ELSE "work")
          /\ \A l \in Tasks \ {t} : pc'[l] = pc[l]
        BY <1>0, <2>1, SpentRun DEF Runs
    <2> SUFFICES ASSUME NEW l \in Tasks, NEW h \in Tasks \ {l}, Starves(h, l),
                        mode = (IF h = "A" THEN "fifo-a" ELSE "fifo-b"),
                        job[l] > 0 \/ pc'[l] = "next"
                 PROVE  missed'[l] > 0
        BY <2>2 DEF FirstMiss, Starves
    <2>3. missed[l] \in Nat /\ missed'[l] \in Nat /\ job[l] \in Nat
        BY <1>0 DEF Core, EdfTypeOK
    <2>4. CASE job[l] > 0 \/ pc[l] = "next"
        <3>1. missed[l] > 0
            BY <2>4 DEF FirstMiss
        <3> QED
            BY <2>2, <2>3, <3>1
    <2>5. CASE job[l] = 0 /\ pc[l] # "next"
        <3>1. l = t /\ d = due
            BY <2>2, <2>5
        <3> QED
            BY <2>1, <2>5, <3>1, StarvedMisses
    <2> QED
        BY <2>3, <2>4, <2>5
<1> QED
    BY <1>1, <1>2, <1>3, <1>4, StepIs


(* The parts that concern no time are preserved by every step.              *)
LEMMA CoreStep == Core /\ [Next]_vars => Core'
<1> SUFFICES ASSUME Core, [Next]_vars PROVE Core'
    OBVIOUS
<1>1. CASE Running /\ \E t \in Tasks : Worker(t)
    BY <1>1, WorkerCore
<1>2. CASE Running /\ \E t \in Tasks : Fails(t)
    BY <1>2, FailCore DEF Fails
<1>3. CASE Running /\ Barrier
    BY <1>3, BarrierCore
<1>4. CASE CreateFails
    BY <1>4, FailCore DEF CreateFails
<1>5. CASE Running /\ Report
    BY <1>5, ReportCore
<1>6. CASE Running /\ \E t \in Tasks : Run(t)
    BY <1>6, RunCore
<1>7. CASE Running /\ Idle
    BY <1>7, IdleCore
<1>8. CASE Running /\ Delay
    <2>1. now' \in Nat /\ now' >= now
        BY <1>8 DEF Delay, Core, EdfTypeOK
    <2> QED
        BY <1>8, <2>1, PassCore DEF Delay
<1>9. CASE UNCHANGED vars
    <2>1. EdfTypeOK'
        BY <1>9 DEF Core, EdfTypeOK, vars
    <2>2. \A t \in Tasks : Position(t)'
        BY <1>9 DEF Core, Position, PolicyOf, vars
    <2>3. Together' /\ Enrolled' /\ CleanEnd'
        BY <1>9 DEF Core, Together, Enrolled, CleanEnd, Done, PolicyOf, release, epoch, vars
    <2> QED
        BY <2>1, <2>2, <2>3 DEF Core
<1> QED
    BY <1>1, <1>2, <1>3, <1>4, <1>5, <1>6, <1>7, <1>8, <1>9 DEF Next, Cpu

-----------------------------------------------------------------------------
(* The whole                                                               *)

(* The invariant of the probe, for every pair of tasks, every lead and every *)
(* mode, with any call failing: a thread that sched_ext schedules has the    *)
(* hint of its own job, jobs run only among enrolled threads, samples cover  *)
(* the work, exit code 0 leaves neither hints nor policies behind, deadline  *)
(* order is in time for tasks that fit, and a starved task misses at once.   *)
THEOREM EdfInvariance == Spec => []EdfInv
<1> DEFINE I == Core /\ Early /\ Elapsed /\ OnTime /\ FirstMiss
<1>1. Init => I
    <2> SUFFICES ASSUME Init PROVE I
        OBVIOUS
    <2>1. Core
        BY CoreInit
    <2>2. Early /\ Elapsed /\ FirstMiss
        BY EdfAssumption DEF Init, Early, Elapsed, FirstMiss, Enrolling, epoch
    <2>3. Fresh
        <3> SUFFICES ASSUME NEW t \in Tasks
                     PROVE  missed[t] = 0 /\ Owed(t) = reservation[t] /\ now <= release(t)
            BY DEF Fresh
        <3>1. release(t) \in Nat
            BY <2>1, TaskTypes
        <3> QED
            BY <3>1 DEF Init, Owed
    <2> QED
        BY <2>1, <2>2, <2>3, FreshOnTime
<1>2. I /\ [Next]_vars => I'
    <2> SUFFICES ASSUME I, [Next]_vars PROVE I'
        OBVIOUS
    <2>1. Core'
        BY CoreStep
    <2>2. Early' /\ Elapsed'
        BY <2>1, EarlyStep, ElapsedStep
    <2>3. OnTime' /\ FirstMiss'
        BY <2>1, <2>2, OnTimeStep, FirstMissStep
    <2> QED
        BY <2>1, <2>2, <2>3
<1>3. I => EdfInv
    BY CoreHinted DEF Core, EdfInv
<1> QED
    BY <1>1, <1>2, <1>3, PTL DEF Spec

(* The contrast of the schedulers, for every task set that fits and whose    *)
(* tasks starve each other, every lead and every mode: a normal end comes    *)
(* after all jobs, in deadline order in time, by fixed priority with a miss. *)
THEOREM ContrastHolds ==
    ASSUME Fits, Starves("A", "B"), Starves("B", "A")
    PROVE  Spec => []Contrast
<1>1. EdfInv => Contrast
    <2> SUFFICES ASSUME EdfInv, exit = 0
                 PROVE  /\ mode \in {"deadline", "scx"} => \A t \in Tasks : missed[t] = 0
                        /\ mode \in {"fifo-a", "fifo-b"} => \E t \in Tasks : missed[t] > 0
        BY DEF Contrast
    <2>1. mode \in {"deadline", "scx"} => \A t \in Tasks : missed[t] = 0
        BY DEF EdfInv, OnTime
    <2>2. \A t \in Tasks : job[t] > 0
        BY EdfAssumption DEF EdfInv, CleanEnd
    <2>3. mode = "fifo-a" => missed["B"] > 0
        BY <2>2 DEF EdfInv, FirstMiss, Tasks
    <2>4. mode = "fifo-b" => missed["A"] > 0
        BY <2>2 DEF EdfInv, FirstMiss, Tasks
    <2> QED
        BY <2>1, <2>3, <2>4 DEF Tasks
<1> QED
    BY <1>1, EdfInvariance, PTL

=============================================================================
