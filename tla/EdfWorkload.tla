----------------------------- MODULE EdfWorkload -----------------------------
(***************************************************************************)
(* The EDF probe: two threads on one CPU run periodic jobs with implicit   *)
(* deadlines under one of five schedulers, to show that deadline order     *)
(* meets every deadline where each fixed priority order misses one.  In    *)
(* scx mode a thread publishes the hint of its first job before it         *)
(* enrolls, of every other job before it sleeps for it, and clears the     *)
(* slot after it has left the policy.                                      *)
(*                                                                         *)
(* Time advances by CPU work, by idling, and in the enrollment by any      *)
(* delay; the other statements cost nothing.  The scheduler decides at     *)
(* releases and completions.                                               *)
(***************************************************************************)
EXTENDS Integers, FiniteSetsExt

CONSTANTS period, work, reservation, count,   \* of the two tasks
          Lead,                  \* from the start of main() to the epoch
          Modes,
          MayFail,               \* whether the calls of the program may fail
          None, Clear            \* slots: no entry yet, the background hint

Tasks == {"A", "B"}

ASSUME EdfAssumption ==
    /\ \A f \in {period, work, reservation, count} : f \in [Tasks -> Nat \ {0}]
    /\ \A t \in Tasks : work[t] <= reservation[t]
    /\ Lead \in Nat \ {0} /\ MayFail \in BOOLEAN
    /\ Modes \subseteq {"ordinary", "fifo-a", "fifo-b", "deadline", "scx"}
    /\ None \notin Nat /\ Clear \notin Nat /\ None # Clear

VARIABLES mode,
          now,               \* CLOCK_MONOTONIC
          pc, job,           \* the two worker() threads
          policy,            \* their scheduling policy
          hint,              \* their slots in the hint map: a job, None or Clear
          start, left,       \* the sample of the job under way, and its work left
          missed,            \* per task, the printed rows with end > deadline
          exit               \* of the process

vars == <<mode, now, pc, job, policy, hint, start, left, missed, exit>>

epoch == Lead
release(t) == epoch + job[t] * period[t]

Init ==
    /\ mode \in Modes /\ now = 0 /\ exit = None
    /\ pc = [t \in Tasks |-> "new"] /\ job = [t \in Tasks |-> 0]
    /\ policy = [t \in Tasks |-> "other"] /\ hint = [t \in Tasks |-> None]
    /\ start = [t \in Tasks |-> 0] /\ left = [t \in Tasks |-> 0]
    /\ missed = [t \in Tasks |-> 0]

Running == exit = None
Goto(t, l) == pc' = [pc EXCEPT ![t] = l]
sampled == <<start, left, missed>>

\* exit(2), from whichever thread
fail == exit' = 2 /\ UNCHANGED <<mode, now, pc, job, policy, hint, sampled>>

\* publish(): slot t names job j, counted from one
publish(t, j) == hint' = IF mode = "scx" THEN [hint EXCEPT ![t] = j + 1] ELSE hint

-----------------------------------------------------------------------------
(* main()                                                                  *)

Create(t) ==
    /\ pc[t] = "new" /\ (t = "B" => pc["A"] # "new")
    /\ Goto(t, "affinity")
    /\ UNCHANGED <<mode, now, job, policy, hint, sampled, exit>>

CreateFails == MayFail /\ (\E t \in Tasks : pc[t] = "new") /\ fail

\* Both threads are joined and the rows printed.
Report ==
    /\ \A t \in Tasks : pc[t] = "gone"
    /\ exit' = 0
    /\ UNCHANGED <<mode, now, pc, job, policy, hint, sampled>>

-----------------------------------------------------------------------------
(* worker()                                                                *)

AffinityOnly(t) ==                 \* mutant: the first hint waits for the loop
    /\ pc[t] = "affinity"
    /\ Goto(t, "enroll")
    /\ UNCHANGED <<mode, now, job, policy, hint, sampled, exit>>

Affinity(t) ==
    /\ pc[t] = "affinity"
    /\ publish(t, 0) /\ Goto(t, "enroll")
    /\ UNCHANGED <<mode, now, job, policy, sampled, exit>>

PolicyOf == CASE mode \in {"fifo-a", "fifo-b"} -> "fifo"
              [] mode = "ordinary" -> "other"
              [] OTHER -> mode

\* sched_setattr() or sched_setscheduler(), and what they did is verified.
Enroll(t) ==
    /\ pc[t] = "enroll"
    /\ policy' = [policy EXCEPT ![t] = PolicyOf] /\ Goto(t, "barrier")
    /\ UNCHANGED <<mode, now, job, hint, sampled, exit>>

BarrierOfThree == 3                \* mutant
BarrierCount == 2
\* pthread_barrier_wait()
Barrier ==
    /\ Cardinality({t \in Tasks : pc[t] = "barrier"}) = BarrierCount
    /\ pc' = [t \in Tasks |-> "check"]
    /\ UNCHANGED <<mode, now, job, policy, hint, sampled, exit>>

LateEnrollment(t) == pc[t] = "check" /\ now >= epoch /\ fail
InTime(t) ==
    /\ pc[t] = "check" /\ now < epoch
    /\ Goto(t, "sleep")
    /\ UNCHANGED <<mode, now, job, policy, hint, sampled, exit>>

\* The head of the loop: the hint of the next job precedes the sleep.
NextJob(t) ==
    /\ pc[t] = "next"
    /\ job' = [job EXCEPT ![t] = @ + 1]
    /\ IF job[t] + 1 < count[t] THEN publish(t, job[t] + 1) /\ Goto(t, "sleep")
       ELSE UNCHANGED hint /\ Goto(t, "restore")
    /\ UNCHANGED <<mode, now, policy, sampled, exit>>

Restore(t) ==
    /\ pc[t] = "restore"
    /\ policy' = [policy EXCEPT ![t] = "other"]
    /\ Goto(t, IF mode = "scx" THEN "clear" ELSE "gone")
    /\ UNCHANGED <<mode, now, job, hint, sampled, exit>>

ClearHint(t) ==
    /\ pc[t] = "clear"
    /\ hint' = [hint EXCEPT ![t] = Clear] /\ Goto(t, "gone")
    /\ UNCHANGED <<mode, now, job, policy, sampled, exit>>

\* Any call of the thread, clock reads included, and the verification of the
\* policy may fail.
Fails(t) == MayFail /\ pc[t] \notin {"new", "gone"} /\ fail

-----------------------------------------------------------------------------
(* The CPU and its scheduler                                               *)

Runnable(t) == pc[t] = "work" \/ (pc[t] = "sleep" /\ now >= release(t))

RateMonotonic(t) == period[t]      \* mutant: the relative deadline is published
\* Deadline order as SCHED_DEADLINE and the sched_ext policy know it
DeadlineOf(t) ==
    IF mode = "scx" THEN epoch + (hint[t] - 1) * period[t] + period[t]
    ELSE release(t) + period[t]

sched_priority(t) ==
    IF (mode = "fifo-a" /\ t = "A") \/ (mode = "fifo-b" /\ t = "B") THEN 60 ELSE 50

Picks(t) ==
    /\ Runnable(t)
    /\ \A u \in Tasks \ {t} : Runnable(u) =>
           CASE PolicyOf = "fifo" -> sched_priority(t) >= sched_priority(u)
             [] PolicyOf \in {"deadline", "scx"} -> DeadlineOf(t) <= DeadlineOf(u)
             [] OTHER -> TRUE

\* No thread is between two statements that take no time.
Settled == \A t \in Tasks : pc[t] \in {"sleep", "work", "gone"}
Wakes == {release(t) : t \in {u \in Tasks : pc[u] = "sleep" /\ release(u) > now}}

\* Thread t runs until its job is done or a sleeper wakes.  The sample starts
\* when the thread first gets the CPU after its sleep; the loop on the CPU clock
\* takes the work, and what it takes beyond it stays in the reservation.
Run(t) ==
    \E due \in IF pc[t] = "sleep" THEN {work[t], reservation[t]} ELSE {left[t]} :
    LET d == Min({due} \cup {w - now : w \in Wakes})
    IN  /\ Settled /\ Picks(t)
        /\ now' = now + d /\ left' = [left EXCEPT ![t] = due - d]
        /\ start' = IF pc[t] = "sleep" THEN [start EXCEPT ![t] = now] ELSE start
        /\ Goto(t, IF d = due THEN "next" ELSE "work")
        /\ missed' = IF d = due /\ now + d > release(t) + period[t]
                     THEN [missed EXCEPT ![t] = @ + 1] ELSE missed
        /\ UNCHANGED <<mode, job, policy, hint, exit>>

Idle ==
    /\ Settled /\ (\A t \in Tasks : ~ Runnable(t)) /\ Wakes # {}
    /\ now' = Min(Wakes)
    /\ UNCHANGED <<mode, pc, job, policy, hint, sampled, exit>>

\* Time passes in the enrollment; one tick at the epoch is late enough.
Delay ==
    /\ \E t \in Tasks : pc[t] \in {"new", "affinity", "enroll", "barrier", "check"}
    /\ now < epoch /\ now' = now + 1
    /\ UNCHANGED <<mode, pc, job, policy, hint, sampled, exit>>

-----------------------------------------------------------------------------
Worker(t) == \/ Create(t) \/ Affinity(t) \/ Enroll(t) \/ LateEnrollment(t) \/ InTime(t)
             \/ NextJob(t) \/ Restore(t) \/ ClearHint(t)
Cpu == (\E t \in Tasks : Run(t)) \/ Idle

Next ==
    \/ Running /\ \/ \E t \in Tasks : Worker(t) \/ Fails(t)
                  \/ Barrier \/ CreateFails \/ Report \/ Cpu \/ Delay
    \/ ~ Running /\ UNCHANGED vars

Spec == Init /\ [][Next]_vars

\* Both threads, main() and the CPU go on; no call has to fail.
FairSpec ==
    /\ Spec
    /\ \A t \in Tasks : WF_vars(Running /\ Worker(t))
    /\ WF_vars(Running /\ (Barrier \/ Report)) /\ WF_vars(Running /\ Cpu)

-----------------------------------------------------------------------------
(* Properties                                                              *)

EdfTypeOK ==
    /\ mode \in Modes /\ now \in Nat /\ exit \in {None, 0, 2}
    /\ pc \in [Tasks -> {"new", "affinity", "enroll", "barrier", "check", "sleep",
                         "work", "next", "restore", "clear", "gone"}]
    /\ job \in [Tasks -> Nat]
    /\ policy \in [Tasks -> {"other", "fifo", "deadline", "scx"}]
    /\ hint \in [Tasks -> Nat \cup {None, Clear}]
    /\ start \in [Tasks -> Nat] /\ left \in [Tasks -> Nat] /\ missed \in [Tasks -> Nat]

InLoop == {"sleep", "work", "next"}
Done(t) == pc[t] \in {"clear", "gone"}

\* A thread that the sched_ext policy schedules always has a hint, and from the
\* sleep for a job to its end it is the hint of that job.
Hinted ==
    \A t \in Tasks :
        /\ policy[t] = "scx" => hint[t] \in 1 .. count[t]
        /\ mode = "scx" /\ pc[t] \in InLoop => hint[t] = job[t] + 1

\* A job runs only when both threads are enrolled, or one has finished; it
\* never starts before its release, and its end is at least its work later.
Enrolled ==
    \A t \in Tasks : pc[t] \in {"work", "next"} =>
        /\ \A u \in Tasks : Done(u) \/ policy[u] = PolicyOf
        /\ start[t] >= release(t)
        /\ now - start[t] + left[t] >= work[t]

\* Exit code 0 comes after all jobs, and leaves no hint and no policy behind.
CleanEnd ==
    exit = 0 => \A t \in Tasks :
        job[t] = count[t] /\ policy[t] = "other" /\ (mode = "scx" => hint[t] = Clear)

\* What the inductive argument needs: the policy, the job and the slot of a
\* thread follow from where it is, and no thread leaves the barrier alone.
Attached == {"barrier", "check", "sleep", "work", "next", "restore"}
Started == InLoop \cup {"check", "restore", "clear", "gone"}
Position(t) ==
    /\ policy[t] = IF pc[t] \in Attached THEN PolicyOf ELSE "other"
    /\ pc[t] \in {"new", "affinity", "enroll", "barrier", "check"} => job[t] = 0
    /\ pc[t] \in InLoop => job[t] < count[t]
    /\ pc[t] \in {"restore", "clear", "gone"} => job[t] = count[t]
    /\ mode = "scx" =>
           /\ pc[t] \in InLoop \cup {"enroll", "barrier", "check"} => hint[t] = job[t] + 1
           /\ pc[t] = "restore" => hint[t] = job[t]
           /\ pc[t] = "gone" => hint[t] = Clear
Together == \A t, u \in Tasks : pc[t] \in Started => pc[u] \in Started

\* Before the first job both threads wait for the epoch.
Enrolling == {"new", "affinity", "enroll", "barrier", "check"}
Early ==
    (\E t \in Tasks : pc[t] \in Enrolling) =>
        now <= epoch /\ \A t \in Tasks : pc[t] \in Enrolling \cup {"sleep"} /\ job[t] = 0

\* The CPU gives no more work than time has passed since the epoch.
Spent(t) ==
    job[t] * work[t] + (CASE pc[t] = "work" -> work[t] - left[t]
                          [] pc[t] = "next" -> work[t]
                          [] OTHER -> 0)
Elapsed ==
    (\E t \in Tasks : job[t] > 0 \/ pc[t] \in {"work", "next"}) =>
        now >= epoch /\ now - epoch >= Spent("A") + Spent("B")

\* A task set that fits: the reservations use the CPU fully at most.
Fits == reservation["A"] * period["B"] + reservation["B"] * period["A"]
            <= period["A"] * period["B"]

\* Up to each of the two current deadlines there is time for what is left of both
\* jobs and, up to the later one, for a fair share of the jobs to come.
deadline(t) == release(t) + period[t]
Owed(t) == CASE pc[t] = "work" -> left[t] [] pc[t] = "next" -> 0 [] OTHER -> reservation[t]
Active(t) == pc[t] \notin {"restore", "clear", "gone"}
OnTime ==
    Fits /\ mode \in {"deadline", "scx"} =>
        /\ \A t \in Tasks : missed[t] = 0 /\ (Active(t) => Owed(t) <= deadline(t) - now)
        /\ \A t \in Tasks : \A u \in Tasks \ {t} :
               Active(t) /\ Active(u) /\ deadline(t) <= deadline(u) =>
                   period[t] * (Owed(t) + Owed(u)) + (deadline(u) - deadline(t)) * reservation[t]
                       <= period[t] * (deadline(u) - now)

\* Task h starves task l: they do not fit into the period of l, or the first two
\* jobs of h delay the first job of l beyond its deadline.
Starves(h, l) ==
    \/ work[l] + work[h] > period[l]
    \/ /\ count[h] > 1 /\ work[l] + work[h] > period[h]
       /\ work[l] + 2 * work[h] > period[l]
FirstMiss ==
    \A h \in Tasks : \A l \in Tasks \ {h} :
        Starves(h, l) /\ mode = (IF h = "A" THEN "fifo-a" ELSE "fifo-b") =>
            (job[l] > 0 \/ pc[l] = "next" => missed[l] > 0)

(* Types; no thread is scheduled by sched_ext with a missing or a stale      *)
(* hint; no job runs against a thread that is not enrolled; a normal end     *)
(* leaves neither hints nor policies; if the tasks fit, deadline order is    *)
(* always in time; if one starves the other, the first job misses.           *)
EdfInv ==
    /\ EdfTypeOK /\ (\A t \in Tasks : Position(t)) /\ Together
    /\ Hinted /\ Enrolled /\ CleanEnd /\ Early /\ Elapsed /\ OnTime /\ FirstMiss

(* The contrast that tests/test_edf_workload.py asserts of an ideal CPU, for *)
(* the program with its hints: both deadline schedulers meet every deadline, *)
(* and each order of fixed priorities misses one.                            *)
Contrast ==
    exit = 0 =>
        /\ mode \in {"deadline", "scx"} => \A t \in Tasks : missed[t] = 0
        /\ mode \in {"fifo-a", "fifo-b"} => \E t \in Tasks : missed[t] > 0

(* The process ends, normally or with exit code 2: the barrier, the late     *)
(* check and a failing call leave nobody waiting.                            *)
EdfEnds == <>(~ Running)

=============================================================================
