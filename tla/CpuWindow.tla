----------------------------- MODULE CpuWindow -----------------------------
(***************************************************************************)
(* How the standalone pipeline charges a job's CPU time to the measurement *)
(* window.  The wall clock and the thread's CPU clock cannot be read at    *)
(* one instant, so every CPU read is bracketed by two wall reads, and the  *)
(* share of the window is kept as a lower and an upper bound.  A thread    *)
(* measures one job after another; it may be preempted between any two     *)
(* reads, also for longer than the whole window.                           *)
(***************************************************************************)
EXTENDS Integers

CONSTANTS Cutoff,           \* the end of the window on the wall clock
          Works,            \* CPU times that a job may ask for
          MaxWall,          \* bound: the clocks stop here
          MaxJobs           \* bound: jobs of this thread

ASSUME CpuAssumption ==
    /\ Cutoff \in Nat \ {0} /\ Works \subseteq Nat
    /\ MaxWall \in Nat /\ MaxJobs \in Nat

VARIABLES
    wall, cpu,              \* the clocks
    at_cutoff,              \* what the CPU clock showed at the cutoff (until then: shows)
    pc, work, start, before, elapsed,               \* measured_work_us()
    lower, upper, closed,                           \* CpuWindowBounds
    cpu_ns, window_ns, uncertainty_ns,              \* the stage's statistics
    jobs,                   \* jobs measured so far
    inside                  \* what they really used before the cutoff

clockVars == <<wall, cpu, at_cutoff>>
localVars == <<pc, work, start, before, elapsed>>
boundVars == <<lower, upper, closed>>
statVars  == <<cpu_ns, window_ns, uncertainty_ns, jobs, inside>>
vars == <<clockVars, localVars, boundVars, statVars>>

CpuTypeOK ==
    /\ wall \in Nat /\ cpu \in Nat /\ at_cutoff \in Nat
    /\ pc \in {"idle", "start", "first", "loop", "read", "after", "test"}
    /\ work \in Nat /\ start \in Nat /\ before \in Nat /\ elapsed \in Nat
    /\ lower \in Nat /\ upper \in Nat /\ closed \in BOOLEAN
    /\ cpu_ns \in Nat /\ window_ns \in Nat /\ uncertainty_ns \in Nat
    /\ jobs \in Nat /\ inside \in Nat

Init ==
    /\ wall = 0 /\ cpu = 0 /\ at_cutoff = 0
    /\ pc = "idle" /\ work = 0 /\ start = 0 /\ before = 0 /\ elapsed = 0
    /\ lower = 0 /\ upper = 0 /\ closed = FALSE
    /\ cpu_ns = 0 /\ window_ns = 0 /\ uncertainty_ns = 0 /\ jobs = 0 /\ inside = 0

-----------------------------------------------------------------------------
\* Time passes; the thread ran, or it was preempted or blocked.
Advance ==
    /\ wall < MaxWall /\ wall' = wall + 1
    /\ cpu' \in {cpu, cpu + 1}
    /\ at_cutoff' = IF wall' <= Cutoff THEN cpu' ELSE at_cutoff
    /\ UNCHANGED <<localVars, boundVars, statVars>>

\* mutant: a bracket that is open at the cutoff counts as behind it
BehindCutoffByEnd(wall_before, wall_after) == wall_after >= Cutoff

\* sample(): a read that certainly was before the cutoff is a lower bound, one
\* that certainly was behind it is an upper bound and closes the bracket.
BeforeCutoff(wall_before, wall_after) == wall_after <= Cutoff
BehindCutoff(wall_before, wall_after) == wall_before >= Cutoff

Sample(read, wall_before, wall_after) ==
    /\ lower' = IF ~closed /\ BeforeCutoff(wall_before, wall_after) THEN read ELSE lower
    /\ upper' = IF ~closed /\ BehindCutoff(wall_before, wall_after) THEN read ELSE upper
    /\ closed' = (closed \/ BehindCutoff(wall_before, wall_after))

\* mutant: the bounds of the last job are used again
BeginKeepingBounds ==
    /\ pc = "idle" /\ jobs < MaxJobs
    /\ work' \in Works
    /\ before' = wall /\ pc' = "start"
    /\ UNCHANGED <<clockVars, start, elapsed, boundVars, statVars>>

Begin ==
    /\ pc = "idle" /\ jobs < MaxJobs
    /\ work' \in Works
    /\ lower' = 0 /\ upper' = 0 /\ closed' = FALSE
    /\ before' = wall /\ pc' = "start"
    /\ UNCHANGED <<clockVars, start, elapsed, statVars>>

ReadStart ==
    /\ pc = "start"
    /\ start' = cpu /\ elapsed' = 0 /\ pc' = "first"
    /\ UNCHANGED <<clockVars, work, before, boundVars, statVars>>

FirstSample ==
    /\ pc = "first"
    /\ Sample(0, before, wall) /\ pc' = "loop"
    /\ UNCHANGED <<clockVars, work, start, before, elapsed, statVars>>

\* The wall clock is no longer read once the bracket is closed.
ReadBefore ==
    /\ pc = "loop" /\ ~closed
    /\ before' = wall /\ pc' = "read"
    /\ UNCHANGED <<clockVars, work, start, elapsed, boundVars, statVars>>

ReadCpu ==
    /\ pc = "read" \/ (pc = "loop" /\ closed)
    /\ elapsed' = cpu - start
    /\ pc' = IF closed THEN "test" ELSE "after"
    /\ UNCHANGED <<clockVars, work, start, before, boundVars, statVars>>

SampleNow ==
    /\ pc = "after"
    /\ Sample(elapsed, before, wall) /\ pc' = "test"
    /\ UNCHANGED <<clockVars, work, start, before, elapsed, statVars>>

Again ==
    /\ pc = "test" /\ elapsed < work /\ pc' = "loop"
    /\ UNCHANGED <<clockVars, work, start, before, elapsed, boundVars, statVars>>

\* finish(): a bracket that was never closed ends with the job
UpperBound(total) == IF closed THEN upper ELSE total

\* What the job of this length used before the cutoff
Share(total) ==
    IF at_cutoff >= start + total THEN total
    ELSE IF at_cutoff <= start THEN 0 ELSE at_cutoff - start

Finish ==
    /\ pc = "test" /\ elapsed >= work
    /\ window_ns' = window_ns + lower
    /\ uncertainty_ns' = uncertainty_ns + (UpperBound(elapsed) - lower)
    /\ cpu_ns' = cpu_ns + elapsed
    /\ upper' = UpperBound(elapsed)
    /\ inside' = inside + Share(elapsed)
    /\ jobs' = jobs + 1 /\ pc' = "idle"
    /\ UNCHANGED <<clockVars, work, start, before, elapsed, lower, closed>>

\* Idle for good, or spinning while the clocks of this instance have stopped
Stopped == wall = MaxWall /\ UNCHANGED vars

Measure == \/ Begin \/ ReadStart \/ FirstSample \/ ReadBefore \/ ReadCpu
           \/ SampleNow \/ Again \/ Finish

Next == Advance \/ Measure \/ Stopped

Spec == Init /\ [][Next]_vars

-----------------------------------------------------------------------------
(* Whatever the preemption, the CPU time that the finished jobs really used  *)
(* in the window lies between the reported lower bound and that bound plus   *)
(* the reported uncertainty.                                                 *)
WindowCpuBounded ==
    /\ window_ns <= inside
    /\ inside <= window_ns + uncertainty_ns

(* The drain report subtracts the window from the total in unsigned          *)
(* arithmetic: the bounds never exceed what was measured in total.           *)
DrainNeverWraps == window_ns + uncertainty_ns <= cpu_ns

-----------------------------------------------------------------------------
(* The inductive invariant.                                                *)

\* A thread inside measured_work_us() behind its first CPU read
Measuring == pc \in {"first", "loop", "read", "after", "test"}

Clocks ==
    /\ wall <= Cutoff => at_cutoff = cpu
    /\ at_cutoff <= cpu /\ before <= wall
    /\ Measuring => start + elapsed <= cpu

\* An open CPU read: it happened after the wall read in `before'
Bracketed ==
    /\ pc = "first" /\ before >= Cutoff => at_cutoff <= start
    /\ pc = "after" /\ before >= Cutoff => at_cutoff <= start + elapsed
    /\ pc \in {"read", "after"} => ~closed

\* The bounds of the job that is being measured
JobBounds ==
    Measuring =>
        /\ lower <= elapsed
        /\ lower = 0 \/ start + lower <= at_cutoff
        /\ closed => /\ Cutoff <= wall /\ lower <= upper
                     /\ upper <= elapsed /\ at_cutoff <= start + upper

\* Between begin and the first sample nothing is bounded yet.
Fresh ==
    /\ pc \in {"start", "first"} => lower = 0 /\ ~closed
    /\ pc = "first" => elapsed = 0

CpuInv == CpuTypeOK /\ Clocks /\ Bracketed /\ JobBounds /\ Fresh
          /\ WindowCpuBounded /\ DrainNeverWraps
=============================================================================
