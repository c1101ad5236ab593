-------------------------- MODULE CpuWindowProofs --------------------------
(***************************************************************************)
(* The CPU bounds of the measurement window, for every cutoff, every work  *)
(* and every pattern of preemption.                                        *)
(***************************************************************************)
EXTENDS CpuWindow, TLAPS

(* A thread that has measured nothing satisfies the invariant.              *)
LEMMA CpuInvInit == Init => CpuInv
<1> SUFFICES ASSUME Init PROVE CpuInv
    OBVIOUS
<1> USE CpuAssumption DEF Init
<1>1. closed \in BOOLEAN /\ ~closed /\ pc = "idle"
    OBVIOUS
<1>2. CpuTypeOK
    BY <1>1 DEF CpuTypeOK
<1>3. Clocks
    BY DEF Clocks, Measuring
<1>4. Bracketed /\ JobBounds /\ Fresh
    BY DEF Bracketed, JobBounds, Fresh, Measuring
<1>5. WindowCpuBounded /\ DrainNeverWraps
    BY DEF WindowCpuBounded, DrainNeverWraps
<1> QED
    BY <1>2, <1>3, <1>4, <1>5 DEF CpuInv

(* Time may pass, with or without the thread running, between any two reads. *)
LEMMA AdvanceInv == CpuInv /\ Advance => CpuInv'
<1> SUFFICES ASSUME CpuInv, Advance PROVE CpuInv'
    OBVIOUS
<1> USE CpuAssumption DEF CpuInv, Advance, localVars, boundVars, statVars
<1>1. CpuTypeOK'
    BY DEF CpuTypeOK
<1>2. Clocks'
    BY DEF CpuTypeOK, Clocks, Measuring
<1>3. Bracketed'
    BY DEF CpuTypeOK, Clocks, Measuring, Bracketed
<1>4. JobBounds'
    <2>1. at_cutoff <= at_cutoff' /\ at_cutoff' \in Nat
        BY DEF CpuTypeOK, Clocks
    <2>2. closed /\ Measuring => at_cutoff' = at_cutoff
        BY DEF CpuTypeOK, Clocks, JobBounds
    <2> QED
        BY <2>1, <2>2 DEF CpuTypeOK, JobBounds, Measuring
<1>5. Fresh'
    BY DEF Fresh
<1>6. WindowCpuBounded' /\ DrainNeverWraps'
    BY DEF WindowCpuBounded, DrainNeverWraps
<1> QED
    BY <1>1, <1>2, <1>3, <1>4, <1>5, <1>6

(* sample() keeps the bounds of the job when the CPU value it is given was   *)
(* read after `before' and before now.                                       *)
LEMMA SampleBounds ==
    ASSUME CpuInv, ~closed,
           pc \in {"first", "after"}, Sample(elapsed, before, wall),
           UNCHANGED <<clockVars, start, before, elapsed, statVars>>,
           before >= Cutoff => at_cutoff <= start + elapsed,
           pc' \in {"loop", "test"}, work' = work
    PROVE  CpuInv'
<1> USE CpuAssumption DEF CpuInv, clockVars, statVars, Sample, BeforeCutoff,
                          BehindCutoff
<1>1. CpuTypeOK'
    BY DEF CpuTypeOK
<1>2. Clocks' /\ Bracketed' /\ Fresh'
    BY DEF CpuTypeOK, Clocks, Measuring, Bracketed, Fresh
<1>3. JobBounds'
    BY DEF CpuTypeOK, Clocks, Measuring, JobBounds
<1>4. WindowCpuBounded' /\ DrainNeverWraps'
    BY DEF WindowCpuBounded, DrainNeverWraps
<1> QED
    BY <1>1, <1>2, <1>3, <1>4

(* Every step of measured_work_us() keeps the invariant.                    *)
LEMMA MeasureInv == CpuInv /\ Measure => CpuInv'
<1> SUFFICES ASSUME CpuInv, Measure PROVE CpuInv'
    OBVIOUS
<1> USE CpuAssumption DEF clockVars, boundVars, statVars
<1>1. CASE Begin
    <2> USE DEF Begin, CpuInv
    <2>1. ~closed' /\ pc' = "start" /\ lower' = 0
        BY <1>1
    <2>2. CpuTypeOK'
        <3>1. closed' \in BOOLEAN /\ lower' \in Nat /\ upper' \in Nat
            BY <1>1
        <3>2. work' \in Nat /\ before' \in Nat
            BY <1>1 DEF CpuTypeOK
        <3> QED
            BY <1>1, <2>1, <3>1, <3>2 DEF CpuTypeOK
    <2>3. Clocks'
        BY <1>1, <2>1 DEF CpuTypeOK, Clocks, Measuring
    <2>4. Bracketed' /\ JobBounds' /\ Fresh'
        BY <2>1 DEF Bracketed, JobBounds, Fresh, Measuring
    <2>5. WindowCpuBounded' /\ DrainNeverWraps'
        BY <1>1 DEF WindowCpuBounded, DrainNeverWraps
    <2> QED
        BY <2>2, <2>3, <2>4, <2>5
<1>2. CASE ReadStart
    BY <1>2 DEF ReadStart, CpuInv, CpuTypeOK, Clocks, Measuring, Bracketed, JobBounds, Fresh,
                WindowCpuBounded, DrainNeverWraps
<1>3. CASE FirstSample
    BY <1>3, SampleBounds DEF FirstSample, CpuInv, Fresh, Bracketed, CpuTypeOK
<1>4. CASE ReadBefore
    BY <1>4 DEF ReadBefore, CpuInv, CpuTypeOK, Clocks, Measuring, Bracketed, JobBounds, Fresh,
                WindowCpuBounded, DrainNeverWraps
<1>5. CASE ReadCpu
    BY <1>5 DEF ReadCpu, CpuInv, CpuTypeOK, Clocks, Measuring, Bracketed, JobBounds, Fresh,
                WindowCpuBounded, DrainNeverWraps
<1>6. CASE SampleNow
    BY <1>6, SampleBounds DEF SampleNow, CpuInv, Bracketed
<1>7. CASE Again
    BY <1>7 DEF Again, CpuInv, CpuTypeOK, Clocks, Measuring, Bracketed, JobBounds, Fresh,
                WindowCpuBounded, DrainNeverWraps
<1>8. CASE Finish
    <2>1. /\ lower <= Share(elapsed) /\ Share(elapsed) <= UpperBound(elapsed)
          /\ UpperBound(elapsed) <= elapsed
          /\ Share(elapsed) \in Nat /\ UpperBound(elapsed) \in Nat
        BY <1>8 DEF Finish, CpuInv, CpuTypeOK, Clocks, Measuring, JobBounds, Share, UpperBound
    <2> HIDE DEF Share, UpperBound
    <2> QED
        BY <1>8, <2>1 DEF Finish, CpuInv, CpuTypeOK, Clocks, Measuring, Bracketed, JobBounds,
                          Fresh, WindowCpuBounded, DrainNeverWraps
<1> QED
    BY <1>1, <1>2, <1>3, <1>4, <1>5, <1>6, <1>7, <1>8 DEF Measure

(* The inductive invariant holds whatever the clocks and the scheduler do.   *)
THEOREM CpuInvariance == Spec => []CpuInv
<1>1. CpuInv /\ [Next]_vars => CpuInv'
    <2> SUFFICES ASSUME CpuInv, [Next]_vars PROVE CpuInv'
        OBVIOUS
    <2>1. CASE Advance
        BY <2>1, AdvanceInv
    <2>2. CASE Measure
        BY <2>2, MeasureInv
    <2>3. CASE Stopped \/ UNCHANGED vars
        BY <2>3 DEF Stopped, vars, clockVars, localVars, boundVars, statVars, CpuInv,
                    CpuTypeOK, Clocks, Measuring, Bracketed, JobBounds, Fresh,
                    WindowCpuBounded, DrainNeverWraps
    <2> QED
        BY <2>1, <2>2, <2>3 DEF Next
<1> QED
    BY <1>1, CpuInvInit, PTL DEF Spec

(* The reported bounds contain the CPU time that was really used in the      *)
(* window, for any number of jobs and any preemption between the reads.      *)
THEOREM WindowCpuBoundedHolds == Spec => []WindowCpuBounded
<1>1. CpuInv => WindowCpuBounded
    BY DEF CpuInv
<1> QED
    BY <1>1, CpuInvariance, PTL

(* The unsigned subtractions of the drain report never wrap around.          *)
THEOREM DrainNeverWrapsHolds == Spec => []DrainNeverWraps
<1>1. CpuInv => DrainNeverWraps
    BY DEF CpuInv
<1> QED
    BY <1>1, CpuInvariance, PTL
=============================================================================
