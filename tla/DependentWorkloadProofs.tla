---------------------- MODULE DependentWorkloadProofs ----------------------
(***************************************************************************)
(* The dependent workload, for every set of workers, capacity, period,     *)
(* window and set of failing calls.                                        *)
(***************************************************************************)
EXTENDS DependentWorkload, DependentGraphProofs

(* The workers are numbered 1 .. Len(Order), without repetition.            *)
LEMMA OrderLen ==
    /\ Len(Order) \in Nat /\ Len(Order) >= 1
    /\ \A i : i \in DOMAIN Order <=> i \in Nat /\ 1 <= i /\ i <= Len(Order)
<1>1. Len(Order) \in Nat /\ DOMAIN Order = 1 .. Len(Order)
    BY WorkloadAssumption
<1>2. \E i \in DOMAIN Order : Order[i] = "imu"
    BY WorkloadAssumption DEF StageWorkers, Workers
<1> QED
    BY <1>1, <1>2

LEMMA OrderWorkers ==
    /\ \A i \in DOMAIN Order : Order[i] \in Workers
    /\ \A w \in Workers : \E i \in DOMAIN Order : w = Order[i]
BY DEF Workers

LEMMA OrderFacts ==
    /\ Len(Order) \in Nat /\ Len(Order) >= 1
    /\ \A i : i \in DOMAIN Order <=> i \in Nat /\ 1 <= i /\ i <= Len(Order)
    /\ \A i \in DOMAIN Order : Order[i] \in Workers
    /\ \A w \in Workers : \E i \in DOMAIN Order : w = Order[i]
    /\ Stream \subseteq Workers
    /\ "imu" \in Workers /\ "camera" \in Workers /\ "estimator" \in Workers
    /\ "control" \in Workers /\ "mapping" \in Workers
<1>1. /\ \A w \in Workers : \E i \in DOMAIN Order : w = Order[i]
      /\ \A i \in DOMAIN Order : Order[i] \in Workers
    BY DEF Workers
<1>2. StageWorkers \subseteq Workers
    BY WorkloadAssumption
<1> QED
    BY <1>1, <1>2, OrderLen DEF StageWorkers, Stream

(* A step that leaves the graph alone preserves its invariant.              *)
LEMMA GraphFrame ==
    ASSUME GraphInv, UNCHANGED graphVars
    PROVE  GraphInv'
BY GraphInvNext DEF graphVars

(* The jobs with a worker and in its queue.                                 *)
LEMMA JobTypes ==
    ASSUME WorkloadTypeOK, NEW w \in Workers
    PROVE  /\ \A j \in Given(w) : j \in Job /\ j.id \in Nat /\ j.release \in Nat
           /\ queue[w] \in Seq(Job) /\ Len(queue[w]) \in Nat
           /\ \A k \in DOMAIN queue[w] :
                  queue[w][k] \in Job /\ queue[w][k].id \in Nat /\ queue[w][k].release \in Nat
<1>1. Given(w) \subseteq Job
    BY DEF WorkloadTypeOK, SharedTypeOK, ThreadTypeOK, Given
<1>2. queue[w] \in Seq(Job)
    BY DEF WorkloadTypeOK, QueueTypeOK
<1>3. \A j \in Job : j.id \in Nat /\ j.release \in Nat
    BY WorkloadAssumption DEF Job
<1> QED
    BY <1>1, <1>2, <1>3

(***************************************************************************)
(* Steps of a worker's thread.                                             *)
(***************************************************************************)
LEMMA EnrollInv ==
    ASSUME WorkloadInv, NEW w \in Workers, Enroll(w)
    PROVE  WorkloadInv'
<1> USE DEF WorkloadInv
<1>1. /\ tpc[w] = "enroll" /\ ~busy[w] /\ Given(w) = {} /\ pc \notin Rounds
    <2>1. tpc[w] = "enroll"
        BY DEF Enroll
    <2>2. ~busy[w] /\ Given(w) = {}
        BY <2>1 DEF OneJob, Given
    <2> QED
        BY <2>1, <2>2 DEF MainPlace, Up
<1>2. UNCHANGED <<graphVars, mainVars, queueVars, slot, result, stopping, job, now>>
    BY DEF Enroll
<1>3. PICK x \in {"wait", "exited"}, h \in {hint[w], Clear} :
         /\ tpc' = [tpc EXCEPT ![w] = x] /\ hint' = [hint EXCEPT ![w] = h]
         /\ x = "wait" => h = Clear /\ error' = error
         /\ x = "exited" => error' = [error EXCEPT ![w] = TRUE]
    BY DEF Enroll
<1>4. WorkloadTypeOK'
    <2>1. MainTypeOK' /\ QueueTypeOK'
        BY <1>2 DEF WorkloadTypeOK, MainTypeOK, QueueTypeOK, mainVars, queueVars
    <2>2. SharedTypeOK'
        BY <1>2, <1>3 DEF WorkloadTypeOK, SharedTypeOK
    <2>3. ThreadTypeOK'
        BY <1>2, <1>3 DEF WorkloadTypeOK, ThreadTypeOK
    <2> QED
        BY <2>1, <2>2, <2>3 DEF WorkloadTypeOK
<1>5. GraphInv'
    BY <1>2, GraphFrame
<1>6. OneJob'
    BY <1>1, <1>2, <1>3 DEF OneJob, WorkloadTypeOK, ThreadTypeOK, queueVars
<1>7. HintOfJob'
    <2> SUFFICES ASSUME NEW v \in Workers, tpc'[v] # "exited", NEW j \in Given(v)'
                 PROVE  hint'[v] = j
        BY DEF HintOfJob
    <2>1. Given(v)' = Given(v) /\ v # w
        BY <1>1, <1>2 DEF Given
    <2> QED
        BY <1>3, <2>1 DEF HintOfJob, WorkloadTypeOK, ThreadTypeOK
<1>8. MainPlace'
    <2>1. CASE pc \in {"construct", "constructing"}
        <3>1. pc = "constructing" /\ w = Here
            BY SMTT(30), <1>1, <2>1, OrderFacts DEF MainPlace, Up, Here
        <3>2. \A i \in DOMAIN Order : i # at => Order[i] # w
            BY <3>1, WorkloadAssumption, <2>1 DEF Here, MainPlace
        <3> QED
            <4>1. \A i \in DOMAIN Order : i # at =>
                     tpc'[Order[i]] = tpc[Order[i]] /\ error'[Order[i]] = error[Order[i]]
                BY <1>3, <3>2, OrderFacts
                DEF WorkloadTypeOK, ThreadTypeOK, SharedTypeOK
            <4>2. tpc'[w] = "wait" \/ (tpc'[w] = "exited" /\ error'[w])
                BY <1>3 DEF WorkloadTypeOK, ThreadTypeOK, SharedTypeOK
            <4>3. \A i \in DOMAIN Order :
                     /\ ~stopping'[Order[i]] /\ ~busy'[Order[i]]
                     /\ i < at => Up(Order[i])'
                     /\ i > at => tpc'[Order[i]] = "none"
                <5>1. at \in DOMAIN Order
                    BY <2>1 DEF MainPlace
                <5>2. UNCHANGED <<stopping, busy>>
                    BY <1>2 DEF queueVars
                <5> QED
                    BY SMTT(30), <2>1, <3>1, <4>1, <5>1, <5>2, OrderFacts DEF MainPlace, Up
            <4> QED
                BY <1>2, <2>1, <3>1, <4>2, <4>3 DEF MainPlace, Here, Rounds, mainVars
    <2>2. CASE pc \notin {"construct", "constructing"}
        BY <1>1, <1>2, <2>2 DEF MainPlace, Rounds, mainVars
    <2> QED
        BY <2>1, <2>2
<1>9. Accounted' /\ JobsInOrder' /\ BatchHasJob' /\ Released'
    BY <1>2 DEF Accounted, JobsInOrder, BatchHasJob, Released, Given, EstimatorFree,
                Outstanding, Due, queueVars, graphVars, mainVars
<1>10. WayOut'
    BY SMTT(30), <1>1, <1>2, <1>3, OrderFacts
    DEF WayOut, WorkloadTypeOK, SharedTypeOK, ThreadTypeOK, Drained, Outstanding,
        queueVars, graphVars, mainVars
<1> QED
    BY <1>4, <1>5, <1>6, <1>7, <1>8, <1>9, <1>10

(* Taking a job out of the slot and putting down its result move the one    *)
(* job of the worker from place to place.                                   *)
LEMMA JobMoves ==
    ASSUME WorkloadInv, NEW w \in Workers, BeginJob(w) \/ EndJob(w)
    PROVE  /\ UNCHANGED <<graphVars, mainVars, queueVars, stopping, error, hint, now>>
           /\ WorkloadTypeOK' /\ OneJob'
           /\ \A v \in Workers : Given(v)' = Given(v)
           /\ \A v \in Workers :
                 \/ tpc'[v] = tpc[v]
                 \/ busy[v] /\ tpc[v] \in {"wait", "work"} /\ tpc'[v] \in {"wait", "work"}
<1> USE DEF WorkloadInv
<1>1. CASE BeginJob(w)
    <2>1. /\ UNCHANGED <<graphVars, mainVars, queueVars, result, stopping, error, hint, now>>
          /\ tpc' = [tpc EXCEPT ![w] = "work"] /\ tpc[w] = "wait"
          /\ job' = [job EXCEPT ![w] = slot[w]] /\ slot' = [slot EXCEPT ![w] = None]
          /\ slot[w] # None
        BY <1>1 DEF BeginJob
    <2>2. WorkloadTypeOK'
        BY <2>1 DEF WorkloadTypeOK, MainTypeOK, QueueTypeOK, SharedTypeOK, ThreadTypeOK,
                    mainVars, queueVars
    <2>3. OneJob'
        BY <2>1 DEF OneJob, WorkloadTypeOK, ThreadTypeOK, SharedTypeOK, queueVars
    <2>4. \A v \in Workers : Given(v)' = Given(v)
        BY <2>1 DEF OneJob, WorkloadTypeOK, ThreadTypeOK, SharedTypeOK, Given
    <2> QED
        BY <2>1, <2>2, <2>3, <2>4 DEF OneJob, WorkloadTypeOK, ThreadTypeOK
<1>2. CASE EndJob(w)
    <2>1. /\ UNCHANGED <<graphVars, mainVars, queueVars, slot, stopping, error, hint, now>>
          /\ tpc' = [tpc EXCEPT ![w] = "wait"] /\ tpc[w] = "work"
          /\ result' = [result EXCEPT ![w] = job[w]] /\ job' = [job EXCEPT ![w] = None]
          /\ job[w] # None
        BY <1>2 DEF EndJob, OneJob
    <2>2. WorkloadTypeOK'
        BY <2>1 DEF WorkloadTypeOK, MainTypeOK, QueueTypeOK, SharedTypeOK, ThreadTypeOK,
                    mainVars, queueVars
    <2>3. OneJob'
        BY <2>1 DEF OneJob, WorkloadTypeOK, ThreadTypeOK, SharedTypeOK, queueVars
    <2>4. \A v \in Workers : Given(v)' = Given(v)
        BY <2>1 DEF OneJob, WorkloadTypeOK, ThreadTypeOK, SharedTypeOK, Given
    <2> QED
        BY <2>1, <2>2, <2>3, <2>4 DEF OneJob, WorkloadTypeOK, ThreadTypeOK
<1> QED
    BY <1>1, <1>2

LEMMA JobStepInv ==
    ASSUME WorkloadInv, NEW w \in Workers, BeginJob(w) \/ EndJob(w)
    PROVE  WorkloadInv'
<1> USE DEF WorkloadInv
<1>1. /\ UNCHANGED <<graphVars, mainVars, queueVars, stopping, error, hint, now>>
      /\ WorkloadTypeOK' /\ OneJob'
      /\ \A v \in Workers : Given(v)' = Given(v)
      /\ \A v \in Workers :
                 \/ tpc'[v] = tpc[v]
                 \/ busy[v] /\ tpc[v] \in {"wait", "work"} /\ tpc'[v] \in {"wait", "work"}
    BY JobMoves
<1>2. GraphInv'
    BY <1>1, GraphFrame
<1>3. HintOfJob'
    BY <1>1 DEF HintOfJob
<1>4. MainPlace'
    <2>1. UNCHANGED <<pc, at, stopping, busy, queue, error, hint>>
        BY <1>1 DEF mainVars, queueVars
    <2>2. \A v \in Workers : /\ Up(v) => Up(v)'
                             /\ tpc[v] = "none" => tpc'[v] = "none"
                             /\ ~busy[v] => tpc'[v] = tpc[v]
        BY <1>1, <2>1 DEF Up
    <2>3. at \in DOMAIN Order => Here \in Workers /\ Here' = Here
        BY <2>1, OrderFacts DEF Here
    <2>4. Dispatchable(Here)' <=> Dispatchable(Here)
        BY <2>1 DEF Dispatchable, Here
    <2>5. pc \in {"construct", "constructing"} => tpc'[Here] = tpc[Here]
        <3> HAVE pc \in {"construct", "constructing"}
        <3>1. at \in DOMAIN Order /\ ~busy[Here]
            BY DEF MainPlace, Here
        <3> QED
            BY <2>2, <2>3, <3>1
    <2>6. pc \in {"construct", "constructing"} =>
              \A i \in DOMAIN Order :
                  /\ ~stopping'[Order[i]] /\ ~busy'[Order[i]]
                  /\ i < at => Up(Order[i])'
                  /\ i > at => tpc'[Order[i]] = "none"
        <3> HAVE pc \in {"construct", "constructing"}
        <3> TAKE i \in DOMAIN Order
        <3>1. Order[i] \in Workers
            BY OrderWorkers
        <3>2. /\ ~stopping[Order[i]] /\ ~busy[Order[i]]
              /\ i < at => Up(Order[i])
              /\ i > at => tpc[Order[i]] = "none"
            BY DEF MainPlace
        <3> QED
            BY <2>1, <2>2, <3>1, <3>2
    <2>7. /\ pc \notin {"finish", "exited", "failed"} => at' \in DOMAIN Order
          /\ pc = "construct" => tpc'[Here'] = "none"
          /\ pc = "constructing" => \/ tpc'[Here'] \in {"enroll", "wait"}
                                    \/ tpc'[Here'] = "exited" /\ error'[Here']
        BY <2>1, <2>3, <2>5 DEF MainPlace
    <2>8. pc \in Rounds => \A v \in Workers : Up(v)'
        BY <2>2 DEF MainPlace
    <2>9. pc = "handoff" => Dispatchable(Here)' /\ hint'[Here'] = Head(queue'[Here'])
        BY <2>1, <2>4 DEF MainPlace, Here
    <2> QED
        BY <2>1, <2>6, <2>7, <2>8, <2>9 DEF MainPlace
<1>5. Accounted' /\ JobsInOrder' /\ BatchHasJob' /\ Released'
    BY <1>1, OrderFacts
    DEF Accounted, JobsInOrder, BatchHasJob, Released, EstimatorFree, Outstanding, Due,
        queueVars, graphVars, mainVars
<1>6. WayOut'
    BY SMTT(30), <1>1, OrderFacts DEF WayOut, Drained, Outstanding, queueVars, graphVars, mainVars
<1> QED
    BY <1>1, <1>2, <1>3, <1>4, <1>5, <1>6

LEMMA StopThreadInv ==
    ASSUME WorkloadInv, NEW w \in Workers, StopThread(w)
    PROVE  WorkloadInv'
<1> USE DEF WorkloadInv
<1>1. /\ tpc[w] = "wait" /\ stopping[w] /\ tpc' = [tpc EXCEPT ![w] = "leave"]
      /\ UNCHANGED <<graphVars, mainVars, queueVars, sharedVars, job, hint, now>>
    BY DEF StopThread
<1>2. WorkloadTypeOK'
    BY <1>1 DEF WorkloadTypeOK, MainTypeOK, QueueTypeOK, SharedTypeOK, ThreadTypeOK,
                mainVars, queueVars, sharedVars
<1>3. GraphInv'
    BY <1>1, GraphFrame
<1>4. OneJob'
    BY <1>1 DEF OneJob, WorkloadTypeOK, ThreadTypeOK, queueVars, sharedVars
<1>5. HintOfJob'
    BY <1>1 DEF HintOfJob, Given, WorkloadTypeOK, ThreadTypeOK, sharedVars
<1>6. pc \notin Rounds /\ pc \notin {"construct", "constructing"}
    BY <1>1, OrderFacts DEF MainPlace, Up
<1>7. MainPlace'
    BY <1>1, <1>6 DEF MainPlace, Rounds, mainVars
<1>8. Accounted' /\ JobsInOrder' /\ BatchHasJob' /\ Released'
    BY <1>1 DEF Accounted, JobsInOrder, BatchHasJob, Released, Given, EstimatorFree,
                Outstanding, Due, queueVars, graphVars, mainVars, sharedVars
<1>9. WayOut'
    BY <1>1, OrderFacts
    DEF WayOut, WorkloadTypeOK, ThreadTypeOK, Drained, Outstanding, queueVars, graphVars,
        mainVars, sharedVars
<1> QED
    BY <1>2, <1>3, <1>4, <1>5, <1>7, <1>8, <1>9

LEMMA LeaveThreadInv ==
    ASSUME WorkloadInv, NEW w \in Workers, LeaveThread(w)
    PROVE  WorkloadInv'
<1> USE DEF WorkloadInv
<1>1. /\ tpc[w] = "leave" /\ tpc' = [tpc EXCEPT ![w] = "exited"]
      /\ UNCHANGED <<graphVars, mainVars, queueVars, slot, result, stopping, job, now>>
      /\ \/ hint' = [hint EXCEPT ![w] = Clear] /\ error' = error
         \/ hint' = hint /\ error' = [error EXCEPT ![w] = TRUE]
    BY DEF LeaveThread
<1>2. WorkloadTypeOK'
    <2>1. MainTypeOK' /\ QueueTypeOK'
        BY <1>1 DEF WorkloadTypeOK, MainTypeOK, QueueTypeOK, mainVars, queueVars
    <2>2. SharedTypeOK' /\ ThreadTypeOK'
        BY <1>1 DEF WorkloadTypeOK, SharedTypeOK, ThreadTypeOK
    <2> QED
        BY <2>1, <2>2 DEF WorkloadTypeOK
<1>3. GraphInv'
    BY <1>1, GraphFrame
<1>4. OneJob'
    BY <1>1 DEF OneJob, WorkloadTypeOK, ThreadTypeOK, queueVars
<1>5. HintOfJob'
    BY <1>1 DEF HintOfJob, Given, WorkloadTypeOK, ThreadTypeOK
<1>6. pc \notin Rounds /\ pc \notin {"construct", "constructing"}
    BY SMTT(30), <1>1, OrderFacts DEF MainPlace, Up, Here
<1>7. MainPlace'
    BY <1>1, <1>6 DEF MainPlace, Rounds, mainVars
<1>8. Accounted' /\ JobsInOrder' /\ BatchHasJob' /\ Released'
    BY <1>1 DEF Accounted, JobsInOrder, BatchHasJob, Released, Given, EstimatorFree,
                Outstanding, Due, queueVars, graphVars, mainVars
<1>9. WayOut'
    <2>1. \A v \in Workers :
             /\ tpc[v] = "exited" => tpc'[v] = "exited" /\ error'[v] = error[v]
             /\ error[v] \/ hint[v] = Clear => error'[v] \/ hint'[v] = Clear
        BY <1>1 DEF WorkloadTypeOK, SharedTypeOK, ThreadTypeOK
    <2>2. UNCHANGED <<pc, at, unwinding, next_imu, next_camera, next_control, queue, busy,
                      inbox>>
        BY <1>1 DEF mainVars, queueVars, graphVars
    <2>3. pc = "exited" => \A v \in Workers : tpc[v] = "exited"
        BY SMTT(30), OrderFacts DEF WayOut
    <2> QED
        BY <2>1, <2>2, <2>3, OrderWorkers DEF WayOut, Drained, Outstanding
<1> QED
    BY <1>2, <1>3, <1>4, <1>5, <1>7, <1>8, <1>9

(***************************************************************************)
(* Steps of main: construction and the way out.                            *)
(***************************************************************************)

(* A step that moves no job preserves what is said about jobs.              *)
LEMMA JobFrame ==
    ASSUME WorkloadInv, UNCHANGED <<graphVars, queueVars, slot, result, job, now, t>>
    PROVE  GraphInv' /\ Accounted' /\ JobsInOrder' /\ BatchHasJob' /\ QueueTypeOK'
<1>1. GraphInv'
    BY GraphFrame DEF WorkloadInv
<1>2. UNCHANGED <<queue, busy, offered, dropped, completed, accounting, last_sequence,
                  running, clock_time>>
    BY DEF queueVars, graphVars
<1> QED
    BY <1>1, <1>2
    DEF WorkloadInv, WorkloadTypeOK, Accounted, JobsInOrder, BatchHasJob, QueueTypeOK, Given,
        EstimatorFree, Outstanding

LEMMA ConstructInv ==
    ASSUME WorkloadInv, Construct
    PROVE  WorkloadInv'
<1> USE DEF WorkloadInv
<1>1. /\ pc = "construct" /\ pc' = "constructing"
      /\ tpc' = [tpc EXCEPT ![Here] = "enroll"]
      /\ UNCHANGED <<graphVars, at, t, unwinding, next_imu, next_camera, next_control,
                     queueVars, sharedVars, job, hint, now>>
      /\ UNCHANGED <<slot, result, stopping, error, busy>>
    BY DEF Construct, sharedVars, queueVars
<1>2. /\ at \in DOMAIN Order /\ Here \in Workers /\ ~busy[Here] /\ tpc[Here] = "none"
    BY <1>1, OrderFacts DEF MainPlace, Here
<1>3. WorkloadTypeOK'
    <2>1. MainTypeOK'
        BY <1>1 DEF WorkloadTypeOK, MainTypeOK
    <2>2. SharedTypeOK' /\ ThreadTypeOK'
        BY <1>1, <1>2 DEF WorkloadTypeOK, SharedTypeOK, ThreadTypeOK
    <2> QED
        BY <1>1, <2>1, <2>2, JobFrame DEF WorkloadTypeOK
<1>4. OneJob'
    BY <1>1, <1>2 DEF OneJob, WorkloadTypeOK, ThreadTypeOK
<1>5. HintOfJob'
    BY <1>1, <1>2 DEF HintOfJob, OneJob, Given, WorkloadTypeOK, ThreadTypeOK
<1>6. MainPlace'
    <2>1. \A i \in DOMAIN Order : i # at => tpc'[Order[i]] = tpc[Order[i]]
        BY <1>1, <1>2, OrderFacts, WorkloadAssumption
        DEF Here, WorkloadTypeOK, ThreadTypeOK
    <2>2. \A i \in DOMAIN Order :
             /\ ~stopping'[Order[i]] /\ ~busy'[Order[i]]
             /\ i < at => Up(Order[i])'
             /\ i > at => tpc'[Order[i]] = "none"
        BY <1>1, <1>2, <2>1, OrderFacts DEF MainPlace, Up
    <2>3. tpc'[Here] = "enroll"
        BY <1>1, <1>2 DEF WorkloadTypeOK, ThreadTypeOK
    <2> QED
        BY <1>1, <1>2, <2>2, <2>3 DEF MainPlace, Here, Rounds
<1>7. Released' /\ WayOut'
    BY <1>1 DEF Released, WayOut, Rounds
<1> QED
    BY <1>1, <1>3, <1>4, <1>5, <1>6, <1>7, JobFrame

LEMMA ConstructedInv ==
    ASSUME WorkloadInv, Constructed
    PROVE  WorkloadInv'
<1> USE DEF WorkloadInv
<1>1. /\ pc = "constructing" /\ tpc[Here] # "enroll"
      /\ UNCHANGED <<graphVars, t, next_imu, next_camera, next_control, queueVars,
                     sharedVars, threadVars, hint, now>>
      /\ UNCHANGED <<slot, result, stopping, error, tpc, job, busy>>
      /\ IF error[Here] THEN pc' = "finish" /\ at' = at - 1 /\ unwinding' = TRUE
         ELSE /\ pc' = IF at = Len(Order) THEN "collect" ELSE "construct"
              /\ at' = IF at = Len(Order) THEN 1 ELSE at + 1
              /\ unwinding' = unwinding
    BY DEF Constructed, Unwind, sharedVars, threadVars, queueVars
<1>2. at \in 1 .. Len(Order) /\ Here \in Workers
    BY <1>1, OrderFacts DEF MainPlace, Here
<1>3. WorkloadTypeOK'
    <2>1. MainTypeOK'
        <3>1. at' \in 0 .. Len(Order) + 1 /\ unwinding' \in BOOLEAN
            <4>1. CASE error[Here]
                BY <1>1, <1>2, <4>1, OrderLen
            <4>2. CASE ~error[Here]
                BY <1>1, <1>2, <4>2, OrderLen DEF WorkloadTypeOK, MainTypeOK
            <4> QED
                BY <4>1, <4>2
        <3>2. pc' \in {"finish", "collect", "construct"}
            BY <1>1
        <3> QED
            BY <1>1, <3>1, <3>2 DEF WorkloadTypeOK, MainTypeOK, Rounds
    <2>2. SharedTypeOK' /\ ThreadTypeOK'
        BY <1>1 DEF WorkloadTypeOK, SharedTypeOK, ThreadTypeOK
    <2> QED
        BY <1>1, <2>1, <2>2, JobFrame DEF WorkloadTypeOK
<1>4. OneJob' /\ HintOfJob'
    BY <1>1 DEF OneJob, HintOfJob, Given
<1>5. MainPlace'
    <2>1. CASE error[Here]
        BY <1>1, <2>1 DEF MainPlace, Rounds
    <2>2. CASE ~error[Here]
        <3>1. tpc[Here] = "wait" /\ ~stopping[Here]
            BY <1>1, <1>2, <2>2, OrderFacts DEF MainPlace, Here
        <3>2. \A i \in DOMAIN Order : i <= at => Up(Order[i])
            <4>1. Up(Here)
                BY <2>2, <3>1 DEF Up
            <4>2. \A i \in DOMAIN Order : i < at => Up(Order[i])
                BY <1>1 DEF MainPlace
            <4> QED
                BY <1>2, <4>1, <4>2, OrderFacts DEF Here
        <3>3. CASE at = Len(Order)
            <4>1. \A w \in Workers : Up(w)'
                BY <1>1, <3>2, <3>3, OrderFacts DEF Up
            <4> QED
                BY <1>1, <2>2, <3>3, <4>1, OrderFacts DEF MainPlace
        <3>4. CASE at # Len(Order)
            <4>1. pc' = "construct" /\ at' = at + 1 /\ at' \in DOMAIN Order
              <5>1. pc' = "construct" 
                BY <1>1, <2>2, <3>4
              <5>2. at' = at + 1
                BY <1>1, <2>2, <3>4
              <5>3. at + 1 \in 1 .. Len(Order)
                BY <1>2, <3>4, OrderLen
              <5> QED BY <5>1, <5>2, <5>3, OrderLen
            <4>2. \A i \in DOMAIN Order :
                     /\ ~stopping'[Order[i]] /\ ~busy'[Order[i]]
                     /\ i < at' => Up(Order[i])'
                     /\ i >= at' => tpc'[Order[i]] = "none"
                BY <1>1, <1>2, <3>2, <4>1, OrderLen DEF MainPlace, Up
            <4> QED
                BY <4>1, <4>2, OrderLen DEF MainPlace, Here, Rounds
        <3> QED
            BY <3>3, <3>4
    <2> QED
        BY <2>1, <2>2
<1>6. Released' /\ WayOut'
    BY <1>1 DEF Released, WayOut, Rounds
<1> QED
    BY <1>1, <1>3, <1>4, <1>5, <1>6, JobFrame

LEMMA FinishInv ==
    ASSUME WorkloadInv, Finish
    PROVE  WorkloadInv'
<1> USE DEF WorkloadInv
<1>1. /\ pc = "finish" /\ pc' = "join" /\ at \in DOMAIN Order
      /\ UNCHANGED <<graphVars, at, t, unwinding, next_imu, next_camera, next_control,
                     queueVars, slot, result, threadVars, now>>
      /\ UNCHANGED <<tpc, job, busy>>
      /\ stopping' = [stopping EXCEPT ![Here] = TRUE]
    BY DEF Finish, threadVars, queueVars
<1>2. \/ Retires(Here) /\ hint' = [hint EXCEPT ![Here] = Clear] /\ error' = error
      \/ Retires(Here) /\ error' = [error EXCEPT ![Here] = TRUE] /\ hint' = hint
      \/ ~Retires(Here) /\ hint' = hint /\ error' = error
    BY DEF Finish
<1>3. Here \in Workers
    BY <1>1, OrderFacts DEF Here
<1>4. WorkloadTypeOK'
    <2>1. MainTypeOK'
        BY <1>1 DEF WorkloadTypeOK, MainTypeOK
    <2>2. SharedTypeOK' /\ ThreadTypeOK'
        BY <1>1, <1>2, <1>3 DEF WorkloadTypeOK, SharedTypeOK, ThreadTypeOK
    <2> QED
        BY <1>1, <2>1, <2>2, JobFrame DEF WorkloadTypeOK
<1>5. OneJob'
    BY <1>1 DEF OneJob
<1>6. HintOfJob'
    <2>1. \A w \in Workers : Given(w)' = Given(w)
        BY <1>1 DEF Given
    <2>2. Retires(Here) => Given(Here) = {}
        BY <1>3 DEF Retires, OneJob, Given
    <2> QED
        BY <1>1, <1>2, <1>3, <2>1, <2>2 DEF HintOfJob, WorkloadTypeOK, ThreadTypeOK
<1>7. MainPlace'
    BY <1>1 DEF MainPlace, Rounds
<1>8. Released'
    BY <1>1 DEF Released, Rounds
<1>9. WayOut'
    <2>1. CASE unwinding
        BY <1>1, <2>1 DEF WayOut
    <2>2. CASE ~unwinding
        <3>1. ~error[Here] => Retires(Here)
            BY <1>1, <1>3, <2>2 DEF WayOut, Drained, Outstanding, Retires, OneJob
        <3>2. error'[Here] \/ hint'[Here] = Clear
            BY <1>2, <1>3, <3>1 DEF WorkloadTypeOK, SharedTypeOK, ThreadTypeOK
        <3>3. \A w \in Workers :
                 error[w] \/ hint[w] = Clear => error'[w] \/ hint'[w] = Clear
            BY <1>2, <1>3 DEF WorkloadTypeOK, SharedTypeOK, ThreadTypeOK
        <3>4. Drained'
            BY <1>1, <2>2 DEF WayOut, Drained, Outstanding, queueVars, graphVars
        <3>5. \A i \in DOMAIN Order :
                 /\ i < at => tpc'[Order[i]] = "exited"
                 /\ i < at \/ i = at => error'[Order[i]] \/ hint'[Order[i]] = Clear
            <4>1. \A i \in DOMAIN Order : i < at =>
                     tpc[Order[i]] = "exited" /\ (error[Order[i]] \/ hint[Order[i]] = Clear)
                BY <1>1, <2>2 DEF WayOut
            <4>2. at \in 1 .. Len(Order)
                BY <1>1, OrderLen
            <4>3. \A i \in DOMAIN Order : i < at =>
                     error'[Order[i]] \/ hint'[Order[i]] = Clear
                BY <3>3, <4>1, OrderWorkers
            <4>4. \A i \in DOMAIN Order : i = at =>
                     error'[Order[i]] \/ hint'[Order[i]] = Clear
                BY <3>2 DEF Here
            <4>5. \A i \in DOMAIN Order : i < at => tpc'[Order[i]] = "exited"
                BY <1>1, <4>1
            <4> QED
                BY <4>3, <4>4, <4>5, Zenon
        <3> QED
            BY <1>1, <2>2, <3>4, <3>5 DEF WayOut
    <2> QED
        BY <2>1, <2>2 DEF WorkloadTypeOK, MainTypeOK
<1> QED
    BY <1>1, <1>4, <1>5, <1>6, <1>7, <1>8, <1>9, JobFrame

LEMMA JoinThreadInv ==
    ASSUME WorkloadInv, JoinThread
    PROVE  WorkloadInv'
<1> USE DEF WorkloadInv
<1>1. /\ pc = "join" /\ pc' = "finish" /\ tpc[Here] = "exited"
      /\ at' = IF unwinding THEN at - 1 ELSE at + 1
      /\ UNCHANGED <<graphVars, t, unwinding, next_imu, next_camera, next_control,
                     queueVars, sharedVars, threadVars, hint, now>>
      /\ UNCHANGED <<slot, result, stopping, error, tpc, job, queue, busy, inbox>>
    BY DEF JoinThread, sharedVars, threadVars, queueVars, graphVars
<1>2. at \in 1 .. Len(Order)
    BY <1>1, OrderLen DEF MainPlace
<1>3. WorkloadTypeOK'
    <2>1. MainTypeOK'
        BY <1>1, <1>2, OrderLen DEF WorkloadTypeOK, MainTypeOK
    <2>2. SharedTypeOK' /\ ThreadTypeOK'
        BY <1>1 DEF WorkloadTypeOK, SharedTypeOK, ThreadTypeOK
    <2> QED
        BY <1>1, <2>1, <2>2, JobFrame DEF WorkloadTypeOK
<1>4. OneJob' /\ HintOfJob'
    BY <1>1 DEF OneJob, HintOfJob, Given
<1>5. MainPlace' /\ Released'
    BY <1>1 DEF MainPlace, Released, Rounds
<1>6. WayOut'
    <2>1. CASE unwinding
        BY <1>1, <2>1 DEF WayOut
    <2>2. CASE ~unwinding
        <3>1. at' = at + 1
            BY <1>1, <2>2
        <3>2. \A i \in DOMAIN Order : i <= at =>
                 tpc[Order[i]] = "exited" /\ (error[Order[i]] \/ hint[Order[i]] = Clear)
            BY <1>1, <1>2, <2>2, OrderLen DEF WayOut, Here
        <3>3. Drained'
            BY <1>1, <2>2 DEF WayOut, Drained, Outstanding
        <3>4. \A i \in DOMAIN Order : i < at' => i <= at
            BY <1>2, <3>1, OrderLen
        <3> QED
            <4>1. at' >= 1
                BY <1>2, <3>1, OrderLen
            <4>2. \A i \in DOMAIN Order : i < at' =>
                     tpc'[Order[i]] = "exited" /\ (error'[Order[i]] \/ hint'[Order[i]] = Clear)
                <5>1. UNCHANGED <<tpc, error, hint>>
                    BY <1>1
                <5> QED
                    BY <3>2, <3>4, <5>1
            <4>3. next_imu >= End /\ next_camera >= End /\ next_control >= End
                BY <1>1, <2>2 DEF WayOut
            <4> QED
                BY <1>1, <3>3, <4>1, <4>2, <4>3 DEF WayOut
    <2> QED
        BY <2>1, <2>2 DEF WorkloadTypeOK, MainTypeOK
<1> QED
    BY <1>1, <1>3, <1>4, <1>5, <1>6, JobFrame

LEMMA ExitInv ==
    ASSUME WorkloadInv, Exit
    PROVE  WorkloadInv'
<1> USE DEF WorkloadInv
<1>1. /\ pc = "finish" /\ at \notin DOMAIN Order /\ pc' \in {"exited", "failed"}
      /\ pc' = "exited" => ~unwinding /\ \A w \in Workers : ~error[w]
      /\ UNCHANGED <<graphVars, at, t, unwinding, next_imu, next_camera, next_control,
                     queueVars, sharedVars, threadVars, hint, now>>
      /\ UNCHANGED <<slot, result, stopping, error, tpc, job, queue, busy, inbox>>
    BY DEF Exit, sharedVars, threadVars, queueVars, graphVars
<1>2. WorkloadTypeOK'
    <2>1. MainTypeOK'
        BY <1>1 DEF WorkloadTypeOK, MainTypeOK
    <2>2. SharedTypeOK' /\ ThreadTypeOK'
        BY <1>1 DEF WorkloadTypeOK, SharedTypeOK, ThreadTypeOK
    <2> QED
        BY <1>1, <2>1, <2>2, JobFrame DEF WorkloadTypeOK
<1>3. OneJob' /\ HintOfJob'
    BY <1>1 DEF OneJob, HintOfJob, Given
<1>4. MainPlace' /\ Released'
    BY <1>1 DEF MainPlace, Released, Rounds
<1>5. WayOut'
    <2>1. CASE pc' = "exited"
        <3>1. at = Len(Order) + 1
            BY <1>1, <2>1, OrderLen DEF WayOut, WorkloadTypeOK, MainTypeOK
        <3>2. Drained'
            BY <1>1, <2>1 DEF WayOut, Drained, Outstanding
        <3> QED
            BY <1>1, <2>1, <3>1, <3>2 DEF WayOut
    <2>2. CASE pc' = "failed"
        BY <1>1, <2>2 DEF WayOut
    <2> QED
        BY <1>1, <2>1, <2>2
<1> QED
    BY <1>1, <1>2, <1>3, <1>4, <1>5, JobFrame

(* The exit test succeeds only when the window is over, everything it        *)
(* released has drained, and nothing is due any more.                        *)
LEMMA ExitTestInv ==
    ASSUME WorkloadInv, ExitTest
    PROVE  WorkloadInv'
<1> USE DEF WorkloadInv
<1>1. /\ pc = "exit_test" /\ pc' = IF t >= End /\ Drained THEN "finish" ELSE "collect"
      /\ UNCHANGED <<graphVars, at, t, unwinding, next_imu, next_camera, next_control,
                     queueVars, sharedVars, threadVars, hint, now>>
      /\ UNCHANGED <<slot, result, stopping, error, tpc, job, queue, busy, inbox>>
    BY DEF ExitTest, sharedVars, threadVars, queueVars, graphVars
<1>2. WorkloadTypeOK'
    <2>1. MainTypeOK'
        BY <1>1 DEF WorkloadTypeOK, MainTypeOK, Rounds
    <2>2. SharedTypeOK' /\ ThreadTypeOK'
        BY <1>1 DEF WorkloadTypeOK, SharedTypeOK, ThreadTypeOK
    <2> QED
        BY <1>1, <2>1, <2>2, JobFrame DEF WorkloadTypeOK
<1>3. OneJob' /\ HintOfJob'
    BY <1>1 DEF OneJob, HintOfJob, Given
<1>4. MainPlace' /\ Released'
    BY <1>1 DEF MainPlace, Released, Rounds, Up
<1>5. WayOut'
    <2>1. CASE t >= End /\ Drained
        <3>1. next_imu >= End /\ next_camera >= End /\ next_control >= End
            BY <1>1, <2>1, WorkloadAssumption
            DEF Released, Rounds, Due, WorkloadTypeOK, MainTypeOK
        <3>2. at = 1 /\ pc' = "finish"
            BY <1>1, <2>1 DEF WayOut
        <3>3. Drained'
            BY <1>1, <2>1 DEF Drained, Outstanding
        <3>4. \A i \in DOMAIN Order : ~(i < 1)
            BY OrderLen
        <3> QED
            BY <1>1, <3>1, <3>2, <3>3, <3>4 DEF WayOut
    <2>2. CASE ~(t >= End /\ Drained)
        BY <1>1, <2>2 DEF WayOut
    <2> QED
        BY <2>1, <2>2
<1> QED
    BY <1>1, <1>2, <1>3, <1>4, <1>5, JobFrame

LEMMA TickInv ==
    ASSUME WorkloadInv, Tick
    PROVE  WorkloadInv'
<1> USE DEF WorkloadInv
<1>1. /\ now < End /\ now' = now + 1
      /\ UNCHANGED <<graphVars, mainVars, queueVars, sharedVars, threadVars, hint>>
      /\ UNCHANGED <<slot, result, stopping, error, tpc, job, queue, busy, inbox>>
    BY DEF Tick, sharedVars, threadVars, queueVars, graphVars
<1>2. WorkloadTypeOK'
    <2>1. MainTypeOK' /\ QueueTypeOK'
        BY <1>1, WorkloadAssumption
        DEF WorkloadTypeOK, MainTypeOK, QueueTypeOK, mainVars, queueVars
    <2>2. SharedTypeOK' /\ ThreadTypeOK'
        BY <1>1 DEF WorkloadTypeOK, SharedTypeOK, ThreadTypeOK
    <2> QED
        BY <2>1, <2>2 DEF WorkloadTypeOK
<1>3. GraphInv' /\ OneJob' /\ HintOfJob'
    BY <1>1, GraphFrame DEF OneJob, HintOfJob, Given
<1>4. MainPlace' /\ Released' /\ WayOut'
    BY <1>1 DEF MainPlace, Here, Up, Dispatchable, Released, Due, WayOut, Drained, Outstanding,
                mainVars
<1>5. Accounted' /\ BatchHasJob'
    BY <1>1 DEF Accounted, BatchHasJob, EstimatorFree, Outstanding, Given, queueVars, graphVars
<1>6. JobsInOrder'
    <2>1. /\ clock_time \in Nat /\ now \in Nat /\ t \in Nat
          /\ now' \in Nat /\ now <= now'
        BY <1>1, WorkloadAssumption
        DEF WorkloadTypeOK, MainTypeOK, GraphInv, GraphTypeOK
    <2>2. \A s \in Stream : /\ \A j \in Given(s) : j.release \in Nat
                            /\ \A k \in DOMAIN queue[s] : queue[s][k].release \in Nat
        BY JobTypes, OrderFacts
    <2>3. UNCHANGED <<clock_time, t, offered, last_sequence>>
          /\ \A s \in Stream : Given(s)' = Given(s)
        BY <1>1 DEF Given, graphVars, mainVars, queueVars
    <2> SUFFICES ASSUME NEW s \in Stream
                 PROVE  /\ \A j \in Given(s) : j.release <= now'
                        /\ \A k \in DOMAIN queue[s] : queue[s][k].release <= now'
        BY <1>1, <2>1, <2>3 DEF JobsInOrder
    <2>4. /\ \A j \in Given(s) : j.release <= now
          /\ \A k \in DOMAIN queue[s] : queue[s][k].release <= now
        BY DEF JobsInOrder
    <2> QED
        BY <2>1, <2>2, <2>4
<1> QED
    BY <1>2, <1>3, <1>4, <1>5, <1>6

(***************************************************************************)
(* Steps of main: dispatch.                                                *)
(***************************************************************************)

(* A hint is published only for a worker that has no job.                   *)
LEMMA PublishHintInv ==
    ASSUME WorkloadInv, PublishHint
    PROVE  WorkloadInv'
<1> USE DEF WorkloadInv
<1>1. /\ pc = "dispatch"
      /\ UNCHANGED <<graphVars, t, next_imu, next_camera, next_control, queueVars,
                     sharedVars, threadVars, now>>
      /\ UNCHANGED <<slot, result, stopping, error, tpc, job, queue, busy, inbox>>
      /\ \/ /\ Dispatchable(Here) /\ hint' = [hint EXCEPT ![Here] = Head(queue[Here])]
            /\ pc' = "handoff" /\ at' = at /\ unwinding' = unwinding
         \/ /\ pc' = (IF AtEnd THEN "exit_test" ELSE pc) /\ at' = (IF AtEnd THEN 1 ELSE at + 1)
            /\ hint' = hint /\ unwinding' = unwinding
         \/ pc' = "finish" /\ at' = Len(Order) /\ unwinding' = TRUE /\ hint' = hint
    BY DEF PublishHint, Proceed, Unwind, sharedVars, threadVars, queueVars, graphVars
<1>2. at \in 1 .. Len(Order) /\ Here \in Workers
    BY <1>1, OrderFacts DEF MainPlace, Here
<1>3. Dispatchable(Here) => Head(queue[Here]) \in Job /\ Given(Here) = {}
    BY <1>2, JobTypes, HeadTailProperties DEF Dispatchable, OneJob, Given
<1>4. at' \in 1 .. Len(Order) /\ pc' \in {"handoff", "exit_test", "dispatch", "finish"}
    BY <1>1, <1>2, OrderLen DEF AtEnd
<1>5. WorkloadTypeOK'
    <2>1. MainTypeOK'
        <3>1. at' \in 0 .. Len(Order) + 1
            BY <1>4, OrderLen
        <3>2. unwinding' \in BOOLEAN
            BY <1>1 DEF WorkloadTypeOK, MainTypeOK
        <3>3. UNCHANGED <<t, now, next_imu, next_camera, next_control>>
            BY <1>1
        <3> QED
            BY <1>4, <3>1, <3>2, <3>3 DEF WorkloadTypeOK, MainTypeOK, Rounds
    <2>2. SharedTypeOK' /\ ThreadTypeOK'
        BY <1>1, <1>2, <1>3 DEF WorkloadTypeOK, SharedTypeOK, ThreadTypeOK
    <2> QED
        BY <1>1, <2>1, <2>2, JobFrame DEF WorkloadTypeOK
<1>6. OneJob'
    BY <1>1 DEF OneJob
<1>7. HintOfJob'
    <2>1. \A w \in Workers : Given(w)' = Given(w)
        BY <1>1 DEF Given
    <2> QED
        BY <1>1, <1>2, <1>3, <2>1 DEF HintOfJob, WorkloadTypeOK, ThreadTypeOK
<1>8. MainPlace'
    <2>1. \A w \in Workers : Up(w)'
        BY <1>1 DEF MainPlace, Up, Rounds
    <2>2. at' \in DOMAIN Order
        BY <1>4, OrderLen
    <2>3. pc' = "handoff" => Dispatchable(Here)' /\ hint'[Here'] = Head(queue[Here])'
        BY <1>1, <1>2 DEF Dispatchable, Here, AtEnd, WorkloadTypeOK, ThreadTypeOK
    <2> QED
        BY <1>1, <1>4, <2>1, <2>2, <2>3 DEF MainPlace
<1>9. Released'
    BY <1>1, <1>4 DEF Released, Rounds, Due
<1>10. WayOut'
    BY <1>1, <1>4 DEF WayOut
<1> QED
    BY <1>1, <1>5, <1>6, <1>7, <1>8, <1>9, <1>10, JobFrame

(* The first job of the queue goes to the slot of an idle worker.           *)
LEMMA HandOffInv ==
    ASSUME WorkloadInv, HandOff
    PROVE  WorkloadInv'
<1> USE DEF WorkloadInv
<1>a. PICK h : h = Here
    OBVIOUS
<1>b. PICK q : q = queue[h]
    OBVIOUS
<1>1. /\ pc = "handoff"
      /\ pc' = (IF AtEnd THEN "exit_test" ELSE "dispatch")
      /\ at' = (IF AtEnd THEN 1 ELSE at + 1)
      /\ slot' = [slot EXCEPT ![h] = Head(q)]
      /\ queue' = [queue EXCEPT ![h] = Tail(q)]
      /\ busy' = [busy EXCEPT ![h] = TRUE]
      /\ UNCHANGED <<graphVars, t, unwinding, next_imu, next_camera, next_control,
                     offered, dropped, completed, result, stopping, error, threadVars,
                     hint, now>>
      /\ UNCHANGED <<tpc, job, accounting, last_sequence, running, clock_time>>
    BY <1>a, <1>b DEF HandOff, threadVars, graphVars
<1>2. at \in 1 .. Len(Order) /\ h \in Workers
    BY <1>1, <1>a, OrderFacts DEF MainPlace, Here
<1>3. at' \in 1 .. Len(Order) /\ pc' \in {"exit_test", "dispatch"}
    BY <1>1, <1>2, OrderLen DEF AtEnd
<1>4. /\ ~busy[h] /\ slot[h] = None /\ job[h] = None /\ result[h] = None
      /\ Given(h) = {} /\ tpc[h] = "wait" /\ hint[h] = Head(q) /\ q # <<>>
    BY <1>1, <1>2, <1>a, <1>b DEF MainPlace, Dispatchable, OneJob, Given, Up, Rounds
<1>5. /\ q \in Seq(Job) /\ Head(q) = q[1] /\ Head(q) \in Job /\ Tail(q) \in Seq(Job)
      /\ Len(q) \in Nat /\ Len(q) >= 1 /\ Len(Tail(q)) = Len(q) - 1
      /\ \A k \in 1 .. Len(q) - 1 : Tail(q)[k] = q[k + 1]
    BY <1>2, <1>4, <1>b, JobTypes, HeadTailProperties
<1>6. WorkloadTypeOK'
    <2>1. MainTypeOK'
        BY <1>1, <1>3, OrderLen DEF WorkloadTypeOK, MainTypeOK, Rounds
    <2>2. QueueTypeOK'
        <3>1. queue' \in [Workers -> Seq(Job)] /\ busy' \in [Workers -> BOOLEAN]
            BY <1>1, <1>2, <1>5 DEF WorkloadTypeOK, QueueTypeOK
        <3>2. \A w \in Workers : Len(queue'[w]) <= QueueCapacity
            <4>1. Len(q) <= QueueCapacity /\ QueueCapacity \in Nat
                BY <1>2, <1>b, WorkloadAssumption DEF WorkloadTypeOK, QueueTypeOK
            <4>2. Len(Tail(q)) <= QueueCapacity
                BY <1>5, <4>1
            <4> QED
                BY <1>1, <1>2, <4>2 DEF WorkloadTypeOK, QueueTypeOK
        <3> QED
            BY <1>1, <3>1, <3>2 DEF WorkloadTypeOK, QueueTypeOK
    <2>3. SharedTypeOK' /\ ThreadTypeOK'
        BY <1>1, <1>2, <1>5 DEF WorkloadTypeOK, SharedTypeOK, ThreadTypeOK
    <2> QED
        BY <2>1, <2>2, <2>3 DEF WorkloadTypeOK
<1>7. GraphInv'
    BY <1>1, GraphFrame
<1>8. Head(q) # None
    BY <1>5, NoJobAssumption
<1>9. OneJob'
    BY <1>1, <1>2, <1>4, <1>8
    DEF OneJob, WorkloadTypeOK, SharedTypeOK, QueueTypeOK
<1>10. /\ Given(h)' = {Head(q)}
       /\ \A w \in Workers : w # h => Given(w)' = Given(w)
    BY <1>1, <1>2, <1>4, <1>8 DEF Given, WorkloadTypeOK, SharedTypeOK
<1>11. HintOfJob'
    BY <1>1, <1>2, <1>4, <1>10 DEF HintOfJob
<1>12. MainPlace'
    <2>1. \A w \in Workers : Up(w)'
        BY <1>1 DEF MainPlace, Up, Rounds
    <2>2. at' \in DOMAIN Order
        BY <1>3, OrderLen
    <2> QED
        BY <1>3, <2>1, <2>2 DEF MainPlace
<1>13. Accounted'
    BY SMTT(30), <1>1, <1>2, <1>4, <1>5, <1>b DEF Accounted, WorkloadTypeOK, QueueTypeOK
<1>14. JobsInOrder'
    <2>1. /\ clock_time' <= now' /\ t' <= now'
          /\ \A s \in Stream : last_sequence'[s] <= offered'[s]
        BY <1>1 DEF JobsInOrder
    <2>2. UNCHANGED <<last_sequence, offered, now>>
        BY <1>1
    <2>3. ASSUME NEW s \in Stream, s # h
          PROVE  Given(s)' = Given(s) /\ queue'[s] = queue[s]
        BY <1>1, <1>2, <1>10, <2>3, OrderFacts DEF WorkloadTypeOK, QueueTypeOK
    <2>4. CASE h \in Stream
        <3>1. queue'[h] = Tail(q)
            BY <1>1, <1>2 DEF WorkloadTypeOK, QueueTypeOK
        <3>2. \A k \in 1 .. Len(q) :
                 /\ last_sequence[h] < q[k].id /\ q[k].id <= offered[h]
                 /\ q[k].release <= now
                 /\ \A i \in 1 .. k - 1 : q[i].id < q[k].id
            BY <1>5, <1>b, <2>4 DEF JobsInOrder
        <3>3. DOMAIN Tail(q) = 1 .. Len(q) - 1
            BY <1>5
        <3>4. \A k \in DOMAIN Tail(q) :
                 /\ last_sequence[h] < Tail(q)[k].id /\ Tail(q)[k].id <= offered[h]
                 /\ Tail(q)[k].release <= now /\ q[1].id < Tail(q)[k].id
                 /\ \A i \in 1 .. k - 1 : Tail(q)[i].id < Tail(q)[k].id
            <4> SUFFICES ASSUME NEW k \in 1 .. Len(q) - 1
                         PROVE  /\ last_sequence[h] < q[k + 1].id
                                /\ q[k + 1].id <= offered[h]
                                /\ q[k + 1].release <= now /\ q[1].id < q[k + 1].id
                                /\ \A i \in 1 .. k - 1 : q[i + 1].id < q[k + 1].id
                BY <1>5, <3>3
            <4> QED
                BY <1>5, <3>2
        <3>5. /\ last_sequence[h] < q[1].id /\ q[1].id <= offered[h]
              /\ q[1].release <= now
            BY <1>5, <3>2
        <3> QED
            BY ZenonT(40), <1>5, <1>10, <2>1, <2>2, <2>3, <3>1, <3>4, <3>5 DEF JobsInOrder
    <2>5. CASE h \notin Stream
        BY <2>1, <2>2, <2>3, <2>5 DEF JobsInOrder
    <2> QED
        BY <2>4, <2>5
<1>15. BatchHasJob'
    <2>1. CASE h = "estimator"
        <3>1. running # NoBatch /\ Len(q) = 1 /\ q[1].id = running.id
            BY <1>4, <1>b, <2>1 DEF BatchHasJob, EstimatorFree, Outstanding
        <3>2. busy'["estimator"] /\ queue'["estimator"] = Tail(q)
            BY <1>1, <1>2, <2>1 DEF WorkloadTypeOK, QueueTypeOK
        <3>3. Tail(q) = <<>>
            <4>1. Tail(q) \in Seq(Job) /\ Len(Tail(q)) = 0
                BY <1>5, <3>1
            <4> QED
                BY <4>1, EmptySeq
        <3> QED
            BY <1>1, <1>5, <1>10, <2>1, <3>1, <3>2, <3>3 DEF BatchHasJob
    <2>2. CASE h # "estimator"
        <3>1. /\ busy'["estimator"] = busy["estimator"] /\ queue'["estimator"] = queue["estimator"]
              /\ Given("estimator")' = Given("estimator")
            BY <1>1, <1>2, <1>10, <2>2, OrderFacts DEF WorkloadTypeOK, QueueTypeOK
        <3> QED
            BY <1>1, <3>1 DEF BatchHasJob, EstimatorFree, Outstanding
    <2> QED
        BY <2>1, <2>2
<1>16. Released'
    BY <1>1, <1>3 DEF Released, Rounds, Due
<1>17. WayOut'
    BY <1>1, <1>3 DEF WayOut
<1> QED
    BY <1>6, <1>7, <1>9, <1>11, <1>12, <1>13, <1>14, <1>15, <1>16, <1>17

(***************************************************************************)
(* Steps of main: releases.                                                *)
(***************************************************************************)

(* What Worker::offer() does to the queues: the job is the last one, or the *)
(* queue was full and the drop is counted.                                  *)
LEMMA OfferQueue ==
    ASSUME QueueTypeOK, NEW w \in Workers, NEW j \in Job, WorkerOffer(w, j)
    PROVE  /\ queue' \in [Workers -> Seq(Job)]
           /\ offered' \in [Workers -> Nat] /\ dropped' \in [Workers -> Nat]
           /\ \A v \in Workers : Len(queue'[v]) <= QueueCapacity
           /\ \A v \in Workers : offered'[v] - dropped'[v] - Len(queue'[v])
                                    = offered[v] - dropped[v] - Len(queue[v])
           /\ \A v \in Workers : v # w => queue'[v] = queue[v] /\ offered'[v] = offered[v]
           /\ offered'[w] = offered[w] + 1
           /\ queue'[w] = IF QueueFull(w) THEN queue[w] ELSE Append(queue[w], j)
<1>1. /\ queue[w] \in Seq(Job) /\ Len(queue[w]) \in Nat /\ Len(queue[w]) <= QueueCapacity
      /\ QueueCapacity \in Nat
    BY WorkloadAssumption DEF QueueTypeOK
<1>2. Append(queue[w], j) \in Seq(Job) /\ Len(Append(queue[w], j)) = Len(queue[w]) + 1
    BY <1>1
<1>3. offered' = [offered EXCEPT ![w] = @ + 1]
    BY DEF WorkerOffer
<1>4. CASE QueueFull(w)
    <2>1. dropped' = [dropped EXCEPT ![w] = @ + 1] /\ queue' = queue
        BY <1>4 DEF WorkerOffer
    <2>2. \A v \in Workers : Len(queue[v]) \in Nat /\ dropped[v] \in Nat /\ offered[v] \in Nat
        BY DEF QueueTypeOK
    <2> QED
        BY SMTT(30), <1>3, <1>4, <2>1, <2>2 DEF QueueTypeOK
<1>5. CASE ~QueueFull(w)
    <2>1. dropped' = dropped /\ queue' = [queue EXCEPT ![w] = Append(@, j)]
        BY <1>5 DEF WorkerOffer
    <2>2. \A v \in Workers : Len(queue[v]) \in Nat /\ dropped[v] \in Nat /\ offered[v] \in Nat
        BY DEF QueueTypeOK
    <2>3. queue' \in [Workers -> Seq(Job)] /\ queue'[w] = Append(queue[w], j)
        BY <1>2, <2>1 DEF QueueTypeOK
    <2>4. \A v \in Workers : v # w => queue'[v] = queue[v]
        BY <2>1 DEF QueueTypeOK
    <2>5. Len(queue[w]) + 1 <= QueueCapacity
        BY <1>1, <1>5 DEF QueueFull
    <2>6. \A v \in Workers :
             /\ Len(queue'[v]) <= QueueCapacity
             /\ Len(queue'[v]) = IF v = w THEN Len(queue[v]) + 1 ELSE Len(queue[v])
        BY <1>2, <2>3, <2>4, <2>5 DEF QueueTypeOK
    <2>7. /\ offered' \in [Workers -> Nat] /\ dropped' \in [Workers -> Nat]
          /\ offered'[w] = offered[w] + 1
          /\ \A v \in Workers : v # w => offered'[v] = offered[v]
        BY <1>3, <2>1 DEF QueueTypeOK
    <2>8. \A v \in Workers : offered'[v] - dropped'[v] - Len(queue'[v])
                               = offered[v] - dropped[v] - Len(queue[v])
        <3> TAKE v \in Workers
        <3>1. PICK o, d, l \in Nat : o = offered[v] /\ d = dropped[v] /\ l = Len(queue[v])
            BY <2>2
        <3>2. CASE v = w
            <4>1. offered'[v] = o + 1 /\ dropped'[v] = d /\ Len(queue'[v]) = l + 1
                BY <2>1, <2>6, <2>7, <3>1, <3>2
            <4>2. (o + 1) - d - (l + 1) = o - d - l
                OBVIOUS
            <4> QED
                BY <3>1, <4>1, <4>2
        <3>3. CASE v # w
            BY <2>1, <2>6, <2>7, <3>3
        <3> QED
            BY <3>2, <3>3
    <2> QED
        BY <1>5, <2>3, <2>4, <2>6, <2>7, <2>8
<1> QED
    BY <1>4, <1>5

(* A job that is offered is queued or dropped, so that every job stays      *)
(* accounted for: c of them are completed and b are with the worker.        *)
LEMMA OfferBalance ==
    ASSUME NEW v, NEW c \in Nat, NEW b \in Nat,
           offered[v] \in Nat, dropped[v] \in Nat, Len(queue[v]) \in Nat,
           offered'[v] \in Nat, dropped'[v] \in Nat, Len(queue'[v]) \in Nat,
           offered'[v] - dropped'[v] - Len(queue'[v]) = offered[v] - dropped[v] - Len(queue[v]),
           offered[v] = c + dropped[v] + Len(queue[v]) + b
    PROVE  offered'[v] = c + dropped'[v] + Len(queue'[v]) + b
<1>1. PICK o \in Nat, d \in Nat, n \in Nat :
         o = offered[v] /\ d = dropped[v] /\ n = Len(queue[v])
    OBVIOUS
<1>2. PICK o1 \in Nat, d1 \in Nat, n1 \in Nat :
         o1 = offered'[v] /\ d1 = dropped'[v] /\ n1 = Len(queue'[v])
    OBVIOUS
<1>3. o = c + d + n + b /\ o1 - d1 - n1 = o - d - n
    BY <1>1, <1>2
<1>4. o1 = c + d1 + n1 + b
    BY <1>3
<1> QED
    BY <1>2, <1>4

(* Accounted for a step that offers jobs, or completes one.                 *)
LEMMA OffersAccounted ==
    ASSUME QueueTypeOK, QueueTypeOK', Accounted,
           \A v \in Workers : completed'[v] + (IF busy'[v] THEN 1 ELSE 0)
                                = completed[v] + (IF busy[v] THEN 1 ELSE 0),
           \A s \in Stream : accounting'[s].offered = completed'[s],
           \A v \in Workers : offered'[v] - dropped'[v] - Len(queue'[v])
                                = offered[v] - dropped[v] - Len(queue[v])
    PROVE  Accounted'
<1> SUFFICES ASSUME NEW v \in Workers
             PROVE  offered'[v] = completed'[v] + dropped'[v] + Len(queue'[v])
                                  + (IF busy'[v] THEN 1 ELSE 0)
    BY DEF Accounted
<1>1. PICK b \in Nat, b1 \in Nat :
         b = (IF busy[v] THEN 1 ELSE 0) /\ b1 = (IF busy'[v] THEN 1 ELSE 0)
    OBVIOUS
<1>2. /\ offered[v] = completed[v] + dropped[v] + Len(queue[v]) + b
      /\ offered'[v] - dropped'[v] - Len(queue'[v]) = offered[v] - dropped[v] - Len(queue[v])
    BY <1>1 DEF Accounted
<1>3. completed[v] \in Nat /\ offered[v] \in Nat /\ dropped[v] \in Nat /\ Len(queue[v]) \in Nat
    BY DEF QueueTypeOK
<1>4. /\ offered'[v] \in Nat /\ dropped'[v] \in Nat /\ Len(queue'[v]) \in Nat
      /\ completed'[v] \in Nat
    BY DEF QueueTypeOK
<1>5. offered'[v] = completed[v] + dropped'[v] + Len(queue'[v]) + b
    BY ZenonT(40), <1>2, <1>3, <1>4, OfferBalance
<1>6. PICK o \in Nat, c \in Nat, c1 \in Nat, d \in Nat, n \in Nat :
         /\ o = offered'[v] /\ c = completed[v] /\ c1 = completed'[v] /\ d = dropped'[v]
         /\ n = Len(queue'[v])
    BY <1>3, <1>4
<1>7. o = c + d + n + b /\ c1 + b1 = c + b
    BY <1>1, <1>5, <1>6
<1>8. o = c1 + d + n + b1
    BY <1>7
<1> QED
    BY <1>1, <1>6, <1>8

(* A new job of a stream has the next id, so the order of its jobs is kept.  *)
LEMMA OfferOrder ==
    ASSUME WorkloadInv, NEW w \in Workers, NEW j \in Job, WorkerOffer(w, j),
           w \in Stream => j.id = offered[w] + 1 /\ j.release <= now,
           \A s \in Stream : Given(s)' = Given(s),
           UNCHANGED <<last_sequence, now>>, clock_time' <= now, t' <= now
    PROVE  JobsInOrder'
<1> USE DEF WorkloadInv
<1>1. /\ \A v \in Workers : v # w => queue'[v] = queue[v] /\ offered'[v] = offered[v]
      /\ offered'[w] = offered[w] + 1
      /\ queue'[w] = IF QueueFull(w) THEN queue[w] ELSE Append(queue[w], j)
    <2>1. QueueTypeOK
        BY DEF WorkloadTypeOK
    <2> QED
        BY <2>1, OfferQueue
<1>2. clock_time' <= now' /\ t' <= now'
    BY DEF JobsInOrder
<1> SUFFICES ASSUME NEW s \in Stream
             PROVE  /\ last_sequence[s] <= offered'[s]
                    /\ \A g \in Given(s) :
                          /\ last_sequence[s] < g.id /\ g.id <= offered'[s] /\ g.release <= now
                          /\ \A k \in DOMAIN queue'[s] : g.id < queue'[s][k].id
                    /\ \A k \in DOMAIN queue'[s] :
                          /\ last_sequence[s] < queue'[s][k].id
                          /\ queue'[s][k].id <= offered'[s] /\ queue'[s][k].release <= now
                          /\ \A i \in 1 .. k - 1 : queue'[s][i].id < queue'[s][k].id
    BY <1>2 DEF JobsInOrder
<1>3. CASE s # w
    BY <1>1, <1>3, OrderFacts DEF JobsInOrder
<1>4. CASE s = w
    <2>1. /\ s \in Workers /\ offered[s] \in Nat /\ last_sequence[s] \in Int
          /\ queue[s] \in Seq(Job) /\ Len(queue[s]) \in Nat
        <3>1. s \in Workers
            BY OrderFacts
        <3>2. last_sequence[s] \in Int
            BY DEF GraphInv, GraphTypeOK
        <3> QED
            BY <3>1, <3>2 DEF WorkloadTypeOK, QueueTypeOK
    <2>2. \A g \in Given(s) : g.id \in Nat
        BY <2>1, JobTypes
    <2>3. \A k \in 1 .. Len(queue[s]) : queue[s][k].id \in Nat
        BY <2>1, JobTypes
    <2>4. /\ last_sequence[s] <= offered[s]
          /\ \A g \in Given(s) :
                 /\ last_sequence[s] < g.id /\ g.id <= offered[s] /\ g.release <= now
                 /\ \A k \in 1 .. Len(queue[s]) : g.id < queue[s][k].id
          /\ \A k \in 1 .. Len(queue[s]) :
                 /\ last_sequence[s] < queue[s][k].id /\ queue[s][k].id <= offered[s]
                 /\ queue[s][k].release <= now
                 /\ \A i \in 1 .. k - 1 : queue[s][i].id < queue[s][k].id
        BY <2>1 DEF JobsInOrder
    <2>5. CASE QueueFull(w)
        <3>1. queue'[s] = queue[s] /\ offered'[s] = offered[s] + 1
            BY <1>1, <1>4, <2>5
        <3>2. DOMAIN queue'[s] = 1 .. Len(queue[s])
            BY <2>1, <3>1
        <3>3. \A g \in Given(s) : g.id <= offered[s] + 1
            BY <2>1, <2>2, <2>4
        <3>4. \A k \in 1 .. Len(queue[s]) : queue[s][k].id <= offered[s] + 1
            BY <2>1, <2>3, <2>4
        <3>5. last_sequence[s] <= offered[s] + 1
            BY <2>1, <2>4
        <3> QED
            BY <2>4, <3>1, <3>2, <3>3, <3>4, <3>5
    <2>6. CASE ~QueueFull(w)
        <3> DEFINE a == Append(queue[s], j)
        <3>1. /\ queue'[s] = a /\ DOMAIN a = 1 .. Len(queue[s]) + 1
              /\ a[Len(queue[s]) + 1] = j
              /\ \A k \in 1 .. Len(queue[s]) : a[k] = queue[s][k]
            BY <1>1, <1>4, <2>1, <2>6, AppendProperties
        <3> HIDE DEF a
        <3>2. j.id = offered[s] + 1 /\ j.release <= now /\ offered'[s] = offered[s] + 1
            BY <1>1, <1>4
        <3>3. \A k \in 1 .. Len(queue[s]) + 1 :
                 /\ last_sequence[s] < a[k].id /\ a[k].id <= offered[s] + 1 /\ a[k].release <= now
                 /\ \A g \in Given(s) : g.id < a[k].id
                 /\ \A i \in 1 .. k - 1 : a[i].id < a[k].id
            <4> TAKE k \in 1 .. Len(queue[s]) + 1
            <4>1. CASE k \in 1 .. Len(queue[s])
                <5>1. a[k] = queue[s][k] /\ \A i \in 1 .. k - 1 : a[i] = queue[s][i]
                    BY SMTT(30), <2>1, <3>1, <4>1
                <5>2. queue[s][k].id <= offered[s] + 1
                    BY <2>1, <2>3, <2>4, <4>1
                <5> QED
                    BY <2>4, <4>1, <5>1, <5>2
            <4>2. CASE k = Len(queue[s]) + 1
                <5>1. a[k] = j /\ \A i \in 1 .. k - 1 : a[i] = queue[s][i]
                    BY <2>1, <3>1, <4>2
                <5>2. \A i \in 1 .. k - 1 : queue[s][i].id < offered[s] + 1
                    BY <2>1, <2>3, <2>4, <4>2
                <5>3. /\ last_sequence[s] < offered[s] + 1
                      /\ \A g \in Given(s) : g.id < offered[s] + 1
                    BY <2>1, <2>2, <2>4
                <5> QED
                    BY <2>1, <3>2, <5>1, <5>2, <5>3
            <4> QED
                BY <2>1, <4>1, <4>2
        <3>4. \A g \in Given(s) : g.id <= offered[s] + 1
            BY <2>1, <2>2, <2>4
        <3> QED
            BY <2>1, <2>4, <3>1, <3>2, <3>3, <3>4
    <2> QED
        BY <2>5, <2>6
<1> QED
    BY <1>3, <1>4

(* A release that offers one job of a worker other than the estimator.      *)
LEMMA ReleaseOffer ==
    ASSUME WorkloadInv, pc \in {"imu", "camera", "control"},
           NEW w \in Workers \ {"estimator"}, NEW j \in Job, WorkerOffer(w, j),
           w \in Stream => j.id = offered[w] + 1 /\ j.release <= now,
           GraphInv', UNCHANGED <<accounting, last_sequence, running>>, clock_time' <= now,
           UNCHANGED <<pc, at, t, unwinding, busy, completed, sharedVars, threadVars, hint,
                       now>>,
           next_imu' \in Nat, next_camera' \in Nat, next_control' \in Nat,
           next_imu' = next_imu \/ pc = "imu", next_camera' = next_camera \/ pc # "control"
    PROVE  WorkloadInv'
<1> USE DEF WorkloadInv
<1>1. UNCHANGED <<slot, result, stopping, error, tpc, job>>
    BY DEF sharedVars, threadVars
<1>2. QueueTypeOK
    BY DEF WorkloadTypeOK
<1>3. /\ queue' \in [Workers -> Seq(Job)]
      /\ offered' \in [Workers -> Nat] /\ dropped' \in [Workers -> Nat]
      /\ \A v \in Workers : Len(queue'[v]) <= QueueCapacity
      /\ \A v \in Workers : offered'[v] - dropped'[v] - Len(queue'[v])
                               = offered[v] - dropped[v] - Len(queue[v])
      /\ \A v \in Workers : v # w => queue'[v] = queue[v] /\ offered'[v] = offered[v]
    BY <1>2, OfferQueue
<1>4. WorkloadTypeOK'
    <2>1. MainTypeOK'
        BY DEF WorkloadTypeOK, MainTypeOK
    <2>2. QueueTypeOK'
        BY <1>2, <1>3 DEF QueueTypeOK
    <2>3. SharedTypeOK' /\ ThreadTypeOK'
        BY <1>1 DEF WorkloadTypeOK, SharedTypeOK, ThreadTypeOK
    <2> QED
        BY <2>1, <2>2, <2>3 DEF WorkloadTypeOK
<1>5. OneJob' /\ HintOfJob'
    BY <1>1 DEF OneJob, HintOfJob, Given
<1>6. MainPlace'
    BY <1>1 DEF MainPlace, Up, Rounds
<1>7. Accounted'
    <2>1. QueueTypeOK'
        BY <1>4 DEF WorkloadTypeOK
    <2>2. \A s \in Stream : accounting'[s].offered = completed'[s]
        BY DEF Accounted
    <2> QED
        BY <1>2, <1>3, <2>1, <2>2, OffersAccounted
<1>8. JobsInOrder'
    <2>1. \A s \in Stream : Given(s)' = Given(s)
        BY <1>1 DEF Given
    <2>2. t' <= now
        BY DEF JobsInOrder
    <2> QED
        BY <2>1, <2>2, OfferOrder
<1>9. BatchHasJob'
    BY <1>1, <1>3, OrderFacts DEF BatchHasJob, EstimatorFree, Outstanding, Given
<1>10. Released' /\ WayOut'
    BY DEF Released, WayOut, Rounds, Due
<1> QED
    BY <1>4, <1>5, <1>6, <1>7, <1>8, <1>9, <1>10

(* A step of a round that offers nothing and goes on to the next phase.     *)
LEMMA NextPhase ==
    ASSUME WorkloadInv, NoOffer,
           \/ pc = "imu" /\ pc' = "camera" /\ ~Due(next_imu)
           \/ pc = "camera" /\ pc' = "control" /\ ~Due(next_camera)
           \/ pc = "control" /\ pc' = "select" /\ ~Due(next_control),
           UNCHANGED <<graphVars, at, t, unwinding, next_imu, next_camera, next_control, busy,
                       completed, sharedVars, threadVars, hint, now>>
    PROVE  WorkloadInv'
<1> USE DEF WorkloadInv
<1>1. /\ UNCHANGED <<slot, result, stopping, error, tpc, job>> /\ UNCHANGED queueVars
    BY DEF sharedVars, threadVars, NoOffer, queueVars
<1>2. GraphInv' /\ Accounted' /\ JobsInOrder' /\ BatchHasJob' /\ QueueTypeOK'
    BY <1>1, JobFrame
<1>3. MainTypeOK' /\ SharedTypeOK' /\ ThreadTypeOK'
    BY <1>1 DEF WorkloadTypeOK, MainTypeOK, SharedTypeOK, ThreadTypeOK, Rounds
<1>4. OneJob' /\ HintOfJob'
    BY <1>1 DEF OneJob, HintOfJob, Given
<1>5. MainPlace' /\ Released' /\ WayOut'
    BY <1>1 DEF MainPlace, Released, WayOut, Up, Rounds, Due
<1> QED
    BY <1>2, <1>3, <1>4, <1>5 DEF WorkloadTypeOK

(* A due release is a job: it is inside the window and not in the future.   *)
LEMMA DueJob ==
    ASSUME WorkloadInv, NEW next \in Nat, Due(next), NEW w \in Workers
    PROVE  /\ [id |-> offered[w] + 1, release |-> next] \in Job /\ next <= now
           /\ offered[w] \in Nat
<1>1. /\ next < End /\ next <= t /\ End \in Nat /\ t \in Nat /\ now \in 0 .. End /\ t <= now
      /\ offered[w] \in Nat
    BY WorkloadAssumption DEF WorkloadInv, WorkloadTypeOK, MainTypeOK, QueueTypeOK, Due,
                              JobsInOrder
<1>2. next \in 0 .. End /\ next <= now /\ offered[w] + 1 \in Nat \ {0}
    BY <1>1
<1> QED
    BY <1>1, <1>2 DEF Job

LEMMA ReleaseImuInv ==
    ASSUME WorkloadInv, ReleaseImu
    PROVE  WorkloadInv'
<1>0. pc = "imu" /\ next_imu \in Nat /\ next_camera \in Nat /\ next_control \in Nat
    BY DEF ReleaseImu, WorkloadInv, WorkloadTypeOK, MainTypeOK
<1>1. UNCHANGED <<graphVars, at, t, unwinding, next_camera, next_control, busy,
                  completed, sharedVars, threadVars, hint, now>>
    BY DEF ReleaseImu
<1>2. CASE Due(next_imu)
    <2> DEFINE j == [id |-> offered["imu"] + 1, release |-> next_imu]
    <2>1. WorkerOffer("imu", j) /\ next_imu' = next_imu + ImuPeriod /\ pc' = pc
        BY <1>2 DEF ReleaseImu
    <2>2. j \in Job /\ j.id = offered["imu"] + 1 /\ j.release <= now
        BY <1>0, <1>2, DueJob, OrderFacts
    <2>3. GraphInv' /\ UNCHANGED <<accounting, last_sequence, running, clock_time>>
          /\ clock_time <= now
        BY <1>1, GraphFrame DEF WorkloadInv, graphVars, JobsInOrder
    <2>4. next_imu' \in Nat
        BY <1>0, <2>1, WorkloadAssumption
    <2>5. "imu" \in Workers \ {"estimator"}
        BY OrderFacts
    <2> HIDE DEF j
    <2> QED
        BY <1>0, <1>1, <2>1, <2>2, <2>3, <2>4, <2>5, ReleaseOffer
<1>3. CASE ~Due(next_imu)
    BY <1>0, <1>1, <1>3, NextPhase DEF ReleaseImu
<1> QED
    BY <1>2, <1>3

LEMMA ReleaseCameraInv ==
    ASSUME WorkloadInv, ReleaseCamera
    PROVE  WorkloadInv'
<1>0. pc = "camera" /\ next_imu \in Nat /\ next_camera \in Nat /\ next_control \in Nat
    BY DEF ReleaseCamera, WorkloadInv, WorkloadTypeOK, MainTypeOK
<1>1. UNCHANGED <<graphVars, at, t, unwinding, next_imu, next_control, busy,
                  completed, sharedVars, threadVars, hint, now>>
    BY DEF ReleaseCamera
<1>2. CASE Due(next_camera)
    <2> DEFINE j == [id |-> offered["camera"] + 1, release |-> next_camera]
    <2>1. WorkerOffer("camera", j) /\ next_camera' = next_camera + CameraPeriod /\ pc' = pc
        BY <1>2 DEF ReleaseCamera
    <2>2. j \in Job /\ j.id = offered["camera"] + 1 /\ j.release <= now
        BY <1>0, <1>2, DueJob, OrderFacts
    <2>3. GraphInv' /\ UNCHANGED <<accounting, last_sequence, running, clock_time>>
          /\ clock_time <= now
        BY <1>1, GraphFrame DEF WorkloadInv, graphVars, JobsInOrder
    <2>4. next_camera' \in Nat
        BY <1>0, <2>1, WorkloadAssumption
    <2>5. "camera" \in Workers \ {"estimator"}
        BY OrderFacts
    <2> HIDE DEF j
    <2> QED
        BY <1>0, <1>1, <2>1, <2>2, <2>3, <2>4, <2>5, ReleaseOffer
<1>3. CASE ~Due(next_camera)
    BY <1>0, <1>1, <1>3, NextPhase DEF ReleaseCamera
<1> QED
    BY <1>2, <1>3

LEMMA ReleaseControlInv ==
    ASSUME WorkloadInv, ReleaseControl
    PROVE  WorkloadInv'
<1>0. pc = "control" /\ next_imu \in Nat /\ next_camera \in Nat /\ next_control \in Nat
    BY DEF ReleaseControl, WorkloadInv, WorkloadTypeOK, MainTypeOK
<1>1. UNCHANGED <<at, t, unwinding, next_imu, next_camera, busy, completed,
                  sharedVars, threadVars, hint, now>>
    BY DEF ReleaseControl
<1>w. "control" \in Workers \ {"estimator"} /\ "control" \notin Stream
    BY OrderFacts DEF Stream
<1>2. CASE Due(next_control) /\ ~Outstanding("control")
    <2> DEFINE j == [id |-> offered["control"] + 1, release |-> next_control]
    <2>1. /\ WorkerOffer("control", j) /\ TakeControl(now, MaxImuAge)
          /\ next_control' = next_control + ControlPeriod /\ pc' = pc
        BY <1>2 DEF ReleaseControl
    <2>2. j \in Job
        BY <1>0, <1>2, DueJob, OrderFacts
    <2>3. now \in Nat /\ MaxImuAge \in Nat /\ GraphInv
        BY BoundsAssumption, WorkloadAssumption DEF WorkloadInv, WorkloadTypeOK, MainTypeOK
    <2>4. GraphInv'
        BY <2>1, <2>3, ControlInv
    <2>5. UNCHANGED <<accounting, last_sequence, running>> /\ clock_time' <= now
        BY <2>1, <2>3 DEF TakeControl, Advance
    <2>6. next_control' \in Nat
        BY <1>0, <2>1, WorkloadAssumption
    <2> HIDE DEF j
    <2> QED
        BY <1>0, <1>1, <1>w, <2>1, <2>2, <2>4, <2>5, <2>6, ReleaseOffer
<1>3. CASE Due(next_control) /\ Outstanding("control")
    <2> USE DEF WorkloadInv
    <2>1. /\ offered' = [offered EXCEPT !["control"] = @ + 1]
          /\ dropped' = [dropped EXCEPT !["control"] = @ + 1]
          /\ UNCHANGED <<graphVars, queue, pc>>
          /\ next_control' = next_control + ControlPeriod
        BY <1>3 DEF ReleaseControl
    <2>2. UNCHANGED <<slot, result, stopping, error, tpc, job>>
        BY <1>1 DEF sharedVars, threadVars
    <2>3. GraphInv' /\ UNCHANGED <<accounting, last_sequence, running, clock_time>>
        BY <2>1, GraphFrame DEF graphVars
    <2>4. next_control' \in Nat
        BY <1>0, <2>1, WorkloadAssumption
    <2>5. MainTypeOK' /\ SharedTypeOK' /\ ThreadTypeOK'
        BY <1>1, <2>1, <2>2, <2>4 DEF WorkloadTypeOK, MainTypeOK, SharedTypeOK, ThreadTypeOK
    <2>6. QueueTypeOK'
        <3>1. offered' \in [Workers -> Nat] /\ dropped' \in [Workers -> Nat]
            <4>1. /\ offered \in [Workers -> Nat] /\ dropped \in [Workers -> Nat]
                  /\ "control" \in Workers
                BY <1>w DEF WorkloadTypeOK, QueueTypeOK
            <4> QED
                BY <2>1, <4>1
        <3>2. UNCHANGED <<queue, busy, completed>>
            BY <1>1, <2>1
        <3> QED
            BY <3>1, <3>2 DEF WorkloadTypeOK, QueueTypeOK
    <2>7. OneJob' /\ HintOfJob'
        BY <1>1, <2>2 DEF OneJob, HintOfJob, Given
    <2>8. MainPlace'
        BY <1>0, <1>1, <2>1, <2>2 DEF MainPlace, Up, Rounds
    <2>9. Accounted'
        <3>1. \A v \in Workers : /\ offered[v] \in Nat /\ dropped[v] \in Nat
                                 /\ completed[v] \in Nat /\ Len(queue[v]) \in Nat
            BY DEF WorkloadTypeOK, QueueTypeOK
        <3>2. \A v \in Workers : \/ offered'[v] = offered[v] /\ dropped'[v] = dropped[v]
                                 \/ offered'[v] = offered[v] + 1 /\ dropped'[v] = dropped[v] + 1
            BY <2>1 DEF WorkloadTypeOK, QueueTypeOK
        <3>3. UNCHANGED <<queue, busy, completed, accounting>>
            BY <1>1, <2>1, <2>3
        <3>4. \A v \in Workers : offered'[v] - dropped'[v] - Len(queue'[v])
                                   = offered[v] - dropped[v] - Len(queue[v])
            <4> TAKE v \in Workers
            <4>1. PICK o \in Nat, d \in Nat, n \in Nat :
                     o = offered[v] /\ d = dropped[v] /\ n = Len(queue[v])
                BY <3>1
            <4>2. PICK e \in {0, 1} : offered'[v] = o + e /\ dropped'[v] = d + e
                BY <3>2, <4>1
            <4>3. (o + e) - (d + e) - n = o - d - n
                OBVIOUS
            <4> QED
                BY <3>3, <4>1, <4>2, <4>3
        <3>5. \A s \in Stream : accounting'[s].offered = completed'[s]
            BY <3>3 DEF Accounted
        <3> QED
            BY <2>6, <3>3, <3>4, <3>5, OffersAccounted DEF WorkloadTypeOK
    <2>10. JobsInOrder'
        <3>1. \A s \in Stream : offered'[s] = offered[s] /\ Given(s)' = Given(s)
            BY <1>w, <2>1, <2>2, OrderFacts DEF WorkloadTypeOK, QueueTypeOK, Given
        <3> QED
            BY <1>1, <2>1, <2>3, <3>1 DEF JobsInOrder
    <2>11. BatchHasJob'
        BY <1>1, <2>1, <2>2, <2>3 DEF BatchHasJob, EstimatorFree, Outstanding, Given
    <2>12. Released' /\ WayOut'
        BY <1>0, <1>1, <2>1 DEF Released, WayOut, Rounds, Due
    <2> QED
        BY <2>3, <2>5, <2>6, <2>7, <2>8, <2>9, <2>10, <2>11, <2>12 DEF WorkloadTypeOK
<1>4. CASE ~Due(next_control)
    BY <1>0, <1>1, <1>4, NextPhase DEF ReleaseControl
<1> QED
    BY <1>2, <1>3, <1>4

LEMMA ReleaseHogsInv ==
    ASSUME WorkloadInv, ReleaseHogs
    PROVE  WorkloadInv'
<1> USE DEF WorkloadInv
<1> DEFINE fed == {h \in Hogs : t < End /\ ~busy[h] /\ queue[h] = <<>>
                                /\ offered[h] < MaxHogJobs}
           one(w) == [id |-> offered[w] + 1, release |-> t]
<1>1. /\ pc = "hogs" /\ pc' = "imu"
      /\ offered' = [w \in Workers |-> IF w \in fed THEN offered[w] + 1 ELSE offered[w]]
      /\ queue' = [w \in Workers |-> IF w \in fed THEN <<one(w)>> ELSE queue[w]]
      /\ UNCHANGED <<graphVars, at, t, unwinding, next_imu, next_camera, next_control,
                     busy, dropped, completed, sharedVars, threadVars, hint, now>>
    BY DEF ReleaseHogs
<1>2. UNCHANGED <<slot, result, stopping, error, tpc, job>>
    BY <1>1 DEF sharedVars, threadVars
<1>3. GraphInv' /\ UNCHANGED <<accounting, last_sequence, running, clock_time>>
    BY <1>1, GraphFrame DEF graphVars
<1>4. \A w \in fed : w \in Workers /\ w \notin StageWorkers /\ queue[w] = <<>> /\ t < End
    BY WorkloadAssumption
<1>5. \A w \in Workers : /\ offered[w] \in Nat /\ dropped[w] \in Nat /\ queue[w] \in Seq(Job)
                         /\ Len(queue[w]) \in Nat /\ Len(queue[w]) <= QueueCapacity
    BY DEF WorkloadTypeOK, QueueTypeOK
<1>6. ASSUME NEW w \in fed PROVE one(w) \in Job
    <2>1. t \in Nat /\ End \in Nat /\ t < End /\ offered[w] \in Nat
        BY <1>4, <1>5, <1>6, WorkloadAssumption DEF WorkloadTypeOK, MainTypeOK
    <2>2. t \in 0 .. End /\ offered[w] + 1 \in Nat \ {0}
        BY <2>1
    <2> QED
        BY <2>2 DEF Job
<1> HIDE DEF fed, one
<1>7. QueueTypeOK'
    <2>1. \A w \in fed : <<one(w)>> \in Seq(Job) /\ Len(<<one(w)>>) = 1
        BY <1>6
    <2>2. queue' \in [Workers -> Seq(Job)]
        BY <1>1, <1>5, <2>1
    <2>3. \A w \in Workers : Len(queue'[w]) <= QueueCapacity
        BY <1>1, <1>5, <2>1, WorkloadAssumption
    <2>4. offered' \in [Workers -> Nat]
        BY <1>1, <1>5
    <2> QED
        BY <1>1, <2>2, <2>3, <2>4 DEF WorkloadTypeOK, QueueTypeOK
<1>8. MainTypeOK' /\ SharedTypeOK' /\ ThreadTypeOK'
    BY <1>1, <1>2 DEF WorkloadTypeOK, MainTypeOK, SharedTypeOK, ThreadTypeOK, Rounds
<1>9. OneJob' /\ HintOfJob'
    BY <1>1, <1>2 DEF OneJob, HintOfJob, Given
<1>10. MainPlace'
    BY <1>1, <1>2 DEF MainPlace, Up, Rounds
<1>11. Accounted'
    <2>1. ASSUME NEW v \in Workers
          PROVE  offered'[v] - dropped'[v] - Len(queue'[v])
                   = offered[v] - dropped[v] - Len(queue[v])
        <3>1. CASE v \in fed
            <4>1. /\ offered'[v] = offered[v] + 1 /\ queue'[v] = <<one(v)>> /\ queue[v] = <<>>
                  /\ dropped'[v] = dropped[v]
                BY <1>1, <1>4, <3>1
            <4>2. PICK o \in Nat, d \in Nat : o = offered[v] /\ d = dropped[v]
                BY <1>5
            <4>3. (o + 1) - d - 1 = o - d - 0
                OBVIOUS
            <4>4. Len(queue'[v]) = 1 /\ Len(queue[v]) = 0
                BY <4>1
            <4> QED
                BY <4>1, <4>2, <4>3, <4>4
        <3>2. CASE v \notin fed
            BY <1>1, <3>2
        <3> QED
            BY <3>1, <3>2
    <2>2. QueueTypeOK
        BY DEF WorkloadTypeOK
    <2>3. \A s \in Stream : accounting'[s].offered = completed'[s]
        BY <1>1, <1>3 DEF Accounted
    <2> QED
        BY <1>1, <1>7, <2>1, <2>2, <2>3, OffersAccounted
<1>12. \A w \in StageWorkers : queue'[w] = queue[w] /\ offered'[w] = offered[w]
    BY <1>1, <1>4, WorkloadAssumption
<1>13. JobsInOrder'
    <2>1. \A s \in Stream : /\ queue'[s] = queue[s] /\ offered'[s] = offered[s]
                            /\ Given(s)' = Given(s)
        BY <1>2, <1>12 DEF Stream, StageWorkers, Given
    <2>2. UNCHANGED <<clock_time, last_sequence, t, now>>
        BY <1>1, <1>3
    <2> QED
        BY <2>1, <2>2 DEF JobsInOrder
<1>14. BatchHasJob'
    <2>1. queue'["estimator"] = queue["estimator"]
        BY <1>12 DEF StageWorkers
    <2> QED
        BY <1>1, <1>2, <1>3, <2>1 DEF BatchHasJob, EstimatorFree, Outstanding, Given
<1>15. Released' /\ WayOut'
    BY <1>1 DEF Released, WayOut, Rounds, Due
<1> QED
    BY <1>3, <1>7, <1>8, <1>9, <1>10, <1>11, <1>13, <1>14, <1>15 DEF WorkloadTypeOK

(***************************************************************************)
(* Steps of main: the estimator's batch.                                   *)
(***************************************************************************)

(* While main is in a round no batch runs exactly when the estimator is      *)
(* free, and select() then starts at most one.                               *)
LEMMA SelectEffect ==
    ASSUME GraphInv, NEW x \in Nat, Select(x), running = NoBatch
    PROVE  /\ GraphInv' /\ clock_time' = x /\ UNCHANGED <<accounting, last_sequence>>
           /\ running' # running =>
                 /\ running' # NoBatch /\ running'.id \in Nat \ {0}
                 /\ running'.inputs[1].source_time \in 0 .. x
<1>1. GraphInv' /\ clock_time' = x /\ UNCHANGED <<accounting, last_sequence>>
    BY SelectInv DEF Select, Advance
<1>2. ASSUME running' # running
      PROVE  /\ running' # NoBatch /\ running'.id \in Nat \ {0}
             /\ running'.inputs[1].source_time \in 0 .. x
    <2>1. PICK pops \in Merges : running' = [id |-> next_batch, inputs |-> Inputs(pops)]
        BY <1>2 DEF Select
    <2>2. BatchSize \in Nat /\ BatchSize # 0
        BY <1>2, BatchSizeType DEF Select, GraphInv
    <2>3. /\ Inputs(pops) \in Seq(Measurement) /\ DOMAIN Inputs(pops) = 1 .. BatchSize
        BY SelectedBatch DEF GraphInv
    <2>4. running' # NoBatch /\ running'.id \in Nat \ {0}
        BY <1>2, <2>1 DEF GraphInv, GraphTypeOK
    <2>5. running'.inputs = Inputs(pops)
        BY <2>1
    <2>6. 1 \in DOMAIN running'.inputs
        BY <2>2, <2>3, <2>5
    <2>7. running'.inputs[1].source_time <= x
        BY <1>1, <2>6 DEF GraphInv, NoFutureSource
    <2>8. running'.inputs[1] \in Measurement
        <3>1. \A f \in Seq(Measurement) : 1 \in DOMAIN f => f[1] \in Measurement
            OBVIOUS
        <3> QED
            BY <2>3, <2>5, <2>6, <3>1, Zenon
    <2>9. running'.inputs[1].source_time \in Nat
        BY <2>8 DEF Measurement
    <2> QED
        BY <2>4, <2>7, <2>9
<1> QED
    BY <1>1, <1>2

LEMMA SelectBatchInv ==
    ASSUME WorkloadInv, SelectBatch
    PROVE  WorkloadInv'
<1> USE DEF WorkloadInv
<1>1. /\ pc = "select" /\ pc' = "dispatch"
      /\ UNCHANGED <<at, t, unwinding, next_imu, next_camera, next_control, busy,
                     completed, sharedVars, threadVars, hint, now>>
    BY DEF SelectBatch
<1>2. UNCHANGED <<slot, result, stopping, error, tpc, job>>
    BY <1>1 DEF sharedVars, threadVars
<1>3. MainTypeOK' /\ SharedTypeOK' /\ ThreadTypeOK'
    BY <1>1, <1>2 DEF WorkloadTypeOK, MainTypeOK, SharedTypeOK, ThreadTypeOK, Rounds
<1>4. OneJob' /\ HintOfJob'
    BY <1>1, <1>2 DEF OneJob, HintOfJob, Given
<1>5. MainPlace'
    BY <1>1, <1>2 DEF MainPlace, Up, Rounds
<1>6. Released' /\ WayOut'
    BY <1>1 DEF Released, WayOut, Rounds, Due
<1>7. \A w \in Workers : Given(w)' = Given(w)
    BY <1>2 DEF Given
<1>8. QueueTypeOK /\ now \in Nat /\ now \in 0 .. End /\ Stream \subseteq Workers
    BY OrderFacts, WorkloadAssumption DEF WorkloadTypeOK, MainTypeOK
<1>9. QueueTypeOK' /\ GraphInv' /\ Accounted' /\ JobsInOrder' /\ BatchHasJob'
    <2>1. CASE ~EstimatorFree
        <3>1. UNCHANGED graphVars /\ UNCHANGED queueVars
            BY <1>1, <2>1 DEF SelectBatch, NoOffer, queueVars
        <3> QED
            BY <1>1, <1>2, <3>1, JobFrame
    <2>2. CASE EstimatorFree
        <3>1. running = NoBatch
            BY <2>2 DEF BatchHasJob, EstimatorFree, Outstanding
        <3>2. Select(now)
            BY <2>2 DEF SelectBatch
        <3>3. /\ GraphInv' /\ clock_time' = now /\ UNCHANGED <<accounting, last_sequence>>
              /\ running' # running =>
                    /\ running' # NoBatch /\ running'.id \in Nat \ {0}
                    /\ running'.inputs[1].source_time \in 0 .. now
            BY <1>8, <3>1, <3>2, SelectEffect
        <3>4. CASE running' = running
            <4>1. UNCHANGED <<offered, dropped, queue>>
                BY <2>2, <3>4 DEF SelectBatch, NoOffer
            <4>2. QueueTypeOK' /\ Accounted'
                BY <1>1, <1>8, <3>3, <4>1 DEF QueueTypeOK, Accounted
            <4>3. clock_time' <= now' /\ t' <= now'
                BY <1>1, <1>8, <3>3 DEF JobsInOrder
            <4>4. JobsInOrder'
                BY <1>1, <1>7, <1>8, <3>3, <4>1, <4>3 DEF JobsInOrder
            <4>5. BatchHasJob'
                BY <1>1, <2>2, <3>1, <3>4, <4>1 DEF BatchHasJob, EstimatorFree, Outstanding
            <4> QED
                BY <3>3, <4>2, <4>4, <4>5
        <3>5. CASE running' # running
            <4> DEFINE j == [id |-> running'.id, release |-> running'.inputs[1].source_time]
            <4>1. WorkerOffer("estimator", j) /\ "estimator" \in Workers
                  /\ "estimator" \notin Stream
                BY <2>2, <3>5, OrderFacts DEF SelectBatch, Stream
            <4>2. j \in Job /\ j.id = running'.id
                <5>1. running'.inputs[1].source_time \in 0 .. End
                    BY <1>8, <3>3, <3>5, WorkloadAssumption
                <5> QED
                    BY <3>3, <3>5, <5>1 DEF Job
            <4> HIDE DEF j
            <4>3. /\ queue' \in [Workers -> Seq(Job)]
                  /\ offered' \in [Workers -> Nat] /\ dropped' \in [Workers -> Nat]
                  /\ \A v \in Workers : Len(queue'[v]) <= QueueCapacity
                  /\ \A v \in Workers : offered'[v] - dropped'[v] - Len(queue'[v])
                                           = offered[v] - dropped[v] - Len(queue[v])
                  /\ queue'["estimator"] = IF QueueFull("estimator") THEN queue["estimator"]
                                           ELSE Append(queue["estimator"], j)
                BY <1>8, <4>1, <4>2, OfferQueue
            <4>4. QueueTypeOK'
                BY <1>1, <1>8, <4>3 DEF QueueTypeOK
            <4>5. Accounted'
                <5>1. \A s \in Stream : accounting'[s].offered = completed'[s]
                    BY <1>1, <3>3 DEF Accounted
                <5> QED
                    BY <1>1, <1>8, <4>3, <4>4, <5>1, OffersAccounted
            <4>6. JobsInOrder'
                <5>1. \A s \in Stream : Given(s)' = Given(s)
                    BY <1>7, <1>8
                <5>2. clock_time' <= now /\ t' <= now
                    BY <1>1, <1>8, <3>3 DEF JobsInOrder
                <5> QED
                    BY <1>1, <3>3, <4>1, <4>2, <5>1, <5>2, OfferOrder
            <4>7. BatchHasJob'
                <5>1. queue["estimator"] = <<>> /\ ~busy["estimator"]
                    BY <2>2 DEF EstimatorFree, Outstanding
                <5>2. ~QueueFull("estimator")
                    BY <5>1, WorkloadAssumption DEF QueueFull
                <5>3. queue'["estimator"] = Append(<<>>, j)
                    BY <4>3, <5>1, <5>2
                <5>4. Len(queue'["estimator"]) = 1 /\ queue'["estimator"][1] = j
                    BY <5>3
                <5> QED
                    BY <1>1, <3>3, <3>5, <4>2, <5>1, <5>4 DEF BatchHasJob
            <4> QED
                BY <3>3, <4>4, <4>5, <4>6, <4>7
        <3> QED
            BY <3>4, <3>5
    <2> QED
        BY <2>1, <2>2
<1> QED
    BY <1>3, <1>4, <1>5, <1>6, <1>9 DEF WorkloadTypeOK

(***************************************************************************)
(* Steps of main: collect() and the completion callbacks.                  *)
(***************************************************************************)

(* The graph accepts what the callback of a finished job passes to it.      *)
LEMMA CallbackHolds ==
    ASSUME WorkloadInv, NEW w \in Workers, result[w] # None
    PROVE  CallbackAllowed(w, result[w])
<1> USE DEF WorkloadInv
<1>1. result[w] \in Given(w) /\ busy[w]
    BY DEF Given, OneJob
<1>2. clock_time \in Nat /\ now \in Nat /\ now >= clock_time
    BY WorkloadAssumption
    DEF GraphInv, GraphTypeOK, JobsInOrder, WorkloadTypeOK, MainTypeOK
<1>3. CASE w \in Stream
    <2>1. /\ last_sequence[w] < result[w].id /\ result[w].release <= now
          /\ result[w].id \in Nat /\ last_sequence[w] \in Int
        BY <1>1, <1>3, JobTypes DEF JobsInOrder, GraphInv, GraphTypeOK
    <2>2. result[w].id > last_sequence[w]
        BY <2>1
    <2>3. w # "estimator"
        BY <1>3 DEF Stream
    <2>4. Accepts(Measured(w, result[w]), now)
        BY <2>1, <2>2 DEF Accepts, Measured
    <2> QED
        BY <1>2, <1>3, <2>3, <2>4 DEF CallbackAllowed
<1>4. CASE w = "estimator"
    <2>1. running # NoBatch /\ running.id = result[w].id
        BY <1>1, <1>4 DEF BatchHasJob, EstimatorFree, Outstanding
    <2> QED
        BY <1>2, <1>4, <2>1 DEF CallbackAllowed, Stream
<1> QED
    BY <1>3, <1>4 DEF CallbackAllowed

(* What the callback does to the graph and the queues.  At most the mapping  *)
(* worker is offered a job.                                                  *)
LEMMA CallbackEffect ==
    ASSUME WorkloadInv, NEW w \in Workers, NEW r \in Job, r = result[w], Callback(w, r)
    PROVE  /\ GraphInv' /\ clock_time' <= now
           /\ last_sequence' = IF w \in Stream THEN [last_sequence EXCEPT ![w] = r.id]
                               ELSE last_sequence
           /\ \A s \in Stream : accounting'[s].offered
                 = accounting[s].offered + (IF s = w THEN 1 ELSE 0)
           /\ running' = IF w = "estimator" THEN NoBatch ELSE running
           /\ NoOffer \/ (w = "estimator" /\ \E j \in Job : WorkerOffer("mapping", j))
<1> USE DEF WorkloadInv
<1>1. /\ GraphInv /\ now \in Nat /\ clock_time \in Nat /\ clock_time <= now /\ now \in 0 .. End
      /\ GraphTypeOK
    BY WorkloadAssumption
    DEF GraphInv, GraphTypeOK, JobsInOrder, WorkloadTypeOK, MainTypeOK
<1>2. \A s \in Stream : accounting[s] \in Counts /\ accounting[s].offered \in Nat
    BY <1>1 DEF GraphTypeOK, Counts
<1>3. r.id \in Nat \ {0} /\ r.release \in Nat
    BY WorkloadAssumption DEF Job
<1>4. CASE w \in Stream
    <2>0. w # "estimator"
        BY <1>4 DEF Stream
    <2>1. Offer(Measured(w, r), now) /\ NoOffer
        BY <1>4, <2>0 DEF Callback
    <2>2. /\ Measured(w, r) \in Measurement /\ Measured(w, r).stream = w
          /\ Measured(w, r).sequence = r.id
        BY <1>3, <1>4 DEF Measured, Measurement
    <2>3. GraphInv'
        BY <1>1, <2>1, <2>2, OfferInv
    <2>4. /\ clock_time' = now /\ running' = running
          /\ last_sequence' = [last_sequence EXCEPT ![w] = r.id]
          /\ accounting' = [accounting EXCEPT ![w] = CountOffer(@, IsFull(w))]
        BY <2>1, <2>2 DEF Offer, Advance
    <2>5. CountOffer(accounting[w], IsFull(w)).offered = accounting[w].offered + 1
        BY DEF CountOffer
    <2>6. \A s \in Stream : accounting'[s].offered
             = accounting[s].offered + (IF s = w THEN 1 ELSE 0)
        <3>1. accounting \in [Stream -> Counts]
            BY <1>1 DEF GraphTypeOK
        <3>2. accounting'[w] = CountOffer(accounting[w], IsFull(w))
            BY <1>4, <2>4, <3>1
        <3>3. \A s \in Stream : s # w => accounting'[s] = accounting[s]
            BY <2>4, <3>1
        <3> QED
            BY <1>2, <2>5, <3>2, <3>3
    <2> QED
        BY <1>1, <1>4, <2>0, <2>1, <2>3, <2>4, <2>6
<1>5. CASE w = "estimator"
    <2>1. w \notin Stream
        BY <1>5 DEF Stream
    <2>2. /\ Complete(r.id, now)
          /\ IF InFlight("camera") = 0 THEN NoOffer
             ELSE WorkerOffer("mapping", [id |-> r.id, release |-> Newest("camera").source_time])
        BY <1>5, <2>1 DEF Callback
    <2>3. GraphInv'
        BY <1>1, <2>2, CompleteInv
    <2>4. /\ clock_time' = now /\ running' = NoBatch /\ last_sequence' = last_sequence
          /\ \A s \in Stream : accounting'[s].offered = accounting[s].offered
        BY <2>2 DEF Complete, Advance
    <2>5. ASSUME InFlight("camera") # 0
          PROVE  \E j \in Job : WorkerOffer("mapping", j)
        <3>1. Newest("camera").source_time \in Nat /\ Newest("camera").source_time <= clock_time
            BY <1>1, <2>5, NewestInFlight, NewestAdvances DEF Stream
        <3>2. Newest("camera").source_time \in 0 .. End
            BY <1>1, <3>1, WorkloadAssumption
        <3>3. [id |-> r.id, release |-> Newest("camera").source_time] \in Job
            BY <1>3, <3>2 DEF Job
        <3> QED
            BY <2>2, <2>5, <3>3
    <2>6. NoOffer \/ \E j \in Job : WorkerOffer("mapping", j)
        BY <2>2, <2>5
    <2>7. \A s \in Stream : accounting'[s].offered
             = accounting[s].offered + (IF s = w THEN 1 ELSE 0)
        BY <1>2, <2>1, <2>4
    <2>8. clock_time' <= now
        BY <1>1, <2>4
    <2> QED
        BY <1>5, <2>1, <2>3, <2>4, <2>6, <2>7, <2>8
<1>6. CASE w \notin Stream \cup {"estimator"}
    <2>1. UNCHANGED graphVars /\ NoOffer
        BY <1>6 DEF Callback
    <2>2. GraphInv' /\ UNCHANGED <<clock_time, last_sequence, accounting, running>>
        BY <1>1, <2>1, GraphFrame DEF graphVars
    <2> QED
        BY <1>1, <1>2, <1>6, <2>1, <2>2
<1> QED
    BY <1>4, <1>5, <1>6

(* A worker that has finished its job: the collected result was its only    *)
(* job, and the job was in order.                                           *)
LEMMA CollectJob ==
    ASSUME WorkloadInv, NEW h \in Workers, result[h] # None, Callback(h, result[h]),
           busy' = [busy EXCEPT ![h] = FALSE],
           completed' = [completed EXCEPT ![h] = @ + 1],
           result' = [result EXCEPT ![h] = None],
           UNCHANGED <<slot, job, tpc, hint, now>>, t' <= now
    PROVE  /\ OneJob' /\ HintOfJob' /\ result' \in [Workers -> Job \cup {None}]
           /\ QueueTypeOK' /\ GraphInv' /\ Accounted' /\ JobsInOrder' /\ BatchHasJob'
<1> USE DEF WorkloadInv
<1>1. /\ slot[h] = None /\ job[h] = None /\ busy[h] /\ result[h] \in Given(h)
    BY DEF OneJob, Given
<1>2. /\ result \in [Workers -> Job \cup {None}] /\ busy \in [Workers -> BOOLEAN]
      /\ completed \in [Workers -> Nat] /\ QueueTypeOK
    BY DEF WorkloadTypeOK, SharedTypeOK, QueueTypeOK
<1>3. /\ result'[h] = None /\ ~busy'[h] /\ completed'[h] = completed[h] + 1
      /\ \A v \in Workers : v # h => /\ result'[v] = result[v] /\ busy'[v] = busy[v]
                                     /\ completed'[v] = completed[v]
      /\ result' \in [Workers -> Job \cup {None}] /\ busy' \in [Workers -> BOOLEAN]
      /\ completed' \in [Workers -> Nat]
    BY <1>2
<1>4. Given(h)' = {} /\ \A v \in Workers : v # h => Given(v)' = Given(v)
    BY <1>1, <1>3 DEF Given
<1>5. OneJob' /\ HintOfJob'
    BY <1>1, <1>3, <1>4 DEF OneJob, HintOfJob
<1>6. PICK r \in Job : r = result[h]
    BY <1>2
<1>7. /\ GraphInv' /\ clock_time' <= now
      /\ last_sequence' = IF h \in Stream THEN [last_sequence EXCEPT ![h] = r.id]
                          ELSE last_sequence
      /\ \A s \in Stream : accounting'[s].offered
            = accounting[s].offered + (IF s = h THEN 1 ELSE 0)
      /\ running' = IF h = "estimator" THEN NoBatch ELSE running
      /\ NoOffer \/ (h = "estimator" /\ \E j \in Job : WorkerOffer("mapping", j))
    BY <1>6, CallbackEffect
<1>8. /\ Stream \subseteq Workers /\ "estimator" \in Workers /\ "mapping" \in Workers
      /\ "mapping" \notin Stream /\ "estimator" \notin Stream
    BY OrderFacts DEF Stream
<1>9. QueueTypeOK' /\ \A v \in Workers : offered'[v] - dropped'[v] - Len(queue'[v])
                                            = offered[v] - dropped[v] - Len(queue[v])
    <2>1. CASE NoOffer
        BY <1>2, <1>3, <2>1 DEF QueueTypeOK, NoOffer
    <2>2. CASE \E j \in Job : WorkerOffer("mapping", j)
        <3>1. PICK j \in Job : WorkerOffer("mapping", j)
            BY <2>2
        <3>2. /\ queue' \in [Workers -> Seq(Job)]
              /\ offered' \in [Workers -> Nat] /\ dropped' \in [Workers -> Nat]
              /\ \A v \in Workers : Len(queue'[v]) <= QueueCapacity
              /\ \A v \in Workers : offered'[v] - dropped'[v] - Len(queue'[v])
                                       = offered[v] - dropped[v] - Len(queue[v])
            BY <1>2, <1>8, <3>1, OfferQueue
        <3> QED
            BY <1>3, <3>2 DEF QueueTypeOK
    <2> QED
        BY <1>7, <2>1, <2>2
<1>10. Accounted'
    <2>1. \A v \in Workers : completed'[v] + (IF busy'[v] THEN 1 ELSE 0)
                               = completed[v] + (IF busy[v] THEN 1 ELSE 0)
        <3> TAKE v \in Workers
        <3>1. CASE v = h
            BY <1>1, <1>2, <1>3, <3>1
        <3>2. CASE v # h
            BY <1>3, <3>2
        <3> QED
            BY <3>1, <3>2
    <2>2. \A s \in Stream : accounting'[s].offered = completed'[s]
        BY <1>2, <1>3, <1>7, <1>8 DEF Accounted
    <2> QED
        BY <1>2, <1>9, <2>1, <2>2, OffersAccounted
<1>11. JobsInOrder'
    <2>1. CASE h \in Stream
        <3>1. NoOffer
            BY <1>7, <1>8, <2>1
        <3>2. UNCHANGED <<queue, offered, now>> /\ clock_time' <= now' /\ t' <= now'
            BY <1>7, <3>1 DEF NoOffer
        <3>3. last_sequence'[h] = r.id /\ \A s \in Stream : s # h =>
                 last_sequence'[s] = last_sequence[s] /\ Given(s)' = Given(s)
            BY <1>4, <1>7, <1>8, <2>1 DEF GraphInv, GraphTypeOK
        <3>4. r.id <= offered[h] /\ \A k \in DOMAIN queue[h] : r.id < queue[h][k].id
            BY <1>1, <1>6, <2>1 DEF JobsInOrder
        <3> SUFFICES ASSUME NEW s \in Stream
                     PROVE  /\ last_sequence'[s] <= offered[s]
                            /\ \A g \in Given(s)' :
                                  /\ last_sequence'[s] < g.id /\ g.id <= offered[s]
                                  /\ g.release <= now
                                  /\ \A k \in DOMAIN queue[s] : g.id < queue[s][k].id
                            /\ \A k \in DOMAIN queue[s] :
                                  /\ last_sequence'[s] < queue[s][k].id
                                  /\ queue[s][k].id <= offered[s] /\ queue[s][k].release <= now
                                  /\ \A i \in 1 .. k - 1 : queue[s][i].id < queue[s][k].id
            BY <3>2 DEF JobsInOrder
        <3>5. CASE s = h
            BY <1>4, <3>3, <3>4, <3>5 DEF JobsInOrder
        <3>6. CASE s # h
            BY <3>3, <3>6 DEF JobsInOrder
        <3> QED
            BY <3>5, <3>6
    <2>2. CASE h \notin Stream
        <3>1. last_sequence' = last_sequence /\ \A s \in Stream : Given(s)' = Given(s)
            BY <1>4, <1>7, <1>8, <2>2
        <3>2. CASE NoOffer
            <4>1. UNCHANGED <<queue, offered, now>> /\ clock_time' <= now' /\ t' <= now'
                BY <1>7, <3>2 DEF NoOffer
            <4> QED
                BY <3>1, <4>1 DEF JobsInOrder
        <3>3. CASE \E j \in Job : WorkerOffer("mapping", j)
            BY <1>7, <1>8, <3>1, <3>3, OfferOrder
        <3> QED
            BY <1>7, <3>2, <3>3
    <2> QED
        BY <2>1, <2>2
<1>12. queue'["estimator"] = queue["estimator"]
    <2>1. CASE NoOffer
        BY <2>1 DEF NoOffer
    <2>2. CASE \E j \in Job : WorkerOffer("mapping", j)
        BY <1>2, <1>8, <2>2, OfferQueue
    <2> QED
        BY <1>7, <2>1, <2>2
<1>13. BatchHasJob'
    <2>1. CASE h = "estimator"
        <3>1. running' = NoBatch /\ queue["estimator"] = <<>> /\ ~busy'["estimator"]
            BY <1>1, <1>3, <1>7, <2>1 DEF BatchHasJob, EstimatorFree, Outstanding
        <3> QED
            BY <1>12, <3>1 DEF BatchHasJob, EstimatorFree, Outstanding
    <2>2. CASE h # "estimator"
        <3>1. /\ running' = running /\ busy'["estimator"] = busy["estimator"]
              /\ Given("estimator")' = Given("estimator")
            BY <1>3, <1>4, <1>7, <1>8, <2>2
        <3> QED
            BY <1>12, <3>1 DEF BatchHasJob, EstimatorFree, Outstanding
    <2> QED
        BY <2>1, <2>2
<1> QED
    BY <1>3, <1>5, <1>7, <1>9, <1>10, <1>11, <1>13

LEMMA CollectInv ==
    ASSUME WorkloadInv, Collect
    PROVE  WorkloadInv'
<1> USE DEF WorkloadInv
<1>0. PICK h : h = Here
    OBVIOUS
<1>1. pc = "collect" /\ at \in DOMAIN Order /\ h \in Workers /\ ~error[h]
      /\ \A w \in Workers : Up(w)
    <2>1. pc = "collect"
        BY DEF Collect
    <2>2. at \in DOMAIN Order /\ \A w \in Workers : Up(w)
        BY <2>1 DEF MainPlace, Rounds
    <2>3. h \in Workers
        BY <1>0, <2>2, OrderWorkers DEF Here
    <2> QED
        BY <2>1, <2>2, <2>3 DEF Up
<1>2. result[h] # None => CallbackAllowed(h, result[h])
    BY <1>1, CallbackHolds
<1>3. /\ Proceed("hogs") /\ unwinding' = unwinding
      /\ IF result[h] = None THEN UNCHANGED graphVars /\ NoOffer ELSE Callback(h, result[h])
      /\ IF result[h] # None
         THEN /\ busy' = [busy EXCEPT ![h] = FALSE]
              /\ completed' = [completed EXCEPT ![h] = @ + 1]
              /\ result' = [result EXCEPT ![h] = None]
         ELSE UNCHANGED <<busy, completed, result>>
      /\ t' = (IF AtEnd THEN now ELSE t)
      /\ UNCHANGED <<next_imu, next_camera, next_control, slot, stopping, error,
                     threadVars, hint, now>>
    BY <1>0, <1>1, <1>2 DEF Collect
<1>4. UNCHANGED <<tpc, job>>
    BY <1>3 DEF threadVars
<1>5. now \in Nat /\ t \in Nat /\ t <= now /\ t' \in Nat /\ t' <= now
    BY <1>3, WorkloadAssumption DEF JobsInOrder, WorkloadTypeOK, MainTypeOK
<1>6. /\ pc' \in {"collect", "hogs"} /\ at' \in Nat /\ at' >= 1 /\ at' <= Len(Order)
    BY <1>1, <1>3, OrderLen DEF Proceed, AtEnd
<1>7. MainTypeOK'
    BY <1>3, <1>5, <1>6, OrderLen DEF WorkloadTypeOK, MainTypeOK, Rounds
<1>8. ThreadTypeOK'
    BY <1>3, <1>4 DEF WorkloadTypeOK, ThreadTypeOK
<1>9. MainPlace'
    <2>1. \A w \in Workers : Up(w)'
        BY <1>1, <1>3, <1>4 DEF Up
    <2>2. at' \in DOMAIN Order
        BY <1>6, OrderLen
    <2> QED
        BY <1>6, <2>1, <2>2 DEF MainPlace
<1>10. Released' /\ WayOut'
    BY <1>6 DEF Released, WayOut, Rounds
<1>11. /\ OneJob' /\ HintOfJob' /\ SharedTypeOK'
       /\ QueueTypeOK' /\ GraphInv' /\ Accounted' /\ JobsInOrder' /\ BatchHasJob'
    <2>1. CASE result[h] = None
        <3>1. UNCHANGED <<graphVars, queueVars, slot, result, stopping, error, job, now, tpc, hint>>
            BY <1>3, <1>4, <2>1 DEF NoOffer, queueVars
        <3>2. OneJob' /\ HintOfJob' /\ SharedTypeOK'
            BY <3>1 DEF OneJob, HintOfJob, Given, WorkloadTypeOK, SharedTypeOK, queueVars
        <3>3. UNCHANGED <<queue, busy, offered, dropped, completed, accounting, last_sequence,
                          running, clock_time>>
            BY <3>1 DEF queueVars, graphVars
        <3>4. GraphInv'
            BY <3>1, GraphFrame
        <3>5. QueueTypeOK' /\ Accounted'
            BY <3>3 DEF WorkloadTypeOK, QueueTypeOK, Accounted
        <3>6. BatchHasJob' /\ \A w \in Workers : Given(w)' = Given(w)
            BY <3>1, <3>3 DEF BatchHasJob, EstimatorFree, Outstanding, Given
        <3>7. clock_time' <= now' /\ t' <= now' /\ now' = now
            BY <1>5, <3>1, <3>3 DEF JobsInOrder
        <3>8. JobsInOrder'
            BY <3>3, <3>6, <3>7, OrderFacts DEF JobsInOrder
        <3> QED
            BY <3>2, <3>4, <3>5, <3>6, <3>8
    <2>2. CASE result[h] # None
        <3>1. /\ OneJob' /\ HintOfJob' /\ result' \in [Workers -> Job \cup {None}]
              /\ QueueTypeOK' /\ GraphInv' /\ Accounted' /\ JobsInOrder' /\ BatchHasJob'
            BY <1>1, <1>3, <1>4, <1>5, <2>2, CollectJob
        <3>2. SharedTypeOK'
            BY <1>3, <3>1 DEF WorkloadTypeOK, SharedTypeOK
        <3> QED
            BY <3>1, <3>2
    <2> QED
        BY <2>1, <2>2
<1> QED
    BY <1>7, <1>8, <1>9, <1>10, <1>11 DEF WorkloadTypeOK

(***************************************************************************)
(* The invariant.                                                          *)
(***************************************************************************)
LEMMA WorkloadInvInit == Init => WorkloadInv
<1> SUFFICES ASSUME Init PROVE WorkloadInv
    OBVIOUS
<1> USE DEF Init, Each
<1>1. GraphInv
    BY GraphInvInit
<1>2. WorkloadTypeOK
    <2>1. MainTypeOK
        <3>1. End \in Nat /\ 0 \in 0 .. End
            BY WorkloadAssumption
        <3>2. 1 \in 0 .. Len(Order) + 1
            BY OrderLen
        <3> QED
            BY <3>1, <3>2 DEF MainTypeOK
    <2>2. QueueTypeOK
        <3>1. <<>> \in Seq(Job) /\ Len(<<>>) = 0
            BY EmptySeq
        <3>2. \A w \in Workers : Len(queue[w]) <= QueueCapacity
            BY <3>1, WorkloadAssumption
        <3> QED
            BY <3>1, <3>2 DEF QueueTypeOK
    <2>3. SharedTypeOK /\ ThreadTypeOK
        BY DEF SharedTypeOK, ThreadTypeOK
    <2> QED
        BY <2>1, <2>2, <2>3 DEF WorkloadTypeOK
<1>3. \A w \in Workers : /\ Given(w) = {} /\ ~busy[w] /\ queue[w] = <<>> /\ tpc[w] = "none"
                         /\ ~stopping[w] /\ slot[w] = None /\ job[w] = None /\ result[w] = None
    BY DEF Given
<1>4. OneJob /\ HintOfJob
    BY <1>3 DEF OneJob, HintOfJob
<1>5. MainPlace
    BY <1>3, OrderFacts DEF MainPlace, Here, Rounds
<1>6. Accounted
    <2>1. \A s \in Stream : accounting[s].offered = 0
        BY DEF GraphInit
    <2>2. Len(<<>>) = 0
        OBVIOUS
    <2>3. \A w \in Workers : /\ offered[w] = 0 /\ completed[w] = 0 /\ dropped[w] = 0
                             /\ Len(queue[w]) = 0
        BY <2>2
    <2> QED
        BY SMTT(30), <1>3, <2>1, <2>3, OrderFacts DEF Accounted
<1>7. JobsInOrder
    <2>1. \A s \in Stream : last_sequence[s] = -1 /\ offered[s] = 0 /\ queue[s] = <<>>
                            /\ Given(s) = {}
        BY <1>3, OrderFacts DEF GraphInit
    <2>2. clock_time = 0
        BY DEF GraphInit
    <2> QED
        BY <2>1, <2>2 DEF JobsInOrder
<1>8. BatchHasJob
    BY <1>3, OrderFacts DEF BatchHasJob, EstimatorFree, Outstanding, GraphInit
<1>9. Released /\ WayOut
    BY DEF Released, WayOut, Rounds
<1> QED
    BY <1>1, <1>2, <1>4, <1>5, <1>6, <1>7, <1>8, <1>9 DEF WorkloadInv

LEMMA WorkloadInvStutter ==
    ASSUME WorkloadInv, UNCHANGED vars
    PROVE  WorkloadInv'
<1> USE DEF WorkloadInv
<1>1. UNCHANGED <<graphVars, queueVars, slot, result, stopping, error, tpc, job, hint, now,
                  pc, at, t, unwinding, next_imu, next_camera, next_control, queue, busy>>
    BY DEF vars, mainVars, queueVars, sharedVars, threadVars
<1>2. GraphInv' /\ Accounted' /\ JobsInOrder' /\ BatchHasJob' /\ QueueTypeOK'
    BY <1>1, JobFrame
<1>3. MainTypeOK' /\ SharedTypeOK' /\ ThreadTypeOK'
    BY <1>1 DEF WorkloadTypeOK, MainTypeOK, SharedTypeOK, ThreadTypeOK
<1>4. OneJob' /\ HintOfJob'
    BY <1>1 DEF OneJob, HintOfJob, Given
<1>5. inbox' = inbox
    BY <1>1 DEF graphVars
<1>6. MainPlace' /\ Released'
    BY <1>1 DEF MainPlace, Released, Up, Due, Here, Dispatchable
<1>7. WayOut'
    BY <1>1, <1>5 DEF WayOut, Drained, Outstanding
<1> QED
    BY <1>2, <1>3, <1>4, <1>6, <1>7 DEF WorkloadTypeOK

LEMMA WorkloadInvNext == WorkloadInv /\ [Next]_vars => WorkloadInv'
<1> SUFFICES ASSUME WorkloadInv, [Next]_vars PROVE WorkloadInv'
    OBVIOUS
<1>1. ASSUME NEW w \in Workers, Thread(w) PROVE WorkloadInv'
    BY <1>1, EnrollInv, JobStepInv, StopThreadInv, LeaveThreadInv DEF Thread
<1>2. CASE Main
    <2>1. CASE Construct \/ Constructed \/ Finish \/ JoinThread \/ Exit
        BY <2>1, ConstructInv, ConstructedInv, FinishInv, JoinThreadInv, ExitInv
    <2>2. CASE Collect \/ ReleaseHogs \/ ReleaseImu \/ ReleaseCamera \/ ReleaseControl
        BY <2>2, CollectInv, ReleaseHogsInv, ReleaseImuInv, ReleaseCameraInv, ReleaseControlInv
    <2>3. CASE SelectBatch \/ PublishHint \/ HandOff \/ ExitTest
        BY <2>3, SelectBatchInv, PublishHintInv, HandOffInv, ExitTestInv
    <2> QED
        BY <1>2, <2>1, <2>2, <2>3 DEF Main
<1>3. CASE Tick
    BY <1>3, TickInv
<1>4. CASE Terminated \/ UNCHANGED vars
    BY <1>4, WorkloadInvStutter DEF Terminated
<1> QED
    BY <1>1, <1>2, <1>3, <1>4 DEF Next

(* The inductive invariant of the whole program: whatever the interleaving   *)
(* of main, the threads and the clock, and whichever calls fail.             *)
THEOREM WorkloadInvariance == Spec => []WorkloadInv
<1>1. Init => WorkloadInv
    BY WorkloadInvInit
<1>2. WorkloadInv /\ [Next]_vars => WorkloadInv'
    BY WorkloadInvNext
<1> QED
    BY <1>1, <1>2, PTL DEF Spec

(***************************************************************************)
(* What it implies.                                                        *)
(***************************************************************************)

(* A worker has at most one job, and unless its thread is gone the kernel    *)
(* reads the hint of that job.                                               *)
LEMMA AtMostOneJob ==
    ASSUME WorkloadInv, NEW w \in Workers, NEW j \in Given(w)
    PROVE  /\ Given(w) = {j} /\ j \in Job
           /\ tpc[w] # "exited" => hint[w] = j
<1>1. Given(w) = {j}
    BY DEF WorkloadInv, OneJob, Given
<1>2. j \in Job
    BY JobTypes DEF WorkloadInv
<1>3. tpc[w] # "exited" => hint[w] = j
    BY DEF WorkloadInv, HintOfJob
<1> QED
    BY <1>1, <1>2, <1>3

(* The hint the kernel reads is that of the job the worker has, from the     *)
(* handoff until main collects it or the thread is gone.                     *)
THEOREM JobOwnsHintHolds == Spec => []JobOwnsHint
<1>1. WorkloadInv => JobOwnsHint
    <2> SUFFICES ASSUME WorkloadInv, NEW w \in Workers, tpc[w] # "exited", NEW j \in Given(w)
                 PROVE  hint[w] = j /\ Cardinality(Given(w)) = 1
        BY DEF JobOwnsHint
    <2>1. Given(w) = {j} /\ hint[w] = j
        BY AtMostOneJob
    <2>2. Cardinality({j}) = 1
        BY FS_Singleton
    <2> QED
        BY <2>1, <2>2
<1> QED
    BY <1>1, WorkloadInvariance, PTL

(* The graph never throws out of a completion callback.                      *)
THEOREM CallbacksAllowedHolds == Spec => []CallbacksAllowed
<1>1. WorkloadInv => CallbacksAllowed
    BY CallbackHolds DEF CallbacksAllowed
<1> QED
    BY <1>1, WorkloadInvariance, PTL

(* A normal exit leaves nothing behind and loses nothing.                    *)
THEOREM CleanExitHolds == Spec => []CleanExit
<1>1. WorkloadInv => CleanExit
    <2> SUFFICES ASSUME WorkloadInv, pc = "exited" PROVE CleanExit
        BY DEF CleanExit
    <2> USE DEF WorkloadInv
    <2>1. /\ at = Len(Order) + 1 /\ Drained /\ \A w \in Workers : ~error[w]
          /\ next_imu >= End /\ next_camera >= End /\ next_control >= End
          /\ \A i \in DOMAIN Order : i < at =>
                tpc[Order[i]] = "exited" /\ (error[Order[i]] \/ hint[Order[i]] = Clear)
        BY DEF WayOut
    <2>2. \A i \in DOMAIN Order : i < at
        BY <2>1, OrderLen
    <2>3. \A w \in Workers : tpc[w] = "exited" /\ hint[w] = Clear
        BY <2>1, <2>2, OrderWorkers
    <2>4. \A w \in Workers : ~busy[w] /\ queue[w] = <<>>
        BY <2>1 DEF Drained, Outstanding
    <2>5. \A w \in Workers : offered[w] = completed[w] + dropped[w]
        <3> TAKE w \in Workers
        <3>1. completed[w] \in Nat /\ dropped[w] \in Nat /\ Len(queue[w]) = 0 /\ ~busy[w]
            BY <2>4 DEF WorkloadTypeOK, QueueTypeOK
        <3>2. offered[w] = completed[w] + dropped[w] + 0 + 0
            BY <3>1 DEF Accounted
        <3> QED
            BY <3>1, <3>2
    <2>6. running = NoBatch
        BY <2>4, OrderFacts DEF BatchHasJob
    <2>7. \A s \in Stream : accounting[s].offered = completed[s]
        BY DEF Accounted
    <2>8. \A s \in Stream : accounting[s].offered
                              = accounting[s].consumed + accounting[s].dropped
        <3> TAKE s \in Stream
        <3>1. InFlight(s) = 0
            <4>1. running.inputs = <<>>
                BY <2>6 DEF NoBatch
            <4>2. {k \in DOMAIN running.inputs : running.inputs[k].stream = s} = {}
                BY <4>1
            <4> QED
                BY <4>2, FS_EmptySet DEF InFlight
        <3>2. Len(inbox[s]) = 0
            BY <2>1 DEF Drained
        <3>3. accounting[s] \in Counts
            BY DEF GraphInv, GraphTypeOK
        <3>4. accounting[s].dropped \in Nat /\ accounting[s].consumed \in Nat
            BY <3>3 DEF Counts
        <3>5. accounting[s].offered = accounting[s].dropped + accounting[s].consumed + 0 + 0
            BY <3>1, <3>2 DEF GraphInv, Conserved
        <3> QED
            BY <3>4, <3>5
    <2> QED
        BY <2>1, <2>3, <2>5, <2>6, <2>7, <2>8 DEF CleanExit
<1> QED
    BY <1>1, WorkloadInvariance, PTL

(***************************************************************************)
(* The ownership contract of the hint map.                                 *)
(***************************************************************************)
\* The thread leaves or has left: whatever it had is nobody's any more.
Gone(w) == tpc[w] \in {"leave", "exited"}

(* The four kinds of steps the contract allows.                             *)
LEMMA ContractKinds ==
    ASSUME NEW w \in Workers,
           \/ hint'[w] = hint[w] /\ OwnedBy(w)' = OwnedBy(w)
           \/ /\ OwnedBy(w) = None /\ OwnedBy(w)' = None
              /\ hint'[w] \in Job \cup {Clear, hint[w]}
           \/ OwnedBy(w)' = None /\ hint'[w] = hint[w]
           \/ /\ OwnedBy(w) = None /\ hint[w] \in Job /\ OwnedBy(w)' = hint[w]
              /\ hint'[w] = hint[w]
    PROVE  [Contract(w)!Next]_<<hint[w], OwnedBy(w)>>
BY DEF Contract!Next, Contract!Publish, Contract!Handoff, Contract!Finish, Contract!Retire

(* A step that leaves the hints alone, moves no job and lets no thread leave. *)
LEMMA ContractStutter ==
    ASSUME NEW w \in Workers, UNCHANGED hint, Given(w)' = Given(w), Gone(w)' <=> Gone(w)
    PROVE  [Contract(w)!Next]_<<hint[w], OwnedBy(w)>>
<1>1. OwnedBy(w)' = OwnedBy(w)
    BY DEF OwnedBy, Gone
<1> QED
    BY <1>1, ContractKinds

LEMMA ContractThread ==
    ASSUME WorkloadInv, WorkloadInv', NEW v \in Workers, Thread(v), NEW w \in Workers
    PROVE  [Contract(w)!Next]_<<hint[w], OwnedBy(w)>>
<1>t. tpc \in [Workers -> {"none", "enroll", "wait", "work", "leave", "exited"}]
      /\ hint \in [Workers -> Job \cup {None, Clear}]
    BY DEF WorkloadInv, WorkloadTypeOK, ThreadTypeOK
<1>1. CASE Enroll(v)
    <2>1. UNCHANGED <<slot, job, result>> /\ tpc[v] = "enroll"
        BY <1>1 DEF Enroll
    <2>2. Given(w)' = Given(w)
        BY <2>1 DEF Given
    <2>3. CASE w = v
        <3>1. Given(w) = {}
            BY <2>1, <2>3 DEF WorkloadInv, OneJob, Given
        <3>2. OwnedBy(w) = None /\ OwnedBy(w)' = None
            BY <2>2, <3>1 DEF OwnedBy
        <3>3. hint'[w] \in {Clear, hint[w]}
            BY <1>t, <1>1, <2>3 DEF Enroll
        <3> QED
            BY <3>2, <3>3, ContractKinds
    <2>4. CASE w # v
        <3>1. tpc'[w] = tpc[w] /\ hint'[w] = hint[w]
            BY <1>t, <1>1, <2>4 DEF Enroll
        <3>2. OwnedBy(w)' = OwnedBy(w)
            BY <2>2, <3>1 DEF OwnedBy
        <3> QED
            BY <3>1, <3>2, ContractKinds
    <2> QED
        BY <2>3, <2>4
<1>2. CASE BeginJob(v) \/ EndJob(v)
    <2>1. UNCHANGED hint /\ (Gone(w)' <=> Gone(w))
        BY <1>t, <1>2 DEF BeginJob, EndJob, Gone
    <2>2. Given(w)' = Given(w)
        BY <1>2, JobMoves
    <2> QED
        BY <2>1, <2>2, ContractStutter
<1>3. CASE StopThread(v)
    <2>1. UNCHANGED <<slot, job, result, hint>> /\ tpc' = [tpc EXCEPT ![v] = "leave"]
        BY <1>3 DEF StopThread, sharedVars
    <2>2. Given(w)' = Given(w)
        BY <2>1 DEF Given
    <2>3. OwnedBy(w)' = OwnedBy(w) \/ OwnedBy(w)' = None
        BY <1>t, <2>1, <2>2 DEF OwnedBy
    <2> QED
        BY <2>1, <2>3, ContractKinds
<1>4. CASE LeaveThread(v)
    <2>1. /\ UNCHANGED <<slot, job, result>> /\ tpc[v] = "leave"
          /\ tpc' = [tpc EXCEPT ![v] = "exited"]
        BY <1>4 DEF LeaveThread
    <2>2. Given(w)' = Given(w)
        BY <2>1 DEF Given
    <2>3. CASE w = v
        <3>1. OwnedBy(w) = None /\ OwnedBy(w)' = None
            BY <1>t, <2>1, <2>3 DEF OwnedBy
        <3>2. hint'[w] \in {Clear, hint[w]}
            BY <1>t, <1>4, <2>3 DEF LeaveThread
        <3> QED
            BY <3>1, <3>2, ContractKinds
    <2>4. CASE w # v
        <3>1. tpc'[w] = tpc[w] /\ hint'[w] = hint[w]
            BY <1>t, <1>4, <2>4 DEF LeaveThread
        <3>2. OwnedBy(w)' = OwnedBy(w)
            BY <2>2, <3>1 DEF OwnedBy
        <3> QED
            BY <3>1, <3>2, ContractKinds
    <2> QED
        BY <2>3, <2>4
<1> QED
    BY <1>1, <1>2, <1>3, <1>4 DEF Thread

LEMMA ContractMain ==
    ASSUME WorkloadInv, WorkloadInv', Main, NEW w \in Workers
    PROVE  [Contract(w)!Next]_<<hint[w], OwnedBy(w)>>
<1>t. tpc \in [Workers -> {"none", "enroll", "wait", "work", "leave", "exited"}]
      /\ hint \in [Workers -> Job \cup {None, Clear}]
    BY DEF WorkloadInv, WorkloadTypeOK, ThreadTypeOK
<1>0. PICK h : h = Here
    OBVIOUS
<1>1. CASE Construct
    <2>1. UNCHANGED <<slot, job, result, hint>> /\ tpc[h] = "none"
          /\ tpc' = [tpc EXCEPT ![h] = "enroll"]
        BY <1>0, <1>1 DEF Construct, sharedVars, WorkloadInv, MainPlace
    <2>2. tpc'[w] = tpc[w] \/ (tpc[w] = "none" /\ tpc'[w] = "enroll")
        BY <1>t, <2>1
    <2>3. Given(w)' = Given(w) /\ (Gone(w)' <=> Gone(w))
        BY <2>1, <2>2 DEF Given, Gone
    <2> QED
        BY <2>1, <2>3, ContractStutter
<1>2. CASE Constructed \/ ReleaseHogs \/ ReleaseImu \/ ReleaseCamera \/ ReleaseControl
           \/ SelectBatch \/ ExitTest \/ JoinThread \/ Exit
    <2>1. UNCHANGED <<sharedVars, threadVars, hint>>
        BY <1>2 DEF Constructed, ReleaseHogs, ReleaseImu, ReleaseCamera, ReleaseControl,
                    SelectBatch, ExitTest, JoinThread, Exit
    <2>2. UNCHANGED <<slot, job, result, tpc>>
        BY <2>1 DEF sharedVars, threadVars
    <2>3. Given(w)' = Given(w) /\ (Gone(w)' <=> Gone(w))
        BY <2>2 DEF Given, Gone
    <2> QED
        BY <2>1, <2>3, ContractStutter
<1>3. CASE Collect
    <2>1. UNCHANGED <<slot, job, tpc, hint>>
        BY <1>3 DEF Collect, threadVars
    <2>2. result' = result \/ result' = [result EXCEPT ![h] = None]
        BY <1>0, <1>3 DEF Collect
    <2>3. Given(w)' = Given(w) \/ Given(w)' = {}
        <3>1. result'[w] = result[w] \/ result'[w] = None
            BY <2>2 DEF WorkloadInv, WorkloadTypeOK, SharedTypeOK
        <3>2. result[w] # None => slot[w] = None /\ job[w] = None
            BY DEF WorkloadInv, OneJob
        <3> QED
            BY <2>1, <3>1, <3>2 DEF Given
    <2>4. OwnedBy(w)' = OwnedBy(w) \/ OwnedBy(w)' = None
        <3>1. tpc'[w] = tpc[w]
            BY <2>1
        <3>2. CASE Given(w)' = Given(w)
            BY <3>1, <3>2 DEF OwnedBy
        <3>3. CASE Given(w)' = {}
            BY <3>3 DEF OwnedBy
        <3> QED
            BY <2>3, <3>2, <3>3
    <2> QED
        BY <2>1, <2>4, ContractKinds
<1>4. CASE PublishHint
    <2>1. UNCHANGED <<sharedVars, threadVars>>
        BY <1>4 DEF PublishHint
    <2>2. UNCHANGED <<slot, job, result, tpc>>
        BY <2>1 DEF sharedVars, threadVars
    <2>3. Given(w)' = Given(w) /\ (Gone(w)' <=> Gone(w)) /\ OwnedBy(w)' = OwnedBy(w)
        BY <2>2 DEF Given, Gone, OwnedBy
    <2>4. CASE UNCHANGED hint
        BY <2>3, <2>4, ContractStutter
    <2>5. CASE Dispatchable(h) /\ hint' = [hint EXCEPT ![h] = Head(queue[h])]
        <3>1. CASE w = h
            <4>1. ~busy[w]
                BY <2>5, <3>1 DEF Dispatchable
            <4>2. Given(w) = {}
                BY <4>1 DEF WorkloadInv, OneJob, Given
            <4>3. OwnedBy(w) = None
                BY <4>2 DEF OwnedBy
            <4>4. hint'[w] \in Job
                <5>1. queue[w] \in Seq(Job) /\ queue[w] # <<>>
                    BY <2>5, <3>1 DEF WorkloadInv, WorkloadTypeOK, QueueTypeOK, Dispatchable
                <5>2. Head(queue[w]) \in Job
                    BY <5>1, HeadTailProperties
                <5> QED
                    BY <1>t, <2>5, <3>1, <5>2
            <4> QED
                BY <2>3, <4>3, <4>4, ContractKinds
        <3>2. CASE w # h
            BY <1>t, <2>3, <2>5, <3>2, ContractKinds
        <3> QED
            BY <3>1, <3>2
    <2> QED
        BY <1>0, <1>4, <2>4, <2>5 DEF PublishHint
<1>5. CASE HandOff
    <2>1. UNCHANGED <<job, result, tpc, hint>> /\ slot' = [slot EXCEPT ![h] = Head(queue[h])]
        BY <1>0, <1>5 DEF HandOff, threadVars
    <2>2. CASE w = h
        <3>1. /\ pc = "handoff" /\ ~busy[w] /\ hint[w] = Head(queue[w]) /\ queue[w] # <<>>
              /\ tpc[w] \in {"wait", "work"}
            BY <1>0, <1>5, <2>2 DEF HandOff, WorkloadInv, MainPlace, Dispatchable, Up, Rounds
        <3>2. Given(w) = {} /\ slot'[w] = hint[w]
            BY <2>1, <2>2, <3>1 DEF WorkloadInv, OneJob, Given, WorkloadTypeOK, SharedTypeOK
        <3>3. OwnedBy(w) = None
            BY <3>2 DEF OwnedBy
        <3>4. hint[w] \in Job /\ hint[w] # None
            <4>1. queue[w] \in Seq(Job)
                BY DEF WorkloadInv, WorkloadTypeOK, QueueTypeOK
            <4>2. Head(queue[w]) \in Job
                BY <3>1, <4>1, HeadTailProperties
            <4> QED
                BY <3>1, <4>2, NoJobAssumption
        <3>5. hint[w] \in Given(w)'
            BY <3>2, <3>4 DEF Given
        <3>6. OwnedBy(w)' = hint[w]
            <4>1. Given(w)' = {hint[w]}
                BY <2>1, <3>2, <3>4 DEF Given
            <4>2. tpc'[w] \notin {"leave", "exited"}
                BY <2>1, <3>1
            <4>3. OwnedBy(w)' = CHOOSE j \in {hint[w]} : TRUE
                BY <4>1, <4>2 DEF OwnedBy
            <4> QED
                BY <4>3
        <3> QED
            BY <2>1, <3>3, <3>4, <3>6, ContractKinds
    <2>3. CASE w # h
        <3>1. slot'[w] = slot[w]
            BY <2>1, <2>3 DEF WorkloadInv, WorkloadTypeOK, SharedTypeOK
        <3>2. Given(w)' = Given(w) /\ (Gone(w)' <=> Gone(w))
            BY <2>1, <3>1 DEF Given, Gone
        <3> QED
            BY <2>1, <3>2, ContractStutter
    <2> QED
        BY <2>2, <2>3
<1>6. CASE Finish
    <2>1. UNCHANGED <<slot, job, result, tpc>>
        BY <1>6 DEF Finish, threadVars
    <2>2. Given(w)' = Given(w) /\ (Gone(w)' <=> Gone(w)) /\ OwnedBy(w)' = OwnedBy(w)
        BY <2>1 DEF Given, Gone, OwnedBy
    <2>3. CASE UNCHANGED hint
        BY <2>2, <2>3, ContractStutter
    <2>4. CASE Retires(h) /\ hint' = [hint EXCEPT ![h] = Clear]
        <3>1. CASE w = h
            <4>1. Given(w) = {}
                BY <2>4, <3>1 DEF WorkloadInv, OneJob, Given, Retires
            <4>2. OwnedBy(w) = None /\ hint'[w] = Clear
                BY <1>t, <2>4, <3>1, <4>1 DEF OwnedBy
            <4> QED
                BY <2>2, <4>2, ContractKinds
        <3>2. CASE w # h
            BY <1>t, <2>2, <2>4, <3>2, ContractKinds
        <3> QED
            BY <3>1, <3>2
    <2> QED
        BY <1>0, <1>6, <2>3, <2>4 DEF Finish
<1> QED
    BY <1>1, <1>2, <1>3, <1>4, <1>5, <1>6 DEF Main

(* The dependent workload implements the ownership contract, worker by       *)
(* worker, also while an exception unwinds.                                  *)
THEOREM ImplementsContractHolds == Spec => ImplementsContract
<1>1. Init => \A w \in Workers : Contract(w)!Init
    BY DEF Init, Each, Contract!Init, OwnedBy, Given
<1>2. WorkloadInv /\ WorkloadInv' /\ [Next]_vars =>
          [\A w \in Workers : [Contract(w)!Next]_<<hint[w], OwnedBy(w)>>]_vars
    <2> SUFFICES ASSUME WorkloadInv, WorkloadInv', Next, NEW w \in Workers
                 PROVE  [Contract(w)!Next]_<<hint[w], OwnedBy(w)>>
        OBVIOUS
    <2>1. CASE Main
        BY <2>1, ContractMain
    <2>2. CASE \E v \in Workers : Thread(v)
        BY <2>2, ContractThread
    <2>3. CASE Tick \/ Terminated
        <3>1. UNCHANGED <<sharedVars, threadVars, hint>>
            BY <2>3 DEF Tick, Terminated, vars
        <3>2. UNCHANGED <<slot, job, result, tpc>>
            BY <3>1 DEF sharedVars, threadVars
        <3>3. Given(w)' = Given(w) /\ (Gone(w)' <=> Gone(w))
            BY <3>2 DEF Given, Gone
        <3> QED
            BY <3>1, <3>3, ContractStutter
    <2> QED
        BY <2>1, <2>2, <2>3 DEF Next
<1> QED
    BY <1>1, <1>2, WorkloadInvariance, PTL DEF Spec, ImplementsContract
=============================================================================
