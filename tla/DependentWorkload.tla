------------------------- MODULE DependentWorkload -------------------------
(***************************************************************************)
(* The dependent workload: one dispatcher thread (main) that owns the      *)
(* queues and the graph, and one thread per stage that receives one        *)
(* published job at a time.  A round of main collects finished jobs (their *)
(* completion callbacks run there and feed the graph), releases what the   *)
(* clock makes due, selects an estimator batch, dispatches, and leaves     *)
(* when the window is over and everything is drained.  An exception        *)
(* unwinds through the destructors, which stop the threads.                *)
(*                                                                         *)
(* The state that a worker shares with main is guarded by its mutex; one   *)
(* critical section is one step.  Spinning for the job's CPU time is the   *)
(* time between BeginJob and EndJob.                                       *)
(***************************************************************************)
EXTENDS DependentGraph

CONSTANTS Order,            \* the workers, in construction order
          QueueCapacity,    \* 32 in the code
          ImuPeriod, CameraPeriod, ControlPeriod,
          End,              \* the end of the measurement window
          Hogs,             \* background workers
          MaxHogJobs,       \* bound: jobs per hog
          Faults,           \* calls that may fail, and for which worker
          None, Clear       \* no job; the cleared hint

Workers == {Order[i] : i \in DOMAIN Order}

FaultKind == {"enroll", "publish", "retire", "restore"}

StageWorkers == {"imu", "camera", "estimator", "control", "mapping"}

ASSUME WorkloadAssumption ==
    /\ Order \in Seq(Workers)                       \* one object per worker
    /\ \A i, k \in DOMAIN Order : Order[i] = Order[k] => i = k
    /\ StageWorkers \subseteq Workers /\ Hogs \subseteq Workers \ StageWorkers
    /\ QueueCapacity \in Nat \ {0} /\ MaxHogJobs \in Nat
    /\ ImuPeriod \in Nat /\ CameraPeriod \in Nat /\ ControlPeriod \in Nat /\ End \in Nat
    /\ Faults \subseteq FaultKind \X Workers

VARIABLES
    \* main: program counter, position in Order, time of the round, unwinding
    pc, at, t, unwinding,
    next_imu, next_camera, next_control,
    \* owned by main, per worker
    queue, busy, offered, dropped, completed,
    \* guarded by the mutex of the worker
    slot, result, stopping, error,
    \* the worker's thread: program counter and the job it computes
    tpc, job,
    \* the hint map and the clock
    hint, now

mainVars   == <<pc, at, t, unwinding, next_imu, next_camera, next_control>>
queueVars  == <<queue, busy, offered, dropped, completed>>
sharedVars == <<slot, result, stopping, error>>
threadVars == <<tpc, job>>
vars == <<graphVars, mainVars, queueVars, sharedVars, threadVars, hint, now>>

\* A job is its id and its release; what its callback does depends on the
\* worker that ran it.
Job == [id : Nat \ {0}, release : 0 .. End]

ASSUME NoJobAssumption == None \notin Job /\ Clear \notin Job \cup {None}

Rounds == {"collect", "hogs", "imu", "camera", "control", "select", "dispatch",
           "handoff", "exit_test"}

MainTypeOK ==
    /\ pc \in {"construct", "constructing", "finish", "join", "exited", "failed"} \cup Rounds
    /\ at \in 0 .. Len(Order) + 1 /\ unwinding \in BOOLEAN
    /\ t \in Nat /\ now \in 0 .. End
    /\ next_imu \in Nat /\ next_camera \in Nat /\ next_control \in Nat

QueueTypeOK ==
    /\ queue \in [Workers -> Seq(Job)]
    /\ \A w \in Workers : Len(queue[w]) <= QueueCapacity
    /\ busy \in [Workers -> BOOLEAN]
    /\ offered \in [Workers -> Nat] /\ dropped \in [Workers -> Nat]
    /\ completed \in [Workers -> Nat]

SharedTypeOK ==
    /\ slot \in [Workers -> Job \cup {None}] /\ result \in [Workers -> Job \cup {None}]
    /\ stopping \in [Workers -> BOOLEAN] /\ error \in [Workers -> BOOLEAN]

ThreadTypeOK ==
    /\ tpc \in [Workers -> {"none", "enroll", "wait", "work", "leave", "exited"}]
    /\ job \in [Workers -> Job \cup {None}]
    /\ hint \in [Workers -> Job \cup {None, Clear}]

WorkloadTypeOK == MainTypeOK /\ QueueTypeOK /\ SharedTypeOK /\ ThreadTypeOK

Each(x) == [w \in Workers |-> x]

Init ==
    /\ GraphInit
    /\ pc = "construct" /\ at = 1 /\ t = 0 /\ unwinding = FALSE
    /\ next_imu = 0 /\ next_camera = 0 /\ next_control = 0
    /\ queue = Each(<<>>) /\ busy = Each(FALSE)
    /\ offered = Each(0) /\ dropped = Each(0) /\ completed = Each(0)
    /\ slot = Each(None) /\ result = Each(None)
    /\ stopping = Each(FALSE) /\ error = Each(FALSE)
    /\ tpc = Each("none") /\ job = Each(None)
    /\ hint = Each(None) /\ now = 0

-----------------------------------------------------------------------------
(* A worker's thread.                                                      *)

\* pin, initial clear, scheduler enrolment, ready
Enroll(w) ==
    /\ tpc[w] = "enroll"
    /\ \/ /\ tpc' = [tpc EXCEPT ![w] = "wait"] /\ hint' = [hint EXCEPT ![w] = Clear]
          /\ UNCHANGED error
       \/ /\ <<"enroll", w>> \in Faults
          /\ tpc' = [tpc EXCEPT ![w] = "exited"] /\ error' = [error EXCEPT ![w] = TRUE]
          /\ \E h \in {hint[w], Clear} : hint' = [hint EXCEPT ![w] = h]
    /\ UNCHANGED <<graphVars, mainVars, queueVars, slot, result, stopping, job, now>>

\* stopping is tested first: a job still in the slot is then never run
BeginJob(w) ==
    /\ tpc[w] = "wait" /\ ~stopping[w] /\ slot[w] # None
    /\ job' = [job EXCEPT ![w] = slot[w]]
    /\ slot' = [slot EXCEPT ![w] = None]
    /\ tpc' = [tpc EXCEPT ![w] = "work"]
    /\ UNCHANGED <<graphVars, mainVars, queueVars, result, stopping, error, hint, now>>

EndJob(w) ==
    /\ tpc[w] = "work"
    /\ result' = [result EXCEPT ![w] = job[w]]
    /\ job' = [job EXCEPT ![w] = None]
    /\ tpc' = [tpc EXCEPT ![w] = "wait"]
    /\ UNCHANGED <<graphVars, mainVars, queueVars, slot, stopping, error, hint, now>>

\* mutant: the wait predicate does not mention stopping
StopThreadWithJob(w) ==
    /\ tpc[w] = "wait" /\ stopping[w] /\ slot[w] # None
    /\ tpc' = [tpc EXCEPT ![w] = "leave"]
    /\ UNCHANGED <<graphVars, mainVars, queueVars, sharedVars, job, hint, now>>

StopThread(w) ==
    /\ tpc[w] = "wait" /\ stopping[w]
    /\ tpc' = [tpc EXCEPT ![w] = "leave"]
    /\ UNCHANGED <<graphVars, mainVars, queueVars, sharedVars, job, hint, now>>

\* restore the scheduling policy, then clear the own hint
LeaveThread(w) ==
    /\ tpc[w] = "leave"
    /\ \/ hint' = [hint EXCEPT ![w] = Clear] /\ UNCHANGED error
       \/ <<"restore", w>> \in Faults /\ error' = [error EXCEPT ![w] = TRUE] /\ UNCHANGED hint
    /\ tpc' = [tpc EXCEPT ![w] = "exited"]
    /\ UNCHANGED <<graphVars, mainVars, queueVars, slot, result, stopping, job, now>>

Thread(w) ==
    Enroll(w) \/ BeginJob(w) \/ EndJob(w) \/ StopThread(w) \/ LeaveThread(w)

-----------------------------------------------------------------------------
(* main: construction, and the way out through finish().                   *)

Here == Order[at]

\* An exception: the destructors of the workers constructed so far, last first
Unwind(last) == pc' = "finish" /\ at' = last /\ unwinding' = TRUE

Construct ==
    /\ pc = "construct"
    /\ tpc' = [tpc EXCEPT ![Here] = "enroll"] /\ pc' = "constructing"
    /\ UNCHANGED <<graphVars, at, t, unwinding, next_imu, next_camera, next_control,
                   queueVars, sharedVars, job, hint, now>>

Constructed ==
    /\ pc = "constructing" /\ tpc[Here] # "enroll"
    /\ IF error[Here] THEN Unwind(at - 1)
       ELSE /\ pc' = IF at = Len(Order) THEN "collect" ELSE "construct"
            /\ at' = IF at = Len(Order) THEN 1 ELSE at + 1
            /\ UNCHANGED unwinding
    /\ UNCHANGED <<graphVars, t, next_imu, next_camera, next_control, queueVars,
                   sharedVars, threadVars, hint, now>>

RetiresAlways(w) == ~error[w]                                        \* mutant
\* finish() may replace the hint only of a worker that owns no job.
Retires(w) == ~busy[w] /\ slot[w] = None /\ result[w] = None /\ ~error[w]

Finish ==
    /\ pc = "finish" /\ at \in DOMAIN Order
    /\ \/ /\ Retires(Here) /\ hint' = [hint EXCEPT ![Here] = Clear] /\ UNCHANGED error
       \/ /\ Retires(Here) /\ <<"retire", Here>> \in Faults
          /\ error' = [error EXCEPT ![Here] = TRUE] /\ UNCHANGED hint
       \/ ~Retires(Here) /\ UNCHANGED <<hint, error>>
    /\ stopping' = [stopping EXCEPT ![Here] = TRUE]
    /\ pc' = "join"
    /\ UNCHANGED <<graphVars, at, t, unwinding, next_imu, next_camera, next_control,
                   queueVars, slot, result, threadVars, now>>

JoinThread ==
    /\ pc = "join" /\ tpc[Here] = "exited"
    /\ pc' = "finish" /\ at' = IF unwinding THEN at - 1 ELSE at + 1
    /\ UNCHANGED <<graphVars, t, unwinding, next_imu, next_camera, next_control,
                   queueVars, sharedVars, threadVars, hint, now>>

\* All threads joined; check() of every worker decides the exit status.
Exit ==
    /\ pc = "finish" /\ at \notin DOMAIN Order
    /\ pc' = IF unwinding \/ \E w \in Workers : error[w] THEN "failed" ELSE "exited"
    /\ UNCHANGED <<graphVars, at, t, unwinding, next_imu, next_camera, next_control,
                   queueVars, sharedVars, threadVars, hint, now>>

-----------------------------------------------------------------------------
(* main: one round.                                                        *)

AtEnd == at = Len(Order)

\* The next worker of a loop over all workers, or the next phase of the round
Proceed(phase) == /\ pc' = IF AtEnd THEN phase ELSE pc
                  /\ at' = IF AtEnd THEN 1 ELSE at + 1

QueueFull(w) == Len(queue[w]) = QueueCapacity

\* Worker::offer(): a full queue drops the new job
WorkerOffer(w, j) ==
    LET full == QueueFull(w)
    IN  /\ offered' = [offered EXCEPT ![w] = @ + 1]
        /\ dropped' = IF full THEN [dropped EXCEPT ![w] = @ + 1] ELSE dropped
        /\ queue' = IF full THEN queue ELSE [queue EXCEPT ![w] = Append(@, j)]

NoOffer == UNCHANGED <<offered, dropped, queue>>

\* mutant: the stamp is taken after the release time was advanced
MeasuredNext(w, j) ==
    [stream |-> w, sequence |-> j.id,
     source_time |-> j.release + (IF w = "imu" THEN ImuPeriod ELSE CameraPeriod)]
Measured(w, j) == [stream |-> w, sequence |-> j.id, source_time |-> j.release]

\* graph.offer() and graph.complete() do not throw for the job of worker w
CallbackAllowed(w, j) ==
    CASE w \in Stream -> Accepts(Measured(w, j), now) /\ now >= clock_time
      [] w = "estimator" -> running # NoBatch /\ running.id = j.id /\ now >= clock_time
      [] OTHER -> TRUE

\* mutant: a batch without a camera frame is not completed
CallbackCameraOnly(w, j) ==
    CASE w \in Stream -> Offer(Measured(w, j), now) /\ NoOffer
      [] w = "estimator" /\ InFlight("camera") > 0 ->
            /\ Complete(j.id, now)
            /\ WorkerOffer("mapping",
                   [id |-> j.id, release |-> Newest("camera").source_time])
      [] OTHER -> UNCHANGED graphVars /\ NoOffer

\* The completion callback of job j of worker w.  The estimator's publishes a
\* snapshot and, when its batch had a camera frame, offers a mapping job.
Callback(w, j) ==
    CASE w \in Stream -> Offer(Measured(w, j), now) /\ NoOffer
      [] w = "estimator" ->
            /\ Complete(j.id, now)
            /\ IF InFlight("camera") = 0 THEN NoOffer
               ELSE WorkerOffer("mapping",
                        [id |-> j.id, release |-> Newest("camera").source_time])
      [] OTHER -> UNCHANGED graphVars /\ NoOffer

\* collect() of the worker at this position; the last one starts the round's time
Collect ==
    /\ pc = "collect"
    /\ IF error[Here] \/ (result[Here] # None /\ ~CallbackAllowed(Here, result[Here]))
       THEN Unwind(Len(Order)) /\ UNCHANGED <<graphVars, offered, dropped, queue>>
       ELSE /\ Proceed("hogs") /\ UNCHANGED unwinding
            /\ IF result[Here] = None THEN UNCHANGED graphVars /\ NoOffer
               ELSE Callback(Here, result[Here])
    /\ IF result[Here] # None /\ ~error[Here]
       THEN /\ busy' = [busy EXCEPT ![Here] = FALSE]
            /\ completed' = [completed EXCEPT ![Here] = @ + 1]
            /\ result' = [result EXCEPT ![Here] = None]
       ELSE UNCHANGED <<busy, completed, result>>
    /\ t' = IF AtEnd THEN now ELSE t
    /\ UNCHANGED <<next_imu, next_camera, next_control, slot, stopping, error,
                   threadVars, hint, now>>

\* An idle hog gets one more job while the window is open.
ReleaseHogs ==
    /\ pc = "hogs" /\ pc' = "imu"
    /\ LET fed == {h \in Hogs : t < End /\ ~busy[h] /\ queue[h] = <<>>
                                /\ offered[h] < MaxHogJobs}
       IN  /\ offered' = [w \in Workers |-> IF w \in fed THEN offered[w] + 1 ELSE offered[w]]
           /\ queue' = [w \in Workers |->
                  IF w \in fed THEN <<[id |-> offered[w] + 1, release |-> t]>> ELSE queue[w]]
    /\ UNCHANGED <<graphVars, at, t, unwinding, next_imu, next_camera, next_control,
                   busy, dropped, completed, sharedVars, threadVars, hint, now>>

Due(next) == next < End /\ next <= t

ReleaseImu ==
    /\ pc = "imu"
    /\ IF Due(next_imu)
       THEN /\ WorkerOffer("imu", [id |-> offered["imu"] + 1, release |-> next_imu])
            /\ next_imu' = next_imu + ImuPeriod /\ UNCHANGED pc
       ELSE pc' = "camera" /\ NoOffer /\ UNCHANGED next_imu
    /\ UNCHANGED <<graphVars, at, t, unwinding, next_camera, next_control, busy,
                   completed, sharedVars, threadVars, hint, now>>

ReleaseCamera ==
    /\ pc = "camera"
    /\ IF Due(next_camera)
       THEN /\ WorkerOffer("camera", [id |-> offered["camera"] + 1, release |-> next_camera])
            /\ next_camera' = next_camera + CameraPeriod /\ UNCHANGED pc
       ELSE pc' = "control" /\ NoOffer /\ UNCHANGED next_camera
    /\ UNCHANGED <<graphVars, at, t, unwinding, next_imu, next_control, busy,
                   completed, sharedVars, threadVars, hint, now>>

Outstanding(w) == busy[w] \/ queue[w] # <<>>

\* A control tick that finds the previous one outstanding is dropped; otherwise
\* the snapshot is frozen now, not when the tick is computed.
ReleaseControl ==
    /\ pc = "control"
    /\ IF ~Due(next_control)
       THEN pc' = "select" /\ NoOffer /\ UNCHANGED <<graphVars, next_control>>
       ELSE /\ next_control' = next_control + ControlPeriod /\ UNCHANGED pc
            /\ IF Outstanding("control")
               THEN /\ offered' = [offered EXCEPT !["control"] = @ + 1]
                    /\ dropped' = [dropped EXCEPT !["control"] = @ + 1]
                    /\ UNCHANGED <<graphVars, queue>>
               ELSE /\ TakeControl(now, MaxImuAge)
                    /\ WorkerOffer("control",
                           [id |-> offered["control"] + 1, release |-> next_control])
    /\ UNCHANGED <<at, t, unwinding, next_imu, next_camera, busy, completed,
                   sharedVars, threadVars, hint, now>>

EstimatorFree == ~Outstanding("estimator")

SelectBatch ==
    /\ pc = "select" /\ pc' = "dispatch"
    /\ IF ~EstimatorFree THEN UNCHANGED graphVars /\ NoOffer
       ELSE /\ Select(now)
            /\ IF running' = running THEN NoOffer
               ELSE WorkerOffer("estimator",
                        [id |-> running'.id, release |-> running'.inputs[1].source_time])
    /\ UNCHANGED <<at, t, unwinding, next_imu, next_camera, next_control, busy,
                   completed, sharedVars, threadVars, hint, now>>

DispatchableQueued(w) == queue[w] # <<>>                              \* mutant
Dispatchable(w) == ~busy[w] /\ queue[w] # <<>>

\* dispatch(): publish the hint of the oldest queued job, then fill the slot.
\* The mutex is held across both; the kernel sees the first at once.
PublishHint ==
    /\ pc = "dispatch"
    /\ \/ /\ ~error[Here] /\ Dispatchable(Here)
          /\ hint' = [hint EXCEPT ![Here] = Head(queue[Here])]
          /\ pc' = "handoff" /\ UNCHANGED <<at, unwinding>>
       \/ /\ ~error[Here] /\ ~Dispatchable(Here) /\ Proceed("exit_test")
          /\ UNCHANGED <<hint, unwinding>>
       \/ /\ error[Here] \/ (Dispatchable(Here) /\ <<"publish", Here>> \in Faults)
          /\ Unwind(Len(Order)) /\ UNCHANGED hint
    /\ UNCHANGED <<graphVars, t, next_imu, next_camera, next_control, queueVars,
                   sharedVars, threadVars, now>>

HandOff ==
    /\ pc = "handoff"
    /\ slot' = [slot EXCEPT ![Here] = Head(queue[Here])]
    /\ queue' = [queue EXCEPT ![Here] = Tail(@)]
    /\ busy' = [busy EXCEPT ![Here] = TRUE]
    /\ pc' = IF AtEnd THEN "exit_test" ELSE "dispatch"
    /\ at' = IF AtEnd THEN 1 ELSE at + 1
    /\ UNCHANGED <<graphVars, t, unwinding, next_imu, next_camera, next_control,
                   offered, dropped, completed, result, stopping, error, threadVars,
                   hint, now>>

DrainedQueues == \A w \in Workers : queue[w] = <<>>                   \* mutant
Drained ==
    /\ \A w \in Workers : ~Outstanding(w)
    /\ \A s \in Stream : inbox[s] = <<>>

ExitTest ==
    /\ pc = "exit_test"
    /\ pc' = IF t >= End /\ Drained THEN "finish" ELSE "collect"
    /\ UNCHANGED <<graphVars, at, t, unwinding, next_imu, next_camera, next_control,
                   queueVars, sharedVars, threadVars, hint, now>>

Main ==
    \/ Construct \/ Constructed \/ Collect \/ ReleaseHogs \/ ReleaseImu
    \/ ReleaseCamera \/ ReleaseControl \/ SelectBatch \/ PublishHint \/ HandOff \/ ExitTest
    \/ Finish \/ JoinThread \/ Exit

Tick == now < End /\ now' = now + 1
        /\ UNCHANGED <<graphVars, mainVars, queueVars, sharedVars, threadVars, hint>>

Over == pc \in {"exited", "failed"}

Terminated == Over /\ now = End /\ UNCHANGED vars

Next == Main \/ (\E w \in Workers : Thread(w)) \/ Tick \/ Terminated

Spec == Init /\ [][Next]_vars

(***************************************************************************)
(* main never blocks except in join, the threads are scheduled (each spins *)
(* for a bounded CPU time), and the monotonic clock advances.              *)
(***************************************************************************)
Fairness == WF_vars(Main) /\ WF_vars(Tick) /\ \A w \in Workers : WF_vars(Thread(w))

FairSpec == Spec /\ Fairness

-----------------------------------------------------------------------------
(* Safety.                                                                 *)

\* The jobs a worker has been given and main has not collected
Given(w) == {slot[w], job[w], result[w]} \ {None}

(* While a worker has a job (in its slot, at its thread, or finished and not *)
(* yet collected) the kernel reads the hint of exactly that job; also when   *)
(* main is unwinding from an exception, until the thread itself leaves.      *)
JobOwnsHint ==
    \A w \in Workers : tpc[w] # "exited" =>
        \A j \in Given(w) : hint[w] = j /\ Cardinality(Given(w)) = 1

(* The graph's preconditions hold when main gets to the callback, whatever   *)
(* the order in which the threads finish: measurements arrive in sequence    *)
(* and from the past, and the batch that completes is the one that runs.     *)
CallbacksAllowed ==
    \A w \in Workers : ~Over /\ result[w] # None => CallbackAllowed(w, result[w])

(* When the program ends normally the whole window has been released and     *)
(* everything is accounted for: every job was completed or dropped, the      *)
(* graph is empty and has seen each processed measurement once, and no       *)
(* thread or hint is left behind.                                            *)
CleanExit ==
    pc = "exited" =>
        /\ \A w \in Workers : /\ offered[w] = completed[w] + dropped[w]
                              /\ tpc[w] = "exited" /\ hint[w] = Clear
        /\ next_imu >= End /\ next_camera >= End /\ next_control >= End
        /\ running = NoBatch
        /\ \A s \in Stream : accounting[s].offered = completed[s]
        /\ \A s \in Stream : accounting[s].offered
                               = accounting[s].consumed + accounting[s].dropped

(* Each worker's slot in the hint map obeys the ownership contract, where a  *)
(* job is owned from dispatch until collect, or until the thread leaves.     *)
OwnedBy(w) == IF tpc[w] \in {"leave", "exited"} \/ Given(w) = {} THEN None
              ELSE CHOOSE j \in Given(w) : TRUE
Contract(w) == INSTANCE HintContract
                   WITH Jobs <- Job, slot <- hint[w], owner <- OwnedBy(w)
ImplementsContract ==
    /\ \A w \in Workers : Contract(w)!Init
    /\ [][\A w \in Workers : [Contract(w)!Next]_<<hint[w], OwnedBy(w)>>]_vars

-----------------------------------------------------------------------------
(* The inductive invariant behind the properties above.                    *)

\* main's private busy flag agrees with what the mutex guards: a worker is
\* busy exactly when one job is with it, in one place, and its thread computes
\* exactly when it has taken the job.
OneJob ==
    \A w \in Workers :
        /\ busy[w] <=> slot[w] # None \/ job[w] # None \/ result[w] # None
        /\ slot[w] # None => job[w] = None /\ result[w] = None
        /\ job[w] # None => result[w] = None
        /\ job[w] # None <=> tpc[w] = "work"
        /\ busy[w] => tpc[w] \notin {"none", "enroll"}

HintOfJob ==
    \A w \in Workers : tpc[w] # "exited" => \A j \in Given(w) : hint[w] = j

Up(w) == tpc[w] \in {"wait", "work"} /\ ~stopping[w] /\ ~error[w]

\* Workers are constructed one by one; in a round every thread is up, and
\* between publication and handoff the hint is that of the job handed off.
MainPlace ==
    /\ pc \notin {"finish", "exited", "failed"} => at \in DOMAIN Order
    /\ pc \in {"construct", "constructing"} =>
           \A i \in DOMAIN Order :
               /\ ~stopping[Order[i]] /\ ~busy[Order[i]]
               /\ i < at => Up(Order[i])
               /\ i > at => tpc[Order[i]] = "none"
    /\ pc = "construct" => tpc[Here] = "none"
    /\ pc = "constructing" => \/ tpc[Here] \in {"enroll", "wait"}
                              \/ tpc[Here] = "exited" /\ error[Here]
    /\ pc \in Rounds => \A w \in Workers : Up(w)
    /\ pc = "handoff" => Dispatchable(Here) /\ hint[Here] = Head(queue[Here])

\* Every job is queued, with its worker, completed or dropped, exactly once;
\* a completed job of a stream was offered to the graph.
Accounted ==
    /\ \A w \in Workers :
           offered[w] = completed[w] + dropped[w] + Len(queue[w])
                        + (IF busy[w] THEN 1 ELSE 0)
    /\ \A s \in Stream : accounting[s].offered = completed[s]

\* The jobs of a stream, first the one with the worker and then the queue, are
\* in the order of their ids, newer than what the graph has seen, and released.
JobsInOrder ==
    /\ clock_time <= now /\ t <= now
    /\ \A s \in Stream :
           /\ last_sequence[s] <= offered[s]
           /\ \A j \in Given(s) :
                  /\ last_sequence[s] < j.id /\ j.id <= offered[s] /\ j.release <= now
                  /\ \A k \in DOMAIN queue[s] : j.id < queue[s][k].id
           /\ \A k \in DOMAIN queue[s] :
                  /\ last_sequence[s] < queue[s][k].id /\ queue[s][k].id <= offered[s]
                  /\ queue[s][k].release <= now
                  /\ \A i \in 1 .. k - 1 : queue[s][i].id < queue[s][k].id

\* A batch is running in the graph exactly when one estimator job with its
\* id is under way, in the queue or with the worker.
BatchHasJob ==
    LET waits == queue["estimator"]
    IN  IF running = NoBatch THEN EstimatorFree
        ELSE IF busy["estimator"]
             THEN waits = <<>> /\ \A j \in Given("estimator") : j.id = running.id
             ELSE Len(waits) = 1 /\ waits[1].id = running.id

\* What a round has released stays released until it takes the time again.
Released ==
    /\ pc \in Rounds \ {"collect", "hogs", "imu"} => ~Due(next_imu)
    /\ pc \in Rounds \ {"collect", "hogs", "imu", "camera"} => ~Due(next_camera)
    /\ pc \in {"select", "dispatch", "handoff", "exit_test"} => ~Due(next_control)

\* The normal way out: nothing is left, and the workers behind main have left.
WayOut ==
    /\ pc = "exit_test" => at = 1
    /\ pc = "exited" => ~unwinding /\ at = Len(Order) + 1 /\ \A w \in Workers : ~error[w]
    /\ pc \in {"finish", "join", "exited"} /\ ~unwinding =>
           /\ Drained /\ at >= 1
           /\ next_imu >= End /\ next_camera >= End /\ next_control >= End
           /\ \A i \in DOMAIN Order :
                  /\ i < at => tpc[Order[i]] = "exited"
                  /\ i < at \/ (i = at /\ pc = "join") =>
                         error[Order[i]] \/ hint[Order[i]] = Clear

(* Types and the graph's own invariant; queues within their capacity; no job *)
(* is overwritten in a slot or forgotten in a result, because busy and the   *)
(* shared fields agree; every job is accounted for, in order; and a batch of *)
(* the graph never loses its estimator job, which would block the graph for  *)
(* good.                                                                     *)
WorkloadInv ==
    /\ WorkloadTypeOK /\ GraphInv /\ OneJob /\ HintOfJob /\ MainPlace /\ Accounted
    /\ JobsInOrder /\ BatchHasJob /\ Released /\ WayOut

-----------------------------------------------------------------------------
(* Liveness.                                                               *)

(* The program ends: after the window everything drains and the exit test    *)
(* succeeds, and an exception stops every thread.                            *)
ProgramEnds == <>Over
=============================================================================
