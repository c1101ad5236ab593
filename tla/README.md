# Verification of the scx_slam_fresh userspace

The repository contains the userspace half of a freshness-aware scheduler for
robotics pipelines: programs that decide which job a thread runs next and tell
the kernel scheduler about it. The kernel scheduler (a `sched_ext` BPF program,
not part of the repository) reads a pinned BPF map with **one slot per worker
thread**. Everything it knows about a thread (service class, release, deadline,
staleness bound, budget) is in that slot, and it uses it when the thread is
*enqueued*, that is when somebody wakes it. So the correctness of the whole
rests on userspace protocols: the right hint must be in the slot before the
wake-up, must stay there while the job is owned, and must be retired exactly
when nothing is owned any more, across cancellation, exceptions, failing system
calls and shutdown. Around these protocols the programs count what they did in
a fixed measurement window, and the published evaluation rests on those counts.

This directory models the protocols and the counting in TLA+, checks them with
TLC on small instances, and proves the central results with TLAPS for every
value of the parameters.

## 1. Inventory

| Component | State it keeps | Operations | What is hard |
| --- | --- | --- | --- |
| `FreshnessExecutor` (`ros2/scx_slam_executor`) | `Impl`: profiles, extractors, `pending`, `worker_ready`, `worker_idle`, `hint_needs_clear`, `stop`, `worker_error`; one mutex, one condition variable | `add_callback_group_with_profile`, `add_subscription_callback_group_with_erased_metadata`, `remove_callback_group`, `spin` (dispatcher + worker), `cancel` (inherited) | two threads and an external `cancel()` that notifies nobody; six calls between selection and hand-over that may throw; `clear()` failing inside a catch block; a second `spin()` on what the first one left |
| Hint construction and expiry (`make_hint`, `expired`) | none | pure | unsigned 64-bit time: saturation at the end, stamps from the future |
| `dependent_graph.h` | inboxes, running batch, latest snapshot, counts, last sequences, clock | `offer`, `select`, `complete`, `control` | conservation over long call sequences, merge order, ages in unsigned arithmetic |
| `dependent_workload.cpp` | per worker: queue, `busy`, slot, result, flags; main: next release times | `Worker` construction, `run`, `offer`, `dispatch`, `collect`, `finish`; the round of `main` | main's private `busy` against the shared slot/result; completion callbacks with preconditions; unwinding through destructors while jobs are computed |
| `slam_pipeline_demo.cpp` | five `BlockingQueue`s, one thread per stage, imu thread, generators with a held camera burst, counters | `push`, `pop`, `stop`, eviction, `stage_worker`, `imu_thread`, `wait_for_pid`, `main` | several producers and one consumer per queue, publishing at the wake-up, stop with work left, counters of two locks around a cutoff |
| `window_metrics.h`, `measured_work_us` | CPU bounds of a job and of the window | `sample`, `finish` | wall and CPU clock cannot be read together; preemption between the reads |
| `slam_pipeline.cpp` (ROS 2 pipeline) | `StageStats` per stage (a lock each), measurement window, background error, four executors, an audit node, contenders | subscription callbacks, `observe`, `offer`, `snapshot`, `run_contender`, `wait_for_graph`, `main` | counters written by five threads and read one after the other at the cutoff; discovery, failing threads, time-outs and `cancel()` racing |
| `bag_adapter` | source indices of the bag, counters per stream, a bounded delivery trace | index validation, `publish_job`, the readiness service | job identities must not depend on which message is delivered first; readiness is a snapshot of discovery; `publish()` may fail after the job was made |
| `hint_ablation.hpp`, hint modes of `slam_pipeline.cpp` | none | `stage_profile`, `admission_profile`, `project_hint` | two routes (rewritten profile, rewritten hint) that must show the scheduler the same, without touching admission |
| `percentile_99`, `hog_metrics.hpp` | none | pure | index arithmetic, half-open window |
| `edf_workload.c` | two periodic threads, their policy, slot and sample | publish, enroll, barrier, late check, sleep, work, restore, clear | the order of publication and enrollment; enrollment racing the epoch; a task set a few percent from the limit |
| `run_ros2_bag_eval.sh` | the phase of a case | readiness gate, resume, acceptance of the printed counts | acceptance must not be fooled by lost messages or shifted identities |
| other `scripts/` | experiment matrices, logs | run, parse, report | process control and text |

**Interaction.** ROS messages reach `FreshnessExecutor` through rclcpp; the
dispatcher takes one, publishes through a `HintSink` and hands it to the worker
under the mutex. The dependent workload does the same with its own workers, and
its completion callbacks drive the dependency graph. In the standalone demo
producers and consumers publish under the lock of the queue. A bag case is four
programs: the player, the adapter that turns sensor messages into jobs, the
pipeline, and the script that gates the player and judges the report. All of the
runtimes write
the same kind of slot; the common promise is stated once, in `HintContract`.

**What makes each part correct.** For every runtime: the slot names the job its
worker owns; nobody hands a job over before its hint is in place; nothing is
lost, run twice or left in hand when the program or `spin()` ends; every
failure is reported and ends the session; no thread waits for ever. For the
graph and the counters: every item is accounted for exactly once, order and age
are right, no unsigned subtraction wraps, and the window report describes the
instant of the cutoff.

The hazards, each at its source line and with the properties that watch it, are
listed in `PROJECT.json`.

## 2. Modules

| Module | Models | Notes |
| --- | --- | --- |
| `HintPolicy` | `add_saturating`, `make_hint`, `expired` | clock `0 .. MaxU64`, any width; class, deadline, staleness and the rejection flag are kept, the fields that only travel through are not |
| `HintContract` | the abstract promise about one worker's slot | `Publish`, `Handoff`, `Finish`, `Retire`, `NewWorker` |
| `FreshnessExecutor` | the executor; extends `HintPolicy` | refines `HintContract` |
| `DependentGraph` | the graph, as operators on its state and as the specification `GraphSpec` of all call sequences | extended by the workload |
| `DependentWorkload` | main, workers and their threads around the graph; extends `DependentGraph` | refines `HintContract` for every worker |
| `CpuWindow` | `measured_work_us` and `CpuWindowBounds` | one clock read per step |
| `PipelineDemo` | queues, stages, imu thread, generators and main of the standalone demo | |
| `PipelineDemoOrder` | the demo with the history of what each stage has popped | extends `PipelineDemo`; states `StreamOrder` |
| `RosPipeline` | the ROS 2 pipeline program, with each executor reduced to what `FreshnessExecutor` guarantees | no specification of its own: `BagSession` composes it with its sources |
| `BagAdapter` | the bag adapter, as operators on its state | |
| `BagSession` | a case: player, adapter, pipeline and script; also the synthetic mode of the pipeline | extends `RosPipeline` and `BagAdapter` |
| `HintAblation` | the hint modes, as functions of profile and hint; extends `HintPolicy` | |
| `ReportMetrics` | the percentile and the window iterations of the report | |
| `EdfWorkload` | the EDF probe, its two threads and the CPU they share | |
| `*Proofs` | theorems about the module of that name | `HintPolicyProofs` also covers `HintAblation`; `PipelineDemoProofs` covers `PipelineDemo` and `PipelineDemoOrder`; `BagSessionProofs` covers `RosPipeline`, `BagAdapter`, `BagSession` and `ReportMetrics` |
| `MC*` | small instances for TLC | |

### FreshnessExecutor

One critical section of the code is one action; whatever happens outside the
mutex (selecting, taking, extracting, publishing, notifying, running the
callback) is a step of its own, so every interleaving of the dispatcher, the
worker, `cancel()`, context shutdown, registration and message arrival is
covered. `dpc` and `wpc` are the places in `spin()` and in the worker lambda,
`dwork` and `wwork` their `AnyExecutable` locals; the variables of `Impl` keep
their names. A thread in `condition.wait` is in `sleeping` and cannot move
until a `notify_all` empties the set; a spurious wake-up is possible
(`SpuriousWakeup`) and never fair. `notify_all` is called after the mutex is released,
and is its own step, as in the code. `Faults` says which calls may throw; each
throw follows the code's catch blocks, including a `clear()` that throws inside
one. `loans` and `takeable` are what rclcpp lent out: taken messages and
callback groups. `raised` and `result` are observers: what went wrong in this
session and what `spin()` returned or threw. External to `src/`, from how the
code uses them: `get_next_executable` (`Available`), `cancel`, context
shutdown, message arrival, the clock.

### DependentGraph and DependentWorkload

The graph's methods are operators over its state; `GraphSpec` calls them in any
order with arguments that satisfy the documented preconditions (`Accepts`;
violating calls throw before they change anything). `select()`'s merge loop is
stated by what it computes: `OldestFirstPops` describes the one sequence of
pops in which each pop takes the older front, ties going to the imu.

The workload adds `main` (one action per part of its round), the worker threads
and the destructors: a fault of enrolment, publication, retirement or restore
unwinds through `Finish` and `JoinThread` in reverse construction order.
`queue`, `busy` and the counters belong to main; `slot`, `result`, `stopping`,
`error` are what the worker's mutex guards. `Dispatch` is two steps, because
the hint is in the map before the job is in the slot.

### CpuWindow

Every read of a clock is a step; `Advance` moves the wall clock and may or may
not move the thread's CPU clock, which is all a scheduler can do.
`at_cutoff` remembers what the CPU clock really showed at the cutoff and
`inside` sums what the finished jobs really used before it: the truth the
reported bounds are compared with.

### PipelineDemo

`queue`, `waiting`, `stop`, `evicted` are `BlockingQueue`; `stage` and `item`
are the place and the local `w` of `stage_worker`. `push`, `pop` and `stop` run
under the lock of one queue and are one step each, with the time stamp that is
read under the lock. `"asleep"` is the wait set of the condition variable.
An item is its source and sequence number; its time stamp is its release time.
`cut` records at the tick to the cutoff what really was queued and in hand.
`PipelineDemoOrder` adds a history to the demo, the sequence of all items that each
stage has popped (`taken`), because order between items that other items separate
cannot be read off a state or a step of the demo itself.
`Unhinted` are consumers whose (ignored) publication result may be a failure.
Left out: lateness, focus and burst statistics, the CPU cost of a job (see
`CpuWindow`), option parsing, hog threads (they loop on `running` and touch
nothing), the exit of the process when the scheduling policy cannot be set.

### RosPipeline

The program has no clock in the model: sleeps end, time-outs strike and messages
expire at any point, which includes what the real times allow. An executor has
one message in hand (`Custody`, `HintOwnership`), so it is one process:
`pc`/`msg` say where it is between `Take` (the observer counts the selection),
`Drop` or `Begin`, `Complete` and `Publish`. Each `StageStats` is locked by
itself, hence a drop is booked downstream in steps of its own (`owed`,
`Settle`), the audit node offers a frame to three stages in three steps, and
main takes four snapshots in four. `spinning` and `context` are what `cancel()`
and `rclcpp::shutdown()` clear; a `cancel()` that comes before `spin()` is
overwritten by it. `input_mode` is chosen at the start; `Setup` gives for each
mode which subscriptions and threads may be `late` or `slow`, which may fail
(`faulty`) and which contenders run. `lost` is an observer: messages that no reader
got or that were in hand when a call threw. `main = "aborted"` is
`std::terminate()`: an exception leaves main while threads are joinable.

### BagAdapter and BagSession

The adapter is single-threaded, so each callback is one step. A job's identity is
its ordinal in the offline index, or a counter when no index is given;
`JobIds` and `StampedJobs` return a set that is empty where the code throws.
`Receive` is the whole callback: identity, counters, trace and the delivery of the
job to both readers of its topic that are matched. `Miss` loses a first message of
a stream, because the readiness answer cannot show whether the player's own writer
has matched. The script waits for readiness (`AdapterReady`, or gives up:
`NotReady`), resumes the player and, in `StreamAccepted` and `LineAccepted`, judges
the report. It does not know the bag: it asks of each line for the number of messages
that the nominal rate of the sensor and the duration give (`Nominal`), in `offered`, in
the span of the job identities and in the sum of the outcomes. What it asks besides of
arrivals, executions and lateness is left out, which only accepts more cases.
`WindowOrdinals`, the messages that the window of the bag really holds, belongs to the
properties: no program of the case counts them.

### HintAblation and ReportMetrics

Pure operators. `Seen(input, mode, profile, id, release)` is what the scheduler
gets to see of a job under either route. `LowerBound` is `std::lower_bound` by what
it computes; `InHalfOpen` and `NearestRank` are the reference definitions. TLC
evaluates the agreement over bounded inputs (`AblationAgrees`, `MetricsExact`), the
theorems state it in general where the prover reaches.

### EdfWorkload

Statements of the two threads take no time; the CPU runs a thread (`Run`) until its
job is done or a sleeper wakes, or idles. What a job costs is its nominal work or
the whole reservation. The scheduler is external: fixed priorities, deadline order by
`SCHED_DEADLINE`, deadline order by the published hint (`scx`), or anything
(`ordinary`). `DeadlineOf` reads the *hint* in scx mode, so a wrong hint yields a
wrong schedule. Every call that the program checks may fail and ends the process;
enrollment may take any time, so either thread may find itself late.

## 3. Runs

Every run finishes within about four minutes with two workers.

| Run | Question | Instance |
| --- | --- | --- |
| `executor_safety` | ownership, custody, drain, error reporting, retirement, expiry, contract refinement | two sessions; two messages of one message-aware group (one with an invalid stamp) and a timer of another; all eight faults; removal and re-registration of the timer's group; clock to 3 with a relative deadline of 1, so that a message can expire before selection, between the two tests, or never |
| `executor_liveness` | does a cancelled or failed session return, is selected and ready work served? | one session, two jobs, all faults |
| `executor_registration` | *violation*: do profiles stay as they are while the executor spins? | one session; see finding below |
| `graph_calls` | conservation, age, merge order, snapshot order | capacity 2, batches of 3, two source times, two sequence numbers per stream: full inboxes, cut batches and equal times occur |
| `workload_rounds` | do jobs, callbacks, graph and hints fit together, is the normal exit drained? | all five stages, queue capacity 1, two imu and two control releases: catch-up and full queues occur |
| `workload_faults` | unwinding with jobs in work; does the program always end? | one release per stage and a hog; every call of two workers may fail |
| `cpu_window` | are the reported CPU bounds right for every preemption? | three jobs of up to two ticks around a cutoff at 3 |
| `demo_chain` | hints, wake-ups, delivery of bursts, window report; does the program end? | three camera frames (the last two held and delivered together) through two stages, one imu tick, clock up to the cutoff, failing publication for mapping |
| `demo_merge` | the inductive invariant: lost wake-ups, conservation, order and counters with two producers of one queue; does every stage pop the items of a source in order, whatever comes between them? | two frames, held and delivered together, that meet one scan at mapping, where it may come before, between or after them; eviction |
| `bag_session` | is every message counted exactly once by adapter, audit and stages; did an accepted case measure the window without a gap; does the exit code tell the truth; does the program end? | external mode with five recordings (an imu message and the second frame, both measured; a warm-up frame, one that the index does not know and a measured one; an index that goes back; three imu messages, all in the window or the first two in it) and a script that expects two imu messages and one frame, so that windows with fewer, with exactly as many and with more messages than expected occur, and lines of several messages are accepted; late readers, a failing adapter, a script that gives up, `--window-stats`; and synthetic mode with one frame, a contender, failing calls of vision and of the contender, a late thread and a late reader |
| `bag_identity` | *violation*: do the printed counts add up? | external mode with `--window-stats`, one recording |
| `edf` | are hints, policies and samples right, does the contrast between the schedulers hold, with the demand argument behind it, does the process end? | the real task set (periods 50 and 70 ms in ticks of 0.1 ms) over its whole length under all five modes, every job at its work or its reservation, failing calls, late enrollment |

Every run of `MCFreshnessExecutor` also evaluates `ExpiryExact`: for all profiles,
stamps and times of its clock, `expired(make_hint(..))` is the comparison in
unbounded arithmetic (the theorem `ExpiredIsExact` says so for every width). It
evaluates `AblationAgrees` in the same way, `MCBagSession` evaluates `MetricsExact`,
and `MCEdfWorkload` evaluates `TaskSetContrasts`: the task set of the program meets
the hypotheses of `ContrastHolds`. `edf` checks the whole inductive invariant of its
proof (`EdfInv`); `bag_session` checks the conjuncts of `SessionInv` that say something
of the program (`CountedOnce`), because the rest of it, the
types and places they follow from, is proved and costs TLC a third of the run.

The bounds (`MaxNow`, `MaxSpins`, `MaxTime`, `MaxSequence`, `MaxId`,
`MaxHogJobs`, `MaxWall`, `MaxJobs`, `Jobs`, `Recordings`, `Nominal`) only cut executions short. Two sessions are
enough for a session to start from any state a former one can leave, because
`spin()` resets everything but the map slot and the messages; two jobs of one
group are enough for one to wait while the other is in hand. The theorems of
section 5 do not depend on the bounds.

`CHECK_DEADLOCK FALSE` is used only in the liveness runs of programs that
really stop (and in `bag_session`, where a lost `cancel()` really hangs the join:
`RosEnds` is stated for the runs in which every thread has entered `spin()`
before it is cancelled); a stuck state would violate the liveness property there.

**Finding** (`executor_registration`, property `ProfilesFrozen`).
`add_callback_group_with_profile()` and `remove_callback_group()` test
`is_spinning()` first and write the profile map later, under another lock. A
`spin()` that starts in between runs with profiles that change under it, although
the exception says "callback profiles cannot change while the executor is
spinning"; in the message-aware variant the profile is even visible before its
extractor, so a message selected in between is run without its expiry test.

**Finding** (`bag_identity`, property `ReportAddsUp`). In external mode `offered`
is counted by the audit node and everything else by the executors and their
observers; nothing orders the two, and the four snapshots are taken one after
the other. A job that is completed but not yet offered makes
`offered < completed` and `unfinished` is clamped at zero, against the identity
in `docs/DESIGN_EVALUATION.md`. What does hold exactly is `Accounted`: the
counters of each stage against the messages that were really sent. The model has
no clock, so its counterexample has a single message; in the program it is a job
released just before the cutoff.

## 4. Fairness

Safety properties use no fairness. The liveness runs assume weak fairness of
each thread's next step and, where the program sleeps until a time, of the
clock. That is what the code relies on: threads of a preemptive kernel, blocked
only in the waits that the models show, and callbacks and busy loops that end.
A thread in a condition wait is not enabled, so fairness never stands in for a
missing notification; spurious wake-ups are possible but not fair. The ROS
pipeline needs less: whenever one of its threads can take a step, some thread
takes one (`Runs`), whichever it is; no thread of it takes infinitely many. Message
arrival, `cancel()`, shutdown, faults and the expiry of `wait_for_pid()` are
never assumed to happen.

## 5. Proofs

| Theorem | Module | Statement |
| --- | --- | --- |
| `ExpiredIsExact`, `ExpiryIsMonotone` | `HintPolicyProofs` | the expiry test equals the comparison in unbounded arithmetic, for every width of the clock, and stays true |
| `RoutesAgree`, `AdmittedIsShownInTime`, `IdentityKept` | | both routes of a hint mode show the same hint; the rewritten hint of a bag run is never past its bounds while the executor still admits the message, and under `full` and `fe-only` it is past them exactly when the executor rejects it (`imu-only` shows an expired camera message as fresh); job id and release survive every mode |
| `Invariance` | `FreshnessExecutorProofs` | `Spec => []IInv` |
| `HintOwnershipHolds`, `CustodyHolds`, `DrainedOnReturnHolds`, `NoErrorLostHolds`, `HintRetiredHolds`, `OnlyExpiredDroppedHolds`, `ClearIsFinalHolds` | | the safety properties of the executor |
| `ImplementsContractHolds` | | the executor implements `HintContract` |
| `GraphInvariance`, `ConservedHolds`, `NoFutureSourceHolds`, `SnapshotsAdvanceHolds` | `DependentGraphProofs` | the graph, for every capacity, batch limit and clock |
| `StreamOrderHolds`, `OldestFirstHolds` | | the merge of the inboxes reorders and skips nothing of a stream, and takes the oldest measurements |
| `WorkloadInvariance` | `DependentWorkloadProofs` | `Spec => []WorkloadInv`, for every number of rounds and jobs and every failing call |
| `JobOwnsHintHolds`, `CallbacksAllowedHolds`, `CleanExitHolds` | | the safety properties of the workload |
| `ImplementsContractHolds` | | every stage worker implements `HintContract` for its own slot |
| `DemoInvariance` | `PipelineDemoProofs` | `Spec => []DemoInv`, for any stages and sources whose routes end |
| `HintNamesItemHolds`, `AllDeliveredHolds`, `WindowExactHolds`, `WakeSafeHolds` | | the safety and action properties of the demo |
| `StreamOrderHolds` | | `HistorySpec => []StreamOrder`: of any two items of one source that a stage pops, the first was generated first |
| `SessionInvariance` | `BagSessionProofs` | `SessionSpec => []SessionInv`, for every recording, number of messages and contender, and whatever is late, slow or faulty |
| `CountedOnceHolds` | | what it says of the program: the counters of every stage, those of the adapter with its trace, and the offers of the audit node |
| `ExitTruthHolds` | | what exit code 0 and the abort say is true |
| `AcceptedIsWholeHolds` | | a stream that is accepted by its nominal count under the index of its bag measured a run of messages of the window without a gap, and the whole window if it holds no more than that |
| `PercentileIsNearestRank` | | `percentile_99()` reads inside the vector, at the nearest rank |
| `EdfInvariance` | `EdfWorkloadProofs` | `Spec => []EdfInv`, for every pair of tasks, lead and mode |
| `ContrastHolds` | | deadline order misses nothing and fixed priorities miss a deadline, for every task set that fits (`Fits`) and whose tasks starve each other (`Starves`) |
| `CpuInvariance`, `WindowCpuBoundedHolds`, `DrainNeverWrapsHolds` | `CpuWindowProofs` | the CPU accounting, for every cutoff, work and preemption |

Assumptions: only the named `ASSUME`s on the constants (`ConstantsAssumption`,
`LimitsAssumption`, `BoundsAssumption`, `WorkloadAssumption`, `NoJobAssumption`,
`DemoAssumption`, `CpuAssumption`, `RosAssumption`, `AdapterAssumption`,
`RecordingsAssumption`, `NominalAssumption`, `CaseAssumption`, `EdfAssumption`, `MaxU64Assumption`): types of the
parameters, that `None` and `Clear` are not jobs, that the workers are
constructed once each, and for the demo that stages and sources are finitely many,
that following `Out` ends (a function that falls by one at every step exists), and
that a sensor has exactly the frames released before the cutoff. Of a recording they say
that the player does not start behind its end and that a bag with an index repeats no
stamp (the script that writes the index refuses one that does), and of a case that the
adapter waits for two readers of each topic, as the script tells it to, and that the
nominal counts are positive. Nothing ties a nominal count to the number of messages in
the bag. `AcceptedIsWhole` says of a stream whose index numbers the messages of its bag
(`Numbered`, what `ros2_bag_source_epoch.py` writes) what its acceptance means; the
invariant does not need it, and the run also has an index that lacks a message of its bag.
`ContrastHolds` has hypotheses of its own: `Fits` and `Starves` are inequalities between the periods and costs of the two tasks; TLC evaluates
them for the task set of the program.

**Executor.** The properties are not inductive by themselves: which hint is in
the slot depends on where both threads are. `IInv` is the conjunction of
`TypeOK`; `Phases` (which dispatcher and worker positions go together, and what
`worker_ready`, `worker_idle`, `stop` mean there: in particular, while the
dispatcher is between *idle seen* and *hand-over* the worker is parked or gone);
`Holding` (a job is in at most one of `dwork`, `pending`, `wwork`, and exactly
its message and group are lent out); `Hinting` (slot, owner and
`hint_needs_clear` agree); `Carrying` (which errors are stored or in flight,
against `raised`); `OnlyExpiredDropped`. Each action is a lemma; the refinement
follows because every step either leaves slot and owner alone or is one step of
the contract.

**Graph.** `GraphInv` adds to conservation and age that an inbox holds only its
stream and that batch ids are in order. The key lemma is that a merge of the
inboxes pops from each stream exactly as many as it takes in total, so that
what leaves the inboxes is what becomes the batch. For the order, the k-th pop of
a stream is the k-th of its inbox: the counts of pops before a position grow by
one exactly where that stream is popped.

**Dependent workload.** What main does depends on private state (`queue`, `busy`,
the counters) and on what the workers' mutexes guard, and `WorkloadInv` ties the
two: `OneJob` (of slot, thread and result at most one holds a job, and exactly when
`busy`), `HintOfJob` (the slot of the map names it), `MainPlace` (what each place of
main implies about construction and about the threads: in a round all are up, and
between publication and hand-off the hint already names the job), `Accounted`
(offered = completed + dropped + queued + with the worker, and the graph has seen
exactly the completed ones), `JobsInOrder` (ids with the worker and in the queue
ascend, beyond what the graph has seen), `BatchHasJob` (the running batch of the
graph is the estimator's job), `Released`, and `WayOut` (what the destructors have
already done). `CallbacksAllowed` follows from `JobsInOrder` and `BatchHasJob`: they
imply the preconditions of `offer` and `complete` whenever main gets to the callback. The
contract is instantiated once per worker, with the jobs of that worker as the owned
set.

**Pipeline demo.** `DemoInv` consists of the places of the threads (`StagePlace`,
`SourcePlace`, `ImuPlace`, `MainPlace`), of `NoLostWakeup` and `HintNamesItem`, and of
three arguments of their own:

- *Window.* `WindowSoFar`: until the cutoff the counters report the load of this
  instant, from then on that of the cutoff. Each action changes counters and load
  alike; the tick to the cutoff freezes both.
- *Conservation.* `Conserved` equates the arrivals at a queue, a sum over its sources
  and preceding stages, with where the items are. `ArrivedChange` says by how much the
  sum moves, from `TotalChange`: a sum over a finite set changes by what its one
  changed term does.
- *Order.* Routes of several sources merge, so order in one queue depends on order
  upstream. `InOrder` compares every stage with all stages nearer to the end
  (`Rank` counts the stages still ahead): what a nearer stage has seen of a source is
  older than what a farther one still has. `RouteUnique` shows that a route passes
  each rank once, so two stages of equal rank never carry the same source. `OnRoute`
  puts every item on the route of its source. A push keeps the order if the item is
  newer than all that was seen from there on and older than all that is still to come
  (`PushOrder`); a generator pushes its next number, a stage the item it popped.

`StreamOrder` is about the history. `TakenAhead` says of every item that a stage has
ever popped that it is behind the generator's last number and ahead of all items of its
source that are queued for the stage or still upstream of it. A push adds an item to what
is upstream: a new one (`FeedAhead`), or one that was already upstream of the stages it
has yet to reach (`ForwardAhead`). A pop takes one of the items that all popped ones are
ahead of (`PopTaken`).

Eviction is a loop over the queue, a recursive function here (`Without`).
`WithoutFacts` shows that it leaves a subsequence, and `TotalRecursion` that a sum
over a finite set obeys its recursion. Both use that a nonempty set of naturals has a
least element (`LeastNumber`), applied to the set of counterexamples, in place of an
induction rule.

**CPU window.** `CpuInv` relates the clocks (`Clocks`), the open bracket
(`Bracketed`), the bounds of the running job (`JobBounds`) and the sums.
`SampleBounds` is the heart: a CPU value read after `before` and before the
present keeps both bounds right, whichever side of the cutoff the two wall
reads fall on.

**Pipeline and bag session.** `SessionInv` extends `RosInv`, the invariant of the
pipeline, to the programs around it.

- *Accounting.* `Accounted` says of each stage that what it has resolved (completed,
  dropped, told from upstream), what is lost and what is still unresolved add up to what
  was sent. `UnresolvedAt` turns "unresolved" into places: a message is unresolved at a
  stage if it is queued, in hand or lost there or nearer to its source, or if a drop on
  the way has yet to be passed on (`owed`). `AtOnePlace` makes the places disjoint. Each
  step then moves one message (`TakeFlow`, `ThrowFlow`, `CompleteFlow`, `DropFlow`,
  `SettleFlow`, `PublishFlow`, `SendFlow`) and either resolves it at one stage
  (`ResolveOne`) or at none (`ResolveNone`); all other steps are `Undisturbed`.
- *Audit.* While the audit node lives, what is offered to a stage and what still waits
  for it (queued at the audit or in its hand) add up to what was sent (`Heard`). This
  needs that both readers of a job topic are matched before the first job, which is
  what the readiness gate of the script is for (`Gated`).
- *main().* No step forgets a failure (`FailureSteps`), and a snapshot is at most what
  the books say later, because a stage only adds to them (`LineOf`, `LaterIs`).
- *Origins.* The identity of a job is that of its message under the index, or counts the
  jobs without one; a stream has at most one job per message played (`OriginSends`,
  with an injective bag). `PublishIs` balances the counters and the trace of the adapter.

`ExitTruth` is inductive relative to `SessionInv`: a synthetic run whose stages have
completed what was asked for has nothing unresolved, so nothing is lost or in a queue
(`DrainedIsClean`).

`AcceptedIsWhole` needs an invariant about order (`InOrder`, with `OfferOrder` and
`RunGrows`): the identities of the measured jobs rise in the order in which the adapter
publishes them, and from the first one on no ordinal of the window is left out, because
the player loses messages only before the adapter has received one. The audit node hears
them in that order (`TakeOrder`, `OrderStays`), so the first and the last job of a line
enclose what was offered before the snapshot and nothing else (`NoGap`). That the span
is the nominal count then says how many they are (`AcceptedRun`), and if the window holds
no more, they are all of it and its ends are theirs (`AcceptedWindow`, `Ends`). The script
cannot exclude the remaining case: when the window of the bag holds more messages than the
nominal count, a case that missed the surplus at either end is accepted.

**EDF probe.** `Hinted`, `Enrolled` and `CleanEnd` hold because a thread's policy,
job and slot follow from where it is (`Position`) and because no thread leaves the
barrier alone (`Together`); both are conjuncts of `EdfInv`. `MoveCore` covers every
statement that takes no time; `RunCore` shows that a sample starts at or after the
release and covers the work, with `RunLength` bounding how long the CPU runs.

The contrast needs an argument about time. `Fits` says that the reservations use at most
the whole CPU: R/P + S/Q <= 1, multiplied by the periods. `OnTime` is a demand bound for
the two current deadlines: up to each there is time for what is left of its job, and up to
the later one there is time for both and for a proportional share of the jobs that the
task with the earlier deadline will still release (its reservation per period, again
multiplied out). Running the earlier deadline takes from the demand what it takes from the
time (`WorkPaces`, `OnTimeRun`); a job that ends is replaced by one whose deadline is a
period later, which may change the order of the two deadlines (`NextFirst`, `NextLast`,
`NextCrosses`, `OnTimeNext`); and when the CPU is idle, or the epoch has not come, both
tasks are fresh and the bound is `Fits` again (`FreshPair`). In scx mode the scheduler
orders by the published hint, which is the job's own (`DeadlineKnown`). For fixed
priorities `Elapsed` says that the CPU gives no more work than time has passed since the
epoch; the lower task ends its first job only while the other sleeps or is gone, hence
after one job of the other at least, and after two unless the second is released behind
the deadline (`StarvedMisses`, `FirstMiss`).

Only model-checked:

- liveness (`CancelledSpinReturns`, `FailureEndsSession`, `SelectedIsResolved`,
  `ReadyIsServed`, `ProgramEnds`, `DemoEnds`, `RosEnds`, `EdfEnds`): fairness and
  `ENABLED` are outside the prover's reach;
- `AblationAgrees` and `ExpiryExact` on their bounded inputs (theorems cover what they
  check), and `window_iterations` against `InHalfOpen`.

## 6. Not modelled

- A second thread that calls `spin()` while the first one drains after
  `cancel()`; the documents describe one spinning thread.
- The BPF scheduler, libfreshqos, rclcpp and DDS: outside the repository; a map
  update is atomic and may fail, a volatile message reaches the readers that are
  matched.
- What rclcpp does with a job in hand after `cancel()`: `execute_any_executable` returns
  without running it once `spinning` is false. The worker calls it for jobs without a
  taken message (timers, services), so such a job, which the model lets run, may be
  skipped; its callback group is returned either way, and nothing else here depends on
  its callback.
- The depth of the job queues (`KeepLast(1000)` in `slam_pipeline.cpp`): a reader that
  falls a thousand messages behind loses the oldest. `RosPipeline` delivers to queues
  without a bound, so `CountedOnce` and the other properties are about runs below that
  load.
- In external mode `wait_for_external_sources()` counts publishers as the readers see them,
  and the adapter counts readers as its writers see them. `RosPipeline` matches a writer
  and a reader in one step (`Link`), so the two counts never disagree.
- The scripts but for the gate and the acceptance of a bag case, plotting, option
  parsing, report texts, build files, message definitions: text and process control
  without a protocol of their own.
- Ages, lateness and CPU totals of the pipelines beyond `CpuWindow`, and the hog
  threads of the standalone demo: they read clocks and counters and change nothing
  that another part depends on.

## 7. Plan

1. A second dispatcher in `FreshnessExecutor`, with the fields it resets under the
   first one.
2. Lateness counters of the demo and the pipeline.
3. `window_iterations` for records of any length.
