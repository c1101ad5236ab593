---------------------------- MODULE PipelineDemo ----------------------------
(***************************************************************************)
(* The standalone pipeline demo: sensor generators push items into the     *)
(* blocking queue of a stage, every stage is one consumer thread that pops *)
(* an item, judges it, computes, and pushes it into the next queue; the    *)
(* imu thread paces itself.  Producers publish the hint of a consumer that *)
(* they wake, the consumer publishes the hint of what it pops.  main joins *)
(* the sources, stops the queues and joins the stages.                     *)
(***************************************************************************)
EXTENDS Integers, Sequences, FiniteSetsExt

CONSTANTS Stages, Sources,  \* queued stages; sensor generators
          Imu,              \* the imu thread: no queue, a hint slot of its own
          None,             \* no next stage; an empty hint slot
          Out,              \* [Stages -> Stages \cup {None}]: the next stage
          Feeds,            \* [Sources -> Stages]
          Period, Frames,   \* of every source and of the imu thread
          BurstFirst, BurstAt,  \* held frames of a source, by index; none if First > At
          StaleNs,          \* [Stages -> Nat]; 0 = never stale
          DropStale, WindowStats,   \* command line flags
          StopOrder,        \* the order in which main stops the queues
          Unhinted,         \* consumers whose hint publication may fail
          Cutoff,           \* the duration of the workload, which starts at 0
          MaxTime           \* bound: the clock stops here

\* Stages form chains that end: r counts the stages still ahead of an item.
Leads(r) == \A s \in Stages : Out[s] # None => r[s] = r[Out[s]] + 1

ASSUME DemoAssumption ==
    /\ None \notin Stages /\ Imu \notin Stages \cup Sources \cup {None}
    /\ IsFiniteSet(Stages) /\ IsFiniteSet(Sources)
    /\ Out \in [Stages -> Stages \cup {None}] /\ Feeds \in [Sources -> Stages]
    /\ \E r \in [Stages -> 0 .. Cardinality(Stages)] : Leads(r)
    /\ None \notin (Sources \cup {Imu}) \X Nat
    /\ Period \in [Sources \cup {Imu} -> Nat \ {0}]
    /\ Frames \in [Sources \cup {Imu} -> Nat]
    /\ \A g \in Sources \cup {Imu} :           \* release < end
           \A k \in 0 .. Frames[g] : k < Frames[g] <=> k * Period[g] < Cutoff
    /\ BurstFirst \in [Sources -> Nat] /\ BurstAt \in [Sources -> Int]
    /\ \A g \in Sources : BurstAt[g] < Frames[g]      \* main refuses other bursts
    /\ StaleNs \in [Stages -> Nat]
    /\ DropStale \in BOOLEAN /\ WindowStats \in BOOLEAN
    /\ StopOrder \in Seq(Stages) /\ StopOrder # <<>>
    /\ Unhinted \subseteq Stages \cup {Imu}
    /\ Cutoff \in Nat /\ MaxTime \in Nat /\ Cutoff <= MaxTime

Producers == Sources \cup {Imu}
\* WorkItem: its time stamp is the release time of its sequence number.
Item == {v \in Producers \X Nat : v[2] \in 1 .. Frames[v[1]]}
Ts(v) == (v[2] - 1) * Period[v[1]]

VARIABLES
    now,                                    \* CLOCK_MONOTONIC
    main, running, stopped,                 \* main(): where it is; queues stopped so far
    frame, held, generated,                 \* the generators
    queue, waiting, stop, evicted,          \* BlockingQueue
    stage, item,                            \* stage_worker(): where it is; w
    processed, dropped,                     \* StageStats
    imu, job,                               \* imu_thread(): where it is; seq
    hint,                                   \* the BPF map, by consumer thread
    window,                                 \* WindowQueueStats and WindowStageStats
    cut                                     \* what really was queued and in hand at the cutoff

genVars   == <<frame, held, generated>>
queueVars == <<queue, waiting, evicted>>
statVars  == <<processed, dropped>>
imuVars   == <<imu, job>>
mainVars  == <<main, running, stopped, stop>>
vars == <<now, mainVars, genVars, queueVars, stage, item, statVars, imuVars, hint,
          window, cut>>

Counters == [offered : Nat, dequeued : Nat, evicted : Nat, completed : Nat, dropped : Nat]
Load     == [pending : Nat, in_flight : Nat]

DemoTypeOK ==
    /\ now \in 0 .. MaxTime
    /\ main \in {"await", "run", "window", "stop", "join", "done"}
    /\ running \in BOOLEAN /\ stopped \in 0 .. Len(StopOrder)
    /\ frame \in [Sources -> Nat] /\ held \in [Sources -> Seq(Item)]
    /\ generated \in [Sources -> Nat]
    /\ queue \in [Stages -> Seq(Item)] /\ evicted \in [Stages -> Nat]
    /\ waiting \in [Stages -> BOOLEAN] /\ stop \in [Stages -> BOOLEAN]
    /\ stage \in [Stages -> {"enroll", "test", "pop", "asleep", "judge", "work",
                             "push", "gone"}]
    /\ item \in [Stages -> Item \cup {None}]
    /\ processed \in [Stages \cup {Imu} -> Nat] /\ dropped \in [Stages -> Nat]
    /\ imu \in {"start", "publish", "sleep", "work", "gone"} /\ job \in Nat
    /\ hint \in [Stages \cup {Imu} -> Item \cup {None}]
    /\ window \in [Stages \cup {Imu} -> Counters] /\ cut \in [Stages \cup {Imu} -> Load]

NoCounts == [offered |-> 0, dequeued |-> 0, evicted |-> 0, completed |-> 0, dropped |-> 0]

Init ==
    /\ now = 0 /\ main = "await" /\ running = TRUE /\ stopped = 0
    /\ frame = [g \in Sources |-> 0] /\ held = [g \in Sources |-> <<>>]
    /\ generated = [g \in Sources |-> 0]
    /\ queue = [s \in Stages |-> <<>>] /\ evicted = [s \in Stages |-> 0]
    /\ waiting = [s \in Stages |-> FALSE] /\ stop = [s \in Stages |-> FALSE]
    /\ stage = [s \in Stages |-> "enroll"] /\ item = [s \in Stages |-> None]
    /\ processed = [s \in Stages \cup {Imu} |-> 0] /\ dropped = [s \in Stages |-> 0]
    /\ imu = "start" /\ job = 1
    /\ hint = [s \in Stages \cup {Imu} |-> None]
    /\ window = [s \in Stages \cup {Imu} |->
                     [NoCounts EXCEPT !.offered = IF s = Imu THEN Frames[Imu] ELSE 0]]
    /\ cut = [s \in Stages \cup {Imu} |-> [pending |-> 0, in_flight |-> 0]]

-----------------------------------------------------------------------------
(* Helpers                                                                 *)

InsideWindowLate == WindowStats /\ now <= Cutoff    \* mutant: the cutoff itself counts
inside_window == WindowStats /\ now < Cutoff

One == IF inside_window THEN 1 ELSE 0

is_stale(v, s) == StaleNs[s] # 0 /\ now - Ts(v) > StaleNs[s]

\* publish_hint(): a consumer that waits or pops has registered its pid.
Publish(s, v) ==
    hint' \in {[hint EXCEPT ![s] = v]} \cup (IF s \in Unhinted THEN {hint} ELSE {})

\* evict_stale_locked(): the queue q without the items in old
Without(q, old) ==
    LET kept[i \in 0 .. Len(q)] ==
            IF i = 0 THEN <<>>
            ELSE IF q[i] \in old THEN kept[i - 1] ELSE Append(kept[i - 1], q[i])
    IN  kept[Len(q)]

Fresh(s) == IF DropStale THEN Without(queue[s], {v \in Item : is_stale(v, s)})
            ELSE queue[s]

PublishesAlways(s) == stage[s] # "enroll"           \* mutant: waiting_ is not tested
PublishesBehindOthers(s) == waiting[s] /\ queue[s] # <<>>    \* mutant
PublishesOnWake(s) == waiting[s]

WokenNone(s) == stage                               \* mutant: no notify_one()
Woken(s) == IF stage[s] = "asleep" THEN [stage EXCEPT ![s] = "pop"] ELSE stage

\* mutant: an item is put in front of the queue
PushedFront(s, v) == <<v>> \o Fresh(s)
Pushed(s, v) == Append(Fresh(s), v)

\* BlockingQueue::push(), under the lock of the queue, but for the wake-up
Push(s, v) ==
    LET old == Len(queue[s]) - Len(Fresh(s)) IN
    /\ queue' = [queue EXCEPT ![s] = Pushed(s, v)]
    /\ evicted' = [evicted EXCEPT ![s] = @ + old]
    /\ window' = [window EXCEPT ![s].offered = @ + One, ![s].evicted = @ + old * One]
    /\ waiting' = [waiting EXCEPT ![s] = FALSE]
    /\ IF PublishesOnWake(s) THEN Publish(s, v) ELSE hint' = hint

-----------------------------------------------------------------------------
(* Generators                                                              *)

Started == main # "await"

\* mutant: the frame of the delivery is not part of the burst
InBurstBefore(g) == frame[g] >= BurstFirst[g] /\ frame[g] < BurstAt[g]
InBurst(g) == frame[g] >= BurstFirst[g] /\ frame[g] <= BurstAt[g]
\* The frame of the delivery was held last: the burst is being pushed.
Delivering(g) == held[g] # <<>> /\ held[g][Len(held[g])] = <<g, BurstAt[g] + 1>>
Released(g) == frame[g] < Frames[g] /\ now >= frame[g] * Period[g]
GeneratorDone(g) == frame[g] = Frames[g] /\ ~ Delivering(g)

Hold(g) ==
    /\ Started /\ Released(g) /\ ~ Delivering(g) /\ InBurst(g)
    /\ held' = [held EXCEPT ![g] = Append(@, <<g, frame[g] + 1>>)]
    /\ frame' = [frame EXCEPT ![g] = @ + 1]
    /\ UNCHANGED <<now, mainVars, generated, queueVars, stage, item, statVars, imuVars,
                   hint, window, cut>>

Generate(g) ==
    /\ Started /\ Released(g) /\ ~ Delivering(g) /\ ~ InBurst(g)
    /\ Push(Feeds[g], <<g, frame[g] + 1>>) /\ stage' = Woken(Feeds[g])
    /\ frame' = [frame EXCEPT ![g] = @ + 1]
    /\ generated' = [generated EXCEPT ![g] = @ + 1]
    /\ UNCHANGED <<now, mainVars, held, item, statVars, imuVars, cut>>

Deliver(g) ==
    /\ Delivering(g)
    /\ Push(Feeds[g], Head(held[g])) /\ stage' = Woken(Feeds[g])
    /\ held' = [held EXCEPT ![g] = Tail(@)]
    /\ generated' = [generated EXCEPT ![g] = @ + 1]
    /\ UNCHANGED <<now, mainVars, frame, item, statVars, imuVars, cut>>

-----------------------------------------------------------------------------
(* stage_worker()                                                          *)

Enroll(s) ==
    /\ stage[s] = "enroll" /\ stage' = [stage EXCEPT ![s] = "test"]
    /\ UNCHANGED <<now, mainVars, genVars, queueVars, item, statVars, imuVars, hint,
                   window, cut>>

TestRunning(s) ==
    /\ stage[s] = "test"
    /\ stage' = [stage EXCEPT ![s] = IF running THEN "pop" ELSE "gone"]
    /\ UNCHANGED <<now, mainVars, genVars, queueVars, item, statVars, imuVars, hint,
                   window, cut>>

\* pop(), on entry and whenever wait() has returned
PopWait(s) ==
    /\ stage[s] = "pop" /\ ~ stop[s] /\ queue[s] = <<>>
    /\ waiting' = [waiting EXCEPT ![s] = TRUE]
    /\ stage' = [stage EXCEPT ![s] = "asleep"]
    /\ UNCHANGED <<now, mainVars, genVars, queue, evicted, item, statVars, imuVars, hint,
                   window, cut>>

SpuriousWake(s) ==
    /\ stage[s] = "asleep" /\ stage' = [stage EXCEPT ![s] = "pop"]
    /\ UNCHANGED <<now, mainVars, genVars, queueVars, item, statVars, imuVars, hint,
                   window, cut>>

\* What is still queued stays there and is reported as pending.
PopStopped(s) ==
    /\ stage[s] = "pop" /\ stop[s]
    /\ waiting' = [waiting EXCEPT ![s] = FALSE]
    /\ stage' = [stage EXCEPT ![s] = "gone"]
    /\ UNCHANGED <<now, mainVars, genVars, queue, evicted, item, statVars, imuVars, hint,
                   window, cut>>

PopTake(s) ==
    /\ stage[s] = "pop" /\ ~ stop[s] /\ queue[s] # <<>>
    /\ item' = [item EXCEPT ![s] = Head(queue[s])]
    /\ queue' = [queue EXCEPT ![s] = Tail(@)]
    /\ window' = [window EXCEPT ![s].dequeued = @ + One]
    /\ Publish(s, Head(queue[s]))
    /\ waiting' = [waiting EXCEPT ![s] = FALSE]
    /\ stage' = [stage EXCEPT ![s] = "judge"]
    /\ UNCHANGED <<now, mainVars, genVars, evicted, statVars, imuVars, cut>>

Drop(s) ==
    /\ stage[s] = "judge" /\ DropStale /\ is_stale(item[s], s)
    /\ dropped' = [dropped EXCEPT ![s] = @ + 1]
    /\ window' = [window EXCEPT ![s].dropped = @ + One]
    /\ stage' = [stage EXCEPT ![s] = "test"]
    /\ UNCHANGED <<now, mainVars, genVars, queueVars, item, processed, imuVars, hint, cut>>

Compute(s) ==
    /\ stage[s] = "judge" /\ ~ (DropStale /\ is_stale(item[s], s))
    /\ stage' = [stage EXCEPT ![s] = "work"]
    /\ UNCHANGED <<now, mainVars, genVars, queueVars, item, statVars, imuVars, hint,
                   window, cut>>

Complete(s) ==
    /\ stage[s] = "work"
    /\ processed' = [processed EXCEPT ![s] = @ + 1]
    /\ window' = [window EXCEPT ![s].completed = @ + One]
    /\ stage' = [stage EXCEPT ![s] = IF Out[s] = None THEN "test" ELSE "push"]
    /\ UNCHANGED <<now, mainVars, genVars, queueVars, item, dropped, imuVars, hint, cut>>

Forward(s) ==
    /\ stage[s] = "push"
    /\ Push(Out[s], item[s]) /\ stage' = [Woken(Out[s]) EXCEPT ![s] = "test"]
    /\ UNCHANGED <<now, mainVars, genVars, item, statVars, imuVars, cut>>

Stage(s) == \/ Enroll(s) \/ TestRunning(s) \/ PopWait(s) \/ PopStopped(s) \/ PopTake(s)
            \/ Drop(s) \/ Compute(s) \/ Complete(s) \/ Forward(s)

-----------------------------------------------------------------------------
(* imu_thread()                                                            *)

ImuStart ==
    /\ imu = "start" /\ Started
    /\ imu' = IF Frames[Imu] = 0 THEN "gone" ELSE "publish"
    /\ UNCHANGED <<now, mainVars, genVars, queueVars, stage, item, statVars, job, hint,
                   window, cut>>

ImuPublish ==
    /\ imu = "publish" /\ imu' = "sleep"
    /\ Publish(Imu, <<Imu, job>>)
    /\ UNCHANGED <<now, mainVars, genVars, queueVars, stage, item, statVars, job, window,
                   cut>>

ImuWake ==
    /\ imu = "sleep" /\ now >= Ts(<<Imu, job>>) /\ imu' = "work"
    /\ window' = [window EXCEPT ![Imu].dequeued = @ + One]
    /\ UNCHANGED <<now, mainVars, genVars, queueVars, stage, item, statVars, job, hint, cut>>

ImuComplete ==
    /\ imu = "work"
    /\ processed' = [processed EXCEPT ![Imu] = @ + 1]
    /\ window' = [window EXCEPT ![Imu].completed = @ + One]
    /\ job' = job + 1 /\ imu' = IF job = Frames[Imu] THEN "gone" ELSE "publish"
    /\ UNCHANGED <<now, mainVars, genVars, queueVars, stage, item, dropped, hint, cut>>

ImuThread == ImuStart \/ ImuPublish \/ ImuWake \/ ImuComplete

-----------------------------------------------------------------------------
(* main()                                                                  *)

\* wait_for_pid() gives up after two seconds: main goes on in any case.
StartWorkload ==
    /\ main = "await" /\ main' = "run"
    /\ UNCHANGED <<now, running, stopped, stop, genVars, queueVars, stage, item, statVars,
                   imuVars, hint, window, cut>>

JoinSources ==
    /\ main = "run" /\ imu = "gone" /\ \A g \in Sources : GeneratorDone(g)
    /\ main' = "window"
    /\ UNCHANGED <<now, running, stopped, stop, genVars, queueVars, stage, item, statVars,
                   imuVars, hint, window, cut>>

EndWindow ==
    /\ main = "window" /\ (WindowStats => now >= Cutoff)
    /\ running' = FALSE /\ main' = "stop"
    /\ UNCHANGED <<now, stopped, stop, genVars, queueVars, stage, item, statVars, imuVars,
                   hint, window, cut>>

\* mutant: stop() wakes the consumer without setting stop_
StopFlagKept(s) == stop
StopFlag(s) == [stop EXCEPT ![s] = TRUE]

StopQueue ==
    LET s == StopOrder[stopped + 1] IN
    /\ main = "stop"
    /\ stop' = StopFlag(s) /\ stage' = Woken(s)
    /\ stopped' = stopped + 1
    /\ main' = IF stopped' = Len(StopOrder) THEN "join" ELSE "stop"
    /\ UNCHANGED <<now, running, genVars, queueVars, item, statVars, imuVars, hint, window,
                   cut>>

JoinStages ==
    /\ main = "join" /\ \A s \in Stages : stage[s] = "gone"
    /\ main' = "done"
    /\ UNCHANGED <<now, running, stopped, stop, genVars, queueVars, stage, item, statVars,
                   imuVars, hint, window, cut>>

Main == StartWorkload \/ JoinSources \/ EndWindow \/ StopQueue \/ JoinStages

-----------------------------------------------------------------------------
InHand(s) == IF stage[s] \in {"judge", "work"} THEN 1 ELSE 0

\* What the window report is about: the load at the instant of the cutoff
LoadOf(s) ==
    IF s = Imu
    THEN [in_flight |-> IF imu = "work" THEN 1 ELSE 0,
          pending |-> Frames[Imu] - processed[Imu] - (IF imu = "work" THEN 1 ELSE 0)]
    ELSE [in_flight |-> InHand(s), pending |-> Len(queue[s])]

Tick ==
    /\ Started /\ now < MaxTime /\ now' = now + 1
    /\ cut' = IF now' = Cutoff THEN [s \in Stages \cup {Imu} |-> LoadOf(s)] ELSE cut
    /\ UNCHANGED <<mainVars, genVars, queueVars, stage, item, statVars, imuVars, hint,
                   window>>

Ended == main = "done" /\ UNCHANGED vars

Next ==
    \/ \E g \in Sources : Hold(g) \/ Generate(g) \/ Deliver(g)
    \/ \E s \in Stages : Stage(s) \/ SpuriousWake(s)
    \/ ImuThread \/ Main \/ Tick \/ Ended

Spec == Init /\ [][Next]_vars

\* Threads are preempted but run again, and the clock does not stand still.
Fairness ==
    /\ \A g \in Sources : WF_vars(Hold(g) \/ Generate(g) \/ Deliver(g))
    /\ \A s \in Stages : WF_vars(Stage(s))
    /\ WF_vars(ImuThread) /\ WF_vars(Main) /\ WF_vars(Tick)

FairSpec == Spec /\ Fairness
-----------------------------------------------------------------------------
(* A stage that has an item in hand, and the imu thread that sleeps for or   *)
(* computes a job, own their hint slot: it names that item until the next    *)
(* one is popped, whatever producers push meanwhile.                         *)
HintNamesItem ==
    /\ \A s \in Stages \ Unhinted :
           stage[s] \in {"judge", "work", "push"} => hint[s] = item[s]
    /\ Imu \notin Unhinted /\ imu \in {"sleep", "work"} => hint[Imu] = <<Imu, job>>

(* A push that wakes a sleeping consumer has published the hint of the item  *)
(* at the head of the queue, so the scheduler sees it at the wake-up.        *)
WakeSafe ==
    [][\A s \in Stages \ Unhinted :
           stage[s] = "asleep" /\ stage'[s] = "pop" /\ queue'[s] # <<>>
               => hint'[s] = Head(queue'[s])]_vars

\* A consumer never sleeps over queued work or over a stop request.
NoLostWakeup == \A s \in Stages : stage[s] = "asleep" => queue[s] = <<>> /\ ~ stop[s]

Total(f) == MapThenSumSet(LAMBDA x : f[x], DOMAIN f)

\* What producers have put into the queue of s
Arrived(s) ==
    Total([g \in {g \in Sources : Feeds[g] = s} |-> generated[g]])
    + Total([t \in {t \in Stages : Out[t] = s} |->
                processed[t] - (IF stage[t] = "push" THEN 1 ELSE 0)])

\* Every item that a queue got is queued, evicted, in hand, processed or
\* dropped, exactly once, also across stop().
Conserved ==
    \A s \in Stages : Arrived(s) = Len(queue[s]) + evicted[s] + InHand(s)
                                   + processed[s] + dropped[s]

(* At exit every frame of every sensor was delivered, held bursts included,  *)
(* no stage has one in hand, and the imu thread has done all its jobs.       *)
AllDelivered ==
    main = "done" => /\ \A g \in Sources : generated[g] = Frames[g] /\ held[g] = <<>>
                     /\ \A s \in Stages : InHand(s) = 0 /\ stage[s] # "push"
                     /\ processed[Imu] = Frames[Imu]

\* The report that the counters of s give
Reports(s, load) ==
    /\ window[s].offered - window[s].dequeued - window[s].evicted = load.pending
    /\ window[s].dequeued - window[s].completed - window[s].dropped = load.in_flight

(* The window report printed at exit is what really was queued and in hand   *)
(* at the instant of the cutoff, and no subtraction in it goes below zero.   *)
WindowExact ==
    main = "done" /\ WindowStats => \A s \in Stages \cup {Imu} : Reports(s, cut[s])

(* The program ends: no stage misses the end of the run.                     *)
DemoEnds == <>(main = "done")

-----------------------------------------------------------------------------
(* The inductive invariant behind the properties above.                    *)

\* waiting_ is set only between the two ends of wait(), and an item is in hand
\* from pop() until it was pushed on.
StagePlace ==
    \A s \in Stages :
        /\ waiting[s] => stage[s] \in {"pop", "asleep"}
        /\ stage[s] = "asleep" => waiting[s]
        /\ stage[s] \in {"judge", "work", "push"} => item[s] \in Item
        /\ stage[s] = "push" => Out[s] # None

\* A generator holds exactly the frames it has not delivered, and only while its
\* burst is being collected or pushed.
SourcePlace ==
    \A g \in Sources :
        /\ frame[g] = generated[g] + Len(held[g]) /\ frame[g] <= Frames[g]
        /\ \A i \in 1 .. Len(held[g]) : held[g][i] = <<g, generated[g] + i>>
        /\ held[g] # <<>> => \/ frame[g] = BurstAt[g] + 1
                             \/ BurstFirst[g] < frame[g] /\ frame[g] <= BurstAt[g]

ImuPlace ==
    /\ job \in 1 .. Frames[Imu] + 1 /\ processed[Imu] = job - 1
    /\ imu = "start" => job = 1
    /\ imu \in {"publish", "sleep", "work"} => job <= Frames[Imu]
    /\ imu = "gone" => job = Frames[Imu] + 1

MainPlace ==
    /\ main \in {"window", "stop", "join", "done"} =>
           imu = "gone" /\ \A g \in Sources : GeneratorDone(g)
    /\ main \in {"stop", "join", "done"} /\ WindowStats => now >= Cutoff
    /\ main \in {"await", "run", "window"} => stopped = 0
    /\ main = "stop" => stopped < Len(StopOrder)
    /\ main = "done" => \A s \in Stages : stage[s] = "gone"

\* The counters describe the load of this instant, from the cutoff on that of the
\* cutoff.
WindowSoFar ==
    WindowStats => \A s \in Stages \cup {Imu} :
                       Reports(s, IF now < Cutoff THEN LoadOf(s) ELSE cut[s])

\* The stages that the items of a source pass
Routes ==
    [g \in Sources |-> {s \in Stages : \A T \in SUBSET Stages :
        Feeds[g] \in T /\ (\A t \in T : Out[t] # None => Out[t] \in T) => s \in T}]
Route(g) == Routes[g]
Rank == CHOOSE r \in [Stages -> 0 .. Cardinality(Stages)] : Leads(r)

Queued(s) == {queue[s][i] : i \in 1 .. Len(queue[s])}
Live(s) == Queued(s) \cup {v \in {item[s]} : stage[s] \in {"judge", "work", "push"}}
Seen(s) == Queued(s) \cup ({item[s]} \ {None})

\* Items are on the route of their source, behind its generator.
OnRoute ==
    \A s \in Stages : \A v \in Seen(s) :
        v[1] \in Sources /\ s \in Route(v[1]) /\ v[2] <= generated[v[1]]

\* The items of one source are in order in every queue, behind the item that was
\* popped last, and behind everything that was passed on.
InOrder ==
    /\ \A s \in Stages : \A i, k \in 1 .. Len(queue[s]) :
           i < k /\ queue[s][i][1] = queue[s][k][1] => queue[s][i][2] < queue[s][k][2]
    /\ \A s \in Stages : \A i \in 1 .. Len(queue[s]) :
           item[s] # None /\ item[s][1] = queue[s][i][1] => item[s][2] < queue[s][i][2]
    /\ \A s, t \in Stages : Rank[s] < Rank[t] =>
           \A v \in Seen(s), u \in Live(t) : v[1] = u[1] => v[2] < u[2]

(* No wake-up is lost, no item is lost or duplicated or overtakes another in *)
(* any queue, whatever evictions, merging producers and stop() do, and the   *)
(* counters agree with the queues throughout.                                *)
DemoInv ==
    /\ DemoTypeOK /\ StagePlace /\ SourcePlace /\ ImuPlace /\ MainPlace
    /\ NoLostWakeup /\ HintNamesItem /\ WindowSoFar /\ Conserved /\ OnRoute /\ InOrder
=============================================================================
