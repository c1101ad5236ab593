---------------------------- MODULE RosPipeline -----------------------------
(***************************************************************************)
(* The ROS pipeline program: imu propagation beside the chain vision ->    *)
(* estimator -> mapping, one FreshnessExecutor and one thread per stage,   *)
(* and an audit node that counts what the sources offer.  Every StageStats *)
(* has a lock of its own, so an operation that touches several of them is  *)
(* several steps.  main connects the graph, lets the window pass, takes    *)
(* snapshots, cancels the executors, joins the threads and reports.        *)
(*                                                                         *)
(* An executor has at most one message in hand (DrainedOnReturn, Custody   *)
(* and HintOwnership of FreshnessExecutor), so it is one process here.     *)
(* Time is left out: a sleep may end, a time-out strike and a message      *)
(* expire at any point.  The sources of external input are left to the     *)
(* module BagSession.                                                      *)
(***************************************************************************)
EXTENDS Integers, SequencesExt

CONSTANTS Setup,          \* per --input mode of this instance, what may go wrong
          Contenders,     \* the threads that --hog may start
          Jobs,           \* [Streams -> Nat]: messages of each synthetic source
          WindowFrom,     \* source_start_ns + warmup
          WindowTo,       \* and the end of the source-time window
          None

Streams == {"imu", "camera"}
Stages  == {"imu", "vision", "estimator", "mapping"}
Threads == Stages \cup {"audit"}
Subscriptions == Stages \cup {"audit_imu", "audit_camera"}

ASSUME RosAssumption ==
    /\ Jobs \in [Streams -> Nat]
    /\ WindowFrom \in Nat /\ WindowTo \in Nat
    /\ Contenders \cap (Threads \cup {None}) = {} /\ None \notin Threads /\ None \notin 0 .. 2
    /\ DOMAIN Setup \subseteq {"synthetic", "external"}
    /\ \A i \in DOMAIN Setup :
           Setup[i] \in [window_stats : BOOLEAN, slow : SUBSET Threads,
                        hogs : SUBSET Contenders,
                        faulty : SUBSET (Threads \cup Contenders \cup {"adapter"}),
                        late : SUBSET Subscriptions]

VARIABLES
    input_mode,              \* Options::input_mode
    published,               \* per stream, the messages that its source has sent
    linked,                  \* subscriptions that DDS discovery has matched
    inq, auditq,             \* delivered messages: of the stages, of the audit node
    stats,                   \* StageStats
    pc, msg,                 \* the executor threads, and the message in hand
    owed,                    \* stages whose StageStats a thread has yet to update
    spinning, context,       \* Executor::spinning; rclcpp::ok()
    hog, contenders_running, \* run_contender()
    background_error,
    window_start,            \* external_window_start_release_ns # 0
    main, step,              \* main(), and its place in a loop over the stages
    timed_out,
    snap,                    \* window_imu .. window_mapping
    exit,
    lost                     \* <<s, m>>: m will never reach the end of stage s

dds     == <<published, linked, inq, auditq>>
threads == <<pc, msg, owed, spinning>>
hogVars == <<hog, contenders_running>>
mainVars == <<main, step, timed_out, snap, exit>>
vars == <<input_mode, dds, stats, threads, hogVars, context, background_error,
          window_start, mainVars, lost>>

-----------------------------------------------------------------------------
External == input_mode = "external"
WindowStats == Setup[input_mode].window_stats   \* --window-stats
Hogs == Setup[input_mode].hogs      \* --hog: the contender threads
Faulty == Setup[input_mode].faulty  \* threads in which a call may throw
Slow == Setup[input_mode].slow      \* may not have entered spin() when main goes on
Late == Setup[input_mode].late      \* subscriptions that may not be matched yet

StampedJob == [job_id : Nat, source_ts : Nat]

Downstream == [imu |-> <<>>, vision |-> <<"estimator", "mapping">>,
               estimator |-> <<"mapping">>, mapping |-> <<>>]
StreamOf(s) == IF s = "imu" THEN "imu" ELSE "camera"

\* source_time_measured()
InSourceWindow(m) == m.source_ts >= WindowFrom /\ m.source_ts < WindowTo
\* measured_message(): every synthetic release lies inside the window.
Measured(m) == External => InSourceWindow(m)
InWindow(s) == Measured(msg[s])

\* admission_profile(): the imu keeps every sample, mapping has no deadline
reject_expired(s) == External /\ s \in {"vision", "estimator"}

NoStats == [offered |-> 0, arrivals |-> 0, executed |-> 0, dropped |-> 0,
            upstream_dropped |-> 0, completed |-> 0, first_job_id |-> 0,
            last_job_id |-> 0, active |-> FALSE]
ResolvedIn(st) == st.completed + st.dropped + st.upstream_dropped

\* StageSnapshot
NoLine == [offered |-> 0, first_job_id |-> 0, last_job_id |-> 0, resolved |-> 0]
LineType == [offered : Nat, first_job_id : Nat, last_job_id : Nat, resolved : Nat]
StatsType == [offered : Nat, arrivals : Nat, executed : Nat, dropped : Nat,
              upstream_dropped : Nat, completed : Nat, first_job_id : Nat,
              last_job_id : Nat, active : BOOLEAN]

\* The subscriptions of a source topic: the worker's and the audit node's
WorkerOf(t) == IF t = "imu" THEN "imu" ELSE "vision"
AuditOf(t) == IF t = "imu" THEN "audit_imu" ELSE "audit_camera"

Init ==
    /\ input_mode \in DOMAIN Setup
    /\ published = [t \in Streams |-> <<>>] /\ linked = Subscriptions \ Late
    /\ inq = [s \in Stages |-> <<>>] /\ auditq = [t \in Streams |-> <<>>]
    /\ stats = [s \in Stages |-> NoStats]
    /\ pc = [t \in Threads |-> IF t \in Slow THEN "unstarted" ELSE "wait"]
    /\ msg = [t \in Threads |-> None]
    /\ owed = [t \in Threads |-> <<>>] /\ spinning = [t \in Threads |-> t \notin Slow]
    /\ context = TRUE /\ background_error = None
    /\ hog = [h \in Hogs |-> "unstarted"] /\ contenders_running = TRUE
    /\ window_start = FALSE
    /\ main = "graph" /\ step = 1 /\ timed_out = FALSE
    /\ snap = [s \in Stages |-> NoLine] /\ exit = None
    /\ lost = {}

-----------------------------------------------------------------------------
(* Sources and discovery                                                   *)

\* DDS discovery matches a subscription with its publisher.
Link(u) ==
    /\ u \in Subscriptions \ linked
    /\ linked' = linked \cup {u}
    /\ UNCHANGED <<input_mode, published, inq, auditq, stats, threads, hogVars, context,
                   background_error, window_start, mainVars, lost>>

\* publish() towards stage s: volatile, so an unmatched reader misses the
\* message; nothing is sent once the context is shut down.
Deliver(s, m) ==
    IF context /\ s \in linked
    THEN inq' = [inq EXCEPT ![s] = Append(@, m)] /\ UNCHANGED lost
    ELSE lost' = lost \cup {<<s, m>>} /\ UNCHANGED inq

\* A source publishes message m to its worker and to the audit node.
Send(t, m) ==
    /\ published' = [published EXCEPT ![t] = Append(@, m)]
    /\ Deliver(WorkerOf(t), m)
    /\ auditq' = IF context /\ AuditOf(t) \in linked
                 THEN [auditq EXCEPT ![t] = Append(@, m)] ELSE auditq
    /\ UNCHANGED <<input_mode, linked, stats, threads, hogVars, context,
                   background_error, window_start, mainVars>>

\* publish_periodic() runs between the start and the join of the generators,
\* while rclcpp::ok().
Generate(t) ==
    /\ ~ External /\ main = "generate" /\ context
    /\ Len(published[t]) < Jobs[t]
    /\ Send(t, [job_id |-> Len(published[t]) + 1, source_ts |-> 0])

-----------------------------------------------------------------------------
(* Executor threads: spin() and its caller                                 *)

Goto(t, l) == pc' = [pc EXCEPT ![t] = l]

\* while (rclcpp::ok(context_) && spinning.load()), tested after every message;
\* clearing the hint of the worker on the way out may fail.
Loop(t) ==
    IF context /\ spinning[t] THEN Goto(t, "wait")
    ELSE Goto(t, "gone") \/ (t \in Faulty /\ Goto(t, "raise"))

\* spin() is entered; starting the worker or configuring it may fail.
Enter(t) ==
    /\ pc[t] = "unstarted"
    /\ spinning' = [spinning EXCEPT ![t] = TRUE]
    /\ Goto(t, IF context THEN "wait" ELSE "gone") \/ (t \in Faulty /\ Goto(t, "raise"))
    /\ UNCHANGED <<input_mode, dds, stats, msg, owed, hogVars, context, background_error,
                   window_start, mainVars, lost>>

\* get_next_executable() returns empty-handed: cancel() and shutdown() wake it.
Interrupted(t) ==
    /\ pc[t] = "wait" /\ ~ (context /\ spinning[t])
    /\ Loop(t)
    /\ UNCHANGED <<input_mode, dds, stats, msg, owed, spinning, hogVars, context,
                   background_error, window_start, mainVars, lost>>

Keep(t) == IF background_error = None THEN t ELSE background_error

\* The catch block around spin(), under error_mutex
Catch(t) ==
    /\ pc[t] = "raise"
    /\ background_error' = Keep(t) /\ context' = FALSE
    /\ Goto(t, "failed")
    /\ UNCHANGED <<input_mode, dds, stats, msg, owed, spinning, hogVars, window_start,
                   mainVars, lost>>

\* A call throws while stage s has a message in hand (the hint, a clock of
\* account_job()): the message goes no further, and may leave the job active.
Throw(s) ==
    /\ s \in Faulty /\ pc[s] \in {"admit", "work"}
    /\ lost' = lost \cup {<<s, msg[s]>>}
    /\ Goto(s, "raise") /\ msg' = [msg EXCEPT ![s] = None]
    /\ UNCHANGED <<input_mode, dds, stats, owed, spinning, hogVars, context, background_error,
                   window_start, mainVars>>

-----------------------------------------------------------------------------
(* Executor threads: one message                                           *)

Add(s, field) == stats' = [stats EXCEPT ![s][field] = @ + 1]

\* The message is taken and observe() counts MessageEvent::Selected, unless
\* its metadata is invalid.
Take(s) ==
    /\ pc[s] = "wait" /\ inq[s] # <<>>
    /\ inq' = [inq EXCEPT ![s] = Tail(@)]
    /\ LET m == Head(inq[s]) IN
       \/ /\ msg' = [msg EXCEPT ![s] = m] /\ Goto(s, "admit")
          /\ IF Measured(m) THEN Add(s, "arrivals") ELSE UNCHANGED stats
          /\ UNCHANGED lost
       \/ /\ s \in Faulty /\ lost' = lost \cup {<<s, m>>} /\ Goto(s, "raise")
          /\ UNCHANGED <<msg, stats>>
    /\ UNCHANGED <<input_mode, published, linked, auditq, owed, spinning, hogVars, context,
                   background_error, window_start, mainVars>>

OwedBy(s) == Downstream[s]

\* The message has expired at one of the two tests of the executor; observe()
\* counts MessageEvent::DroppedBeforeStart here and then the lost opportunity of
\* every stage downstream, each under its own lock.
Drop(s) ==
    /\ pc[s] = "admit" /\ reject_expired(s)
    /\ IF InWindow(s)
       THEN /\ Add(s, "dropped") /\ owed' = [owed EXCEPT ![s] = OwedBy(s)]
            /\ Goto(s, "settle") /\ UNCHANGED msg
       ELSE Loop(s) /\ msg' = [msg EXCEPT ![s] = None] /\ UNCHANGED <<stats, owed>>
    /\ UNCHANGED <<input_mode, dds, spinning, hogVars, context, background_error,
                   window_start, mainVars, lost>>

Settle(s) ==
    /\ pc[s] = "settle"
    /\ Add(Head(owed[s]), "upstream_dropped")
    /\ owed' = [owed EXCEPT ![s] = Tail(@)]
    /\ IF Len(owed[s]) > 1 THEN UNCHANGED <<pc, msg>>
       ELSE Loop(s) /\ msg' = [msg EXCEPT ![s] = None]
    /\ UNCHANGED <<input_mode, dds, spinning, hogVars, context, background_error, window_start,
                   mainVars, lost>>

\* The hint is published, the message handed over and its callback entered:
\* the first measured imu message opens the window of an external run, and
\* account_job() starts.
Begin(s) ==
    /\ pc[s] = "admit"
    /\ Goto(s, "work")
    /\ window_start' = (window_start \/ (s = "imu" /\ InWindow(s)))
    /\ stats' = IF InWindow(s)
                THEN [stats EXCEPT ![s].executed = @ + 1, ![s].active = TRUE]
                ELSE stats
    /\ UNCHANGED <<input_mode, dds, msg, owed, spinning, hogVars, context, background_error,
                   mainVars, lost>>

\* The rest of account_job()
Complete(s) ==
    /\ pc[s] = "work"
    /\ stats' = IF InWindow(s)
                THEN [stats EXCEPT ![s].completed = @ + 1, ![s].active = FALSE]
                ELSE stats
    /\ IF Downstream[s] # <<>> THEN Goto(s, "publish") /\ UNCHANGED msg
       ELSE Loop(s) /\ msg' = [msg EXCEPT ![s] = None]
    /\ UNCHANGED <<input_mode, dds, owed, spinning, hogVars, context, background_error,
                   window_start, mainVars, lost>>

\* The last statement of the vision and the estimator callback
Publish(s) ==
    /\ pc[s] = "publish"
    /\ Deliver(Head(Downstream[s]), msg[s])
    /\ Loop(s) /\ msg' = [msg EXCEPT ![s] = None]
    /\ UNCHANGED <<input_mode, published, linked, auditq, stats, owed, spinning, hogVars, context,
                   background_error, window_start, mainVars>>

-----------------------------------------------------------------------------
(* The audit node: offer() for every stage that a source message reaches   *)

Opportunities(t) == IF t = "imu" THEN <<"imu">>
                    ELSE <<"vision">> \o Downstream["vision"]

\* offer(): the first offered job names the beginning of the window
Offered(st, m) ==
    [st EXCEPT !.offered = @ + 1,
               !.first_job_id = IF @ = 0 THEN m.job_id ELSE @,
               !.last_job_id = m.job_id]

AuditTake(t) ==
    /\ pc["audit"] = "wait" /\ auditq[t] # <<>>
    /\ auditq' = [auditq EXCEPT ![t] = Tail(@)]
    /\ IF Measured(Head(auditq[t]))
       THEN /\ owed' = [owed EXCEPT !["audit"] = Opportunities(t)]
            /\ msg' = [msg EXCEPT !["audit"] = Head(auditq[t])] /\ Goto("audit", "offer")
       ELSE Loop("audit") /\ UNCHANGED <<owed, msg>>
    /\ UNCHANGED <<input_mode, published, linked, inq, stats, spinning, hogVars, context,
                   background_error, window_start, mainVars, lost>>

AuditOffer ==
    /\ pc["audit"] = "offer"
    /\ stats' = [stats EXCEPT ![Head(owed["audit"])] = Offered(@, msg["audit"])]
    /\ owed' = [owed EXCEPT !["audit"] = Tail(@)]
    /\ IF Len(owed["audit"]) > 1 THEN UNCHANGED <<pc, msg>>
       ELSE Loop("audit") /\ msg' = [msg EXCEPT !["audit"] = None]
    /\ UNCHANGED <<input_mode, dds, spinning, hogVars, context, background_error,
                   window_start, mainVars, lost>>

-----------------------------------------------------------------------------
(* run_contender()                                                         *)

HogEnds(h) ==
    /\ h \in Hogs /\ hog[h] = "run" /\ ~ contenders_running
    /\ hog' = [hog EXCEPT ![h] = "gone"]
    /\ UNCHANGED <<input_mode, dds, stats, threads, contenders_running, context, background_error,
                   window_start, mainVars, lost>>

HogFails(h) ==
    /\ hog[h] = "run" /\ h \in Faulty
    /\ hog' = [hog EXCEPT ![h] = "failed"] /\ contenders_running' = FALSE
    /\ background_error' = Keep(h) /\ context' = FALSE
    /\ UNCHANGED <<input_mode, dds, stats, threads, window_start, mainVars, lost>>

-----------------------------------------------------------------------------
(* main()                                                                  *)

MainGoto(l) == main' = l /\ step' = 1
NotMain == UNCHANGED <<input_mode, dds, stats, msg, owed, pc, background_error, window_start, lost>>
Quiet == NotMain /\ UNCHANGED <<spinning, hogVars, context>>

\* get_subscription_count() > 0: one reader is enough
GraphReady ==
    /\ {"estimator", "mapping"} \subseteq linked
    /\ ~ External => \A t \in Streams : {WorkerOf(t), AuditOf(t)} \cap linked # {}

\* wait_for_graph(), then wait_for_external_sources(): its readers are the
\* workers', not the audit node's.
Connect ==
    /\ main = "graph" /\ GraphReady
    /\ External => {"imu", "vision"} \subseteq linked
    /\ hog' = [h \in Hogs |-> "run"]
    /\ MainGoto(IF External THEN "await" ELSE "generate")
    /\ NotMain /\ UNCHANGED <<contenders_running, spinning, context, timed_out, snap, exit>>

\* Both waits throw when their time is over; the executor threads are still
\* joinable, so unwinding ends in std::terminate().
ConnectFails ==
    /\ main = "graph"
    /\ ~ (GraphReady /\ (External => {"imu", "vision"} \subseteq linked))
    /\ MainGoto("aborted")
    /\ Quiet /\ UNCHANGED <<timed_out, snap, exit>>

JoinGenerators ==
    /\ main = "generate"
    /\ ~ context \/ \A t \in Streams : Len(published[t]) = Jobs[t]
    /\ MainGoto("snapshot")
    /\ Quiet /\ UNCHANGED <<timed_out, snap, exit>>

WindowOpens ==
    /\ main = "await" /\ window_start
    /\ MainGoto("snapshot")
    /\ Quiet /\ UNCHANGED <<timed_out, snap, exit>>

WindowTimesOut ==
    /\ main = "await" /\ ~ window_start
    /\ MainGoto("stop_hogs") /\ timed_out' = TRUE
    /\ Quiet /\ UNCHANGED <<snap, exit>>

\* What is used of a window snapshot: the offers of the sources in external
\* mode and, with --window-stats, the first and last job and the resolved jobs.
Line(s) ==
    [offered  |-> IF External /\ s \in {"imu", "vision"} THEN stats[s].offered ELSE 0,
     first_job_id |-> IF WindowStats THEN stats[s].first_job_id ELSE 0,
     last_job_id |-> IF WindowStats THEN stats[s].last_job_id ELSE 0,
     resolved |-> IF WindowStats THEN ResolvedIn(stats[s]) ELSE 0]

SnapOrder == <<"imu", "vision", "estimator", "mapping">>

\* snapshot() reads the CPU clock of a job that is being executed; if its
\* thread has ended the read throws, with the other threads joinable.
Snapshot ==
    LET s == SnapOrder[step] IN
    /\ main = "snapshot"
    /\ \/ /\ ~ (stats[s].active /\ pc[s] = "failed")
          /\ snap' = [snap EXCEPT ![s] = Line(s)]
          /\ IF step = Len(SnapOrder) THEN MainGoto("stop_hogs")
             ELSE main' = main /\ step' = step + 1
       \/ /\ stats[s].active /\ pc[s] \in {"raise", "failed"}
          /\ MainGoto("aborted") /\ snap' = snap
    /\ Quiet /\ UNCHANGED <<timed_out, exit>>

StopHogs ==
    /\ main = "stop_hogs"
    /\ contenders_running' = FALSE /\ MainGoto("cancel")
    /\ NotMain /\ UNCHANGED <<hog, spinning, context, timed_out, snap, exit>>

\* The contenders are joined before the first executor is cancelled.
Cancelling == main = "cancel" /\ \A h \in Hogs : hog[h] \in {"gone", "failed"}

CancelWorkers == SnapOrder              \* mutant: the audit executor is forgotten
CancelOrder == SnapOrder \o <<"audit">>

\* Executor::cancel(): on a thread that has not entered spin() it is lost.
Cancel ==
    /\ Cancelling
    /\ spinning' = [spinning EXCEPT ![CancelOrder[step]] = FALSE]
    /\ IF step = Len(CancelOrder) THEN MainGoto("join")
       ELSE main' = main /\ step' = step + 1
    /\ NotMain /\ UNCHANGED <<hogVars, context, timed_out, snap, exit>>

Expected(s) == IF ~ External THEN Jobs[StreamOf(s)]
               ELSE snap[IF s = "imu" THEN "imu" ELSE "vision"].offered

ReportsTimeout == timed_out             \* mutant: background_error is not tested
ReportsFailure == timed_out \/ background_error # None

Drained == \A s \in Stages : stats[s].completed = Expected(s)

\* snapshot() of a job whose thread has ended
FinalSnapshotThrows == \E s \in Stages : stats[s].active

\* The threads are joined; what is left of main() runs alone.
Finish ==
    /\ main = "join"
    /\ \A t \in Threads : pc[t] \in {"gone", "failed"}
    /\ context' = FALSE /\ MainGoto("done")
    /\ exit' = CASE ReportsFailure -> 1
                 [] ~ ReportsFailure /\ ~ WindowStats /\ FinalSnapshotThrows -> 1
                 [] ~ ReportsFailure /\ ~ WindowStats /\ ~ FinalSnapshotThrows
                    /\ ~ External /\ ~ Drained -> 2
                 [] OTHER -> 0
    /\ NotMain /\ UNCHANGED <<hogVars, spinning, timed_out, snap>>

Ended == main \in {"done", "aborted"}
\* Nothing is left to do once the program has ended
Terminated == Ended /\ UNCHANGED vars

-----------------------------------------------------------------------------
Stage(s) == \/ Take(s) \/ Drop(s) \/ Settle(s) \/ Begin(s) \/ Complete(s)
            \/ Publish(s) \/ Throw(s)
Audit == (\E t \in Streams : AuditTake(t)) \/ AuditOffer
Thread(t) == \/ Enter(t) \/ Interrupted(t) \/ Catch(t)
             \/ t \in Stages /\ Stage(t)
             \/ t = "audit" /\ Audit
Main == \/ Connect \/ ConnectFails \/ JoinGenerators \/ WindowOpens \/ WindowTimesOut
        \/ Snapshot \/ StopHogs \/ Cancel \/ Finish

\* Every step of the program
RosStep ==
    \/ \E u \in Subscriptions : Link(u)
    \/ \E t \in Streams : Generate(t)
    \/ \E t \in Threads : Thread(t)
    \/ \E h \in Hogs : HogEnds(h) \/ HogFails(h)
    \/ Main

\* The scheduler is never idle while a thread of the program can take a step; the
\* generators run in synthetic mode.  Which of the threads runs is left open.
\* Discovery, the sources of external input and the faults need not do anything.
Runs == ~ Ended /\ \/ Main
                   \/ \E t \in Threads : Thread(t)
                   \/ \E h \in Contenders : HogEnds(h)
                   \/ \E t \in Streams : Generate(t)
Fairness == WF_vars(Runs)

-----------------------------------------------------------------------------
(* Properties                                                              *)

RosTypeOK ==
    /\ input_mode \in DOMAIN Setup /\ published \in [Streams -> Seq(StampedJob)]
    /\ linked \subseteq Subscriptions
    /\ inq \in [Stages -> Seq(StampedJob)] /\ auditq \in [Streams -> Seq(StampedJob)]
    /\ stats \in [Stages -> StatsType] /\ snap \in [Stages -> LineType]
    /\ pc \in [Threads -> {"unstarted", "wait", "admit", "settle", "work", "publish",
                           "offer", "raise", "failed", "gone"}]
    /\ msg \in [Threads -> StampedJob \cup {None}]
    /\ owed \in [Threads -> Seq(Stages)]
    /\ spinning \in [Threads -> BOOLEAN] /\ context \in BOOLEAN
    /\ hog \in [Hogs -> {"unstarted", "run", "gone", "failed"}]
    /\ contenders_running \in BOOLEAN /\ window_start \in BOOLEAN
    /\ background_error \in Threads \cup Contenders \cup {None}
    /\ main \in {"graph", "await", "generate", "snapshot", "stop_hogs", "cancel",
                 "join", "done", "aborted"}
    /\ step \in 1 .. Len(CancelOrder) /\ timed_out \in BOOLEAN
    /\ exit \in {None, 0, 1, 2} /\ lost \subseteq Stages \X StampedJob

Sent(s) == {m \in ToSet(published[StreamOf(s)]) : Measured(m)}
HandPlaces == {"admit", "work"}
Before(s) == {u \in Stages : Contains(Downstream[u], s)}

\* Message m is still on its way to the end of stage s, or was lost on it.
Unresolved(s, m) ==
    \/ \E u \in Before(s) \cup {s} :
           <<u, m>> \in lost \/ Contains(inq[u], m) \/ (msg[u] = m /\ pc[u] \in HandPlaces)
    \/ \E u \in Before(s) :
           msg[u] = m /\ (pc[u] = "publish" \/ (pc[u] = "settle" /\ Contains(owed[u], s)))

(* Every measured message is accounted exactly once at every stage of its    *)
(* path: completed, dropped there, dropped upstream, or still unresolved.    *)
(* The counters live in four StageStats with four locks and are changed by   *)
(* five threads; the drop of one stage is booked in the others one by one.   *)
Accounted ==
    \A s \in Stages :
        ResolvedIn(stats[s])
            + Cardinality({m \in Sent(s) : Unresolved(s, m)}) = Cardinality(Sent(s))

\* What the accounting rests on: where a message of a stage can be.
Busy == {"admit", "settle", "work", "publish"}
Queued(s) == ToSet(inq[s])
InHand(s) == IF pc[s] \in Busy THEN {msg[s]} ELSE {}
LostAt(s) == {m \in ToSet(published[StreamOf(s)]) : <<s, m>> \in lost}
At(s) == Queued(s) \cup InHand(s) \cup LostAt(s)

\* A message is sent before it is anywhere, and is at one place of one stage of
\* its path at most.
AtOnePlace ==
    /\ \A p \in lost : p[2] \in ToSet(published[StreamOf(p[1])])
    /\ \A s \in Stages :
           /\ IsInjective(inq[s]) /\ At(s) \subseteq ToSet(published[StreamOf(s)])
           /\ Queued(s) \cap InHand(s) = {}
           /\ (Queued(s) \cup InHand(s)) \cap LostAt(s) = {}
           /\ \A u \in Stages \ {s} : StreamOf(u) = StreamOf(s) => At(u) \cap At(s) = {}

\* What a thread has in hand and still has to book follows from where it is.
Rests(q) == Suffixes(q) \ {<<>>}
StagePlace ==
    \A s \in Stages :
        /\ pc[s] # "offer" /\ (pc[s] = "publish" => Downstream[s] # <<>>)
        /\ pc[s] \notin Busy => msg[s] = None
        /\ IF pc[s] = "settle" THEN Measured(msg[s]) /\ owed[s] \in Rests(Downstream[s])
           ELSE owed[s] = <<>>
AuditPlace ==
    /\ pc["audit"] \notin Busy
    /\ \A t \in Streams :
           IsInjective(auditq[t]) /\ ToSet(auditq[t]) \subseteq ToSet(published[t])
    /\ IF pc["audit"] = "offer"
       THEN \E t \in Streams : /\ owed["audit"] \in Rests(Opportunities(t))
                               /\ msg["audit"] \in ToSet(published[t]) \ ToSet(auditq[t])
                               /\ Measured(msg["audit"])
       ELSE owed["audit"] = <<>>

\* main() forgets no failure, and its snapshots show what has happened.
MainPlace ==
    /\ (\E t \in Threads : pc[t] = "failed") \/ (\E h \in Hogs : hog[h] = "failed") =>
           background_error # None
    /\ main = "snapshot" => step <= Len(SnapOrder)
    /\ exit # None => main = "done"
    /\ \A s \in Stages :
           /\ snap[s].resolved <= ResolvedIn(stats[s])
           /\ {snap[s].first_job_id, snap[s].last_job_id,
               stats[s].first_job_id, stats[s].last_job_id}
                 \subseteq {0} \cup {m.job_id : m \in Sent(s)}

(* Types, the accounting of every stage, and the places it follows from.     *)
RosInv == /\ RosTypeOK /\ StagePlace /\ AuditPlace /\ MainPlace /\ AtOnePlace
          /\ Accounted

(* The end of the program tells the truth.  Exit code 0 comes only if no      *)
(* thread ended in an exception, and after a synthetic run that waited for   *)
(* the drain, only if every sent message went through every stage and        *)
(* nothing was lost in discovery.  The abort, which ends the program without *)
(* an exit code while its threads are joinable, comes only from a reader     *)
(* that main() waits for in vain, or from a job whose thread has failed.     *)
ExitTruth ==
    /\ exit = 0 =>
        /\ \A t \in Threads : pc[t] # "failed"
        /\ \A h \in Hogs : hog[h] # "failed"
        /\ ~ External /\ ~ WindowStats =>
               /\ lost = {} /\ \A s \in Stages : inq[s] = <<>> /\ msg[s] = None
               /\ \A t \in Streams : Len(published[t]) = Jobs[t]
    /\ main = "aborted" =>
        \/ ~ (Stages \subseteq linked)
        \/ \E s \in Stages : stats[s].active /\ pc[s] \in {"raise", "failed"}

\* print_stats(): the snapshot of the cutoff, or the final one
Resolved(s) == IF WindowStats THEN snap[s].resolved ELSE ResolvedIn(stats[s])
unfinished(s) == IF Expected(s) > Resolved(s) THEN Expected(s) - Resolved(s) ELSE 0

(* The identity of docs/DESIGN_EVALUATION.md for the printed line of every   *)
(* stage: offered = completed + dropped_before_start + dropped_upstream +    *)
(* unfinished.                                                               *)
ReportAddsUp ==
    exit = 0 => \A s \in Stages : Expected(s) = Resolved(s) + unfinished(s)

(* If every executor thread has entered spin() before it is cancelled, the   *)
(* program ends: no failure, time-out, lost message or shutdown keeps main   *)
(* waiting for a thread.                                                     *)
RosEnds ==
    <>(Ended \/ (Cancelling /\ \E t \in Threads : pc[t] = "unstarted"))

=============================================================================
