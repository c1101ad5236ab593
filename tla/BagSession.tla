------------------------------ MODULE BagSession -----------------------------
(***************************************************************************)
(* A case of the bag evaluation: the bag player, the adapter, the pipeline *)
(* and the script that runs them.  The player is started paused; the       *)
(* script waits until the adapter reports that its endpoints match, and    *)
(* resumes it.  When the pipeline has ended the script decides from the    *)
(* printed counts whether the case is accepted.                            *)
(*                                                                         *)
(* The readiness service cannot see whether the player has matched the     *)
(* adapter, so the first messages of a stream may be lost (Miss).  The     *)
(* queue between player and adapter holds the messages that are played and *)
(* not received; it needs no state of its own.                             *)
(***************************************************************************)
EXTENDS RosPipeline, BagAdapter

CONSTANTS
    Recordings,     \* the bags, each with an offset and its index files
    Nominal         \* (200 or 20) * duration: the messages that the script expects

ASSUME RecordingsAssumption ==
    \A r \in Recordings :
        /\ r.bag \in [Streams -> Seq(Int)]     \* the stamps, in the order of the bag
        /\ r.offset \in [Streams -> Nat] /\ r.index \in [Streams -> IndexFile]
        /\ \A t \in Streams : r.offset[t] <= Len(r.bag[t])
        \* ros2_bag_source_epoch.py writes no index of a bag that repeats a stamp.
        /\ \A t \in Streams : r.index[t].path => IsInjective(r.bag[t])

\* The script knows the rates of the sensors and the duration, not the bag.
ASSUME NominalAssumption == Nominal \in [Streams -> Nat \ {0}]

\* start_adapter(): a case waits for the worker and the audit node.
ASSUME CaseAssumption == required_job_subscribers = 2

VARIABLES recording,
          players,  \* inputs whose player the adapter has discovered
          harness,  \* run_case()
          played    \* per stream, the messages that have left the player

scriptVars == <<recording, players, harness>>
sessionVars == <<vars, adapterVars, scriptVars, played>>

Bag == recording.bag

\* A synthetic run plays no bag.
NoBag == [bag |-> [t \in Streams |-> <<>>], offset |-> [t \in Streams |-> 0],
          index |-> [t \in Streams |-> [path |-> FALSE, rows |-> <<>>]]]

\* The player begins at --start-offset.
SessionInit ==
    /\ Init
    /\ recording \in IF External THEN Recordings ELSE {NoBag}
    /\ AdapterInit(recording.index)
    /\ players = {} /\ harness = "starting" /\ played = recording.offset

Discover(t) ==
    /\ External /\ t \notin players
    /\ players' = players \cup {t}
    /\ UNCHANGED <<vars, adapterVars, recording, harness, played>>

\* wait_for_adapter_ready(): the answer of the service
Readers(t) == Cardinality({WorkerOf(t), AuditOf(t)} \cap linked)
AdapterReady ==
    /\ External /\ harness = "starting" /\ Spinning
    /\ Ready([t \in Streams |-> IF t \in players THEN 1 ELSE 0],
             [t \in Streams |-> Readers(t)])
    /\ harness' = "ready"
    /\ UNCHANGED <<vars, adapterVars, recording, players, played>>

\* The script gives up: the player stays paused.
NotReady ==
    /\ External /\ harness = "starting"
    /\ harness' = "failed"
    /\ UNCHANGED <<vars, adapterVars, recording, players, played>>

Resume ==
    /\ harness = "ready" /\ harness' = "playing"
    /\ UNCHANGED <<vars, adapterVars, recording, players, played>>

\* The player's writer has not matched the adapter's reader yet.
Miss(t) ==
    /\ harness = "playing" /\ counts[t].received = 0 /\ played[t] < Len(Bag[t])
    /\ played' = [played EXCEPT ![t] = @ + 1]
    /\ UNCHANGED <<vars, adapterVars, scriptVars>>

\* The next message reaches publish_job(), whose job reaches the pipeline.
Receive(t) ==
    LET stamp == Bag[t][played[t] + 1] IN
    /\ harness = "playing" /\ played[t] < Len(Bag[t])
    /\ played' = [played EXCEPT ![t] = @ + 1]
    /\ \/ /\ PublishJob(t, stamp, TRUE)
          /\ IF StampedJobs(t, stamp) = {} THEN UNCHANGED vars
             ELSE \E m \in StampedJobs(t, stamp) : Send(t, m)
       \/ "adapter" \in Faulty /\ PublishJob(t, stamp, FALSE) /\ UNCHANGED vars
    /\ UNCHANGED scriptVars

Session ==
    \/ \E t \in Streams : Discover(t) \/ Miss(t) \/ Receive(t)
    \/ AdapterReady \/ NotReady \/ Resume

SessionNext ==
    \/ ~ Ended /\ Session
    \/ ~ Ended /\ RosStep /\ UNCHANGED <<adapterVars, scriptVars, played>>
    \/ Ended /\ UNCHANGED sessionVars

SessionSpec == SessionInit /\ [][SessionNext]_sessionVars
FairSession == SessionSpec /\ Fairness

-----------------------------------------------------------------------------
(* Properties                                                              *)

SessionTypeOK ==
    /\ AdapterTypeOK /\ recording \in Recordings \cup {NoBag}
    /\ players \subseteq Streams
    /\ harness \in {"starting", "ready", "playing", "failed"}
    /\ played \in [Streams -> Nat] /\ \A t \in Streams : played[t] <= Len(Bag[t])

\* Source message m has not been offered to stage s yet.
NotOffered(s, m) ==
    \/ Contains(auditq[StreamOf(s)], m)
    \/ pc["audit"] = "offer" /\ msg["audit"] = m /\ Contains(owed["audit"], s)

(* While the pipeline runs, the audit node hears every measured job that the *)
(* adapter publishes, and the adapter has counted each of them: the offers   *)
(* are complete because the player waits for both readers of a job topic.    *)
AuditHearsAll ==
    External /\ context /\ pc["audit"] \notin {"gone", "raise", "failed"} =>
        /\ \A s \in Stages :
               stats[s].offered + Cardinality({m \in Sent(s) : NotOffered(s, m)})
                   = Cardinality(Sent(s))
        /\ \A t \in Streams : counts[t].published = Len(published[t])

(* Every message is counted exactly once wherever it is counted: a measured  *)
(* one at every stage of its path, every message in the counters and the     *)
(* trace of the adapter, every measured job in the offers of the audit node. *)
CountedOnce == Accounted /\ Balanced /\ AuditHearsAll

\* The ordinals of the messages of the bag inside the source window: what the
\* script cannot know, and an accepted case is about
WindowOrdinals(t) ==
    {i \in DOMAIN Bag[t] : Bag[t][i] >= WindowFrom /\ Bag[t][i] < WindowTo}

\* The gate: the player plays to an adapter that has started, whose jobs have all
\* their readers, and no job is made before it plays.
Gated ==
    /\ recording \in (IF External THEN Recordings ELSE {NoBag}) /\ index = recording.index
    /\ harness \in {"ready", "playing"} =>
           External /\ Spinning /\ Subscriptions \ {"estimator", "mapping"} \subseteq linked
    /\ External => \A t \in Streams : counts[t].published = Len(published[t])
    /\ External /\ harness # "playing" => \A t \in Streams : published[t] = <<>>

\* A job has the time of a message that was played, and the identity that the
\* index or the counter gives it; there are no more jobs than messages.
Origins ==
    \A t \in Streams :
        /\ \A m \in ToSet(published[t]) :
               IF External
               THEN /\ \E i \in 1 .. played[t] : m.source_ts = Bag[t][i]
                    /\ IF index[t].path THEN m.job_id \in JobIds(index[t], m.source_ts, 0)
                       ELSE m.job_id <= counts[t].received
               ELSE m.job_id <= Len(published[t])
        /\ IF External
           THEN Cardinality(Sent(WorkerOf(t)))
                    <= Cardinality({i \in WindowOrdinals(t) : i <= played[t]})
           ELSE /\ Cardinality(Sent(WorkerOf(t))) <= Len(published[t])
                /\ Len(published[t]) <= Jobs[t]

(* The state of pipeline and adapter is well typed; every measured message   *)
(* is accounted exactly once at every stage, every message in the counters   *)
(* and in the trace of the adapter, and every offer reaches the audit.       *)
SessionInv ==
    RosInv /\ SessionTypeOK /\ Balanced /\ Gated /\ Origins /\ AuditHearsAll

\* assert_case_accounting() for the printed line of stage s.  What it asks of
\* arrivals, executions and lateness is left out: more cases are accepted here.
LineAccepted(s) ==
    LET nominal == Nominal[StreamOf(s)] IN
    /\ Expected(s) # 0
    /\ snap[s].last_job_id - snap[s].first_job_id + 1 = Expected(s)
    /\ Expected(s) = nominal
    /\ Resolved(s) + unfinished(s) = nominal /\ unfinished(s) = 0

\* The part of the script's test that is about stream t: a case is accepted if
\* both streams are.
StreamAccepted(t) ==
    /\ exit = 0 /\ External /\ WindowStats
    /\ counts[t].dropped = 0
    /\ \A s \in Stages : StreamOf(s) = t => LineAccepted(s)

\* The index of ros2_bag_source_epoch.py: the times of the topic in the bag,
\* numbered in their order
BagRows(t) == [i \in DOMAIN Bag[t] |-> [stamp |-> Bag[t][i], ordinal |-> i]]
Numbered(t) == index[t].path /\ index[t].rows = BagRows(t)

Ids(messages) == {m.job_id : m \in messages}

(* An accepted stream measured as many messages of the window of the bag as   *)
(* the script expects, one after the other without a gap, whatever was lost   *)
(* before the first and whenever the snapshots fell.  If the window holds no  *)
(* more than that, it measured the window and nothing else: every stage       *)
(* reports the first and the last message of the window as its first and last *)
(* job, and each one is completed or dropped there, none lost or under way.   *)
(* (A nominal count is 20 at least; if it were 1, the span of a line that     *)
(* was read before its first offer would be 1 too.)                           *)
AcceptedIsWhole ==
    \A t \in Streams : StreamAccepted(t) /\ Numbered(t) =>
        LET line == snap[WorkerOf(t)]
            window == WindowOrdinals(t)
        IN  /\ line.first_job_id .. line.last_job_id
                   \subseteq Ids(Sent(WorkerOf(t))) \cap window
            /\ Cardinality(window) <= Nominal[t] =>
                   \A s \in Stages : StreamOf(s) = t =>
                       /\ s = WorkerOf(t) \/ Nominal[t] > 1 =>
                              /\ snap[s].first_job_id = Min(window)
                              /\ snap[s].last_job_id = Max(window)
                       /\ \A m \in Sent(s) : ~ Unresolved(s, m)

=============================================================================
