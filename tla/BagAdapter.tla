------------------------------ MODULE BagAdapter -----------------------------
(***************************************************************************)
(* The bag adapter: a node that turns the sensor messages of a bag player  *)
(* into stamped jobs.  A job takes its identity from an offline index of   *)
(* the bag, so that it does not depend on which message is delivered       *)
(* first; without an index the messages are counted.  One thread runs the  *)
(* two subscription callbacks and the readiness service, so each of them   *)
(* is one step.                                                            *)
(***************************************************************************)
EXTENDS Integers, SequencesExt

CONSTANTS trace_delivery, trace_limit, required_job_subscribers

Topics == {"imu", "camera"}
\* A file has a path, or the parameter is empty; a row is read as two numbers.
IndexFile == [path : BOOLEAN, rows : Seq([stamp : Nat, ordinal : Nat])]

ASSUME AdapterAssumption ==
    /\ trace_delivery \in BOOLEAN /\ trace_limit \in Nat
    /\ required_job_subscribers \in Nat

VARIABLES index,                     \* imu_index_, camera_index_
          counts,                    \* StreamCounts
          delivery_trace             \* how many records: kept, published, omitted

adapterVars == <<index, counts, delivery_trace>>

NoCounts == [received |-> 0, published |-> 0, dropped |-> 0, first_source_ts |-> 0]

AdapterInit(files) ==
    /\ index = files
    /\ counts = [t \in Topics |-> NoCounts]
    /\ delivery_trace = [records |-> 0, published |-> 0, omitted |-> 0]

-----------------------------------------------------------------------------
(* SourceJobIndex                                                          *)

\* What the constructor accepts: stamps that increase from above zero, and
\* ordinals that number the rows
ValidIndex(rows) ==
    /\ rows # <<>>
    /\ \A i \in DOMAIN rows :
           /\ rows[i].stamp > (IF i = 1 THEN 0 ELSE rows[i - 1].stamp)
           /\ rows[i].ordinal = i

\* The constructor of the node has not thrown: main() spins.
Spinning == \A t \in Topics : index[t].path => ValidIndex(index[t].rows)

CountJobs(f, source_ts, receive_counter) == {receive_counter}   \* mutant: no index
\* The result of job_id(), as a set that is empty when it throws
JobIds(f, source_ts, receive_counter) ==
    IF ~ f.path THEN {receive_counter}
    ELSE {f.rows[i].ordinal : i \in {k \in DOMAIN f.rows : f.rows[k].stamp = source_ts}}

\* source_stamp_ns() and make_stamped_job(): a negative stamp stands for every
\* sensor time outside the range of ROS time.
StampedJobs(t, stamp) ==
    IF stamp < 0 THEN {}
    ELSE {[job_id |-> j, source_ts |-> stamp] :
              j \in JobIds(index[t], stamp, counts[t].received + 1)}

-----------------------------------------------------------------------------
(* The callbacks                                                           *)

\* A record is kept up to the limit.
Traced(done) ==
    IF delivery_trace.records < trace_limit
    THEN [delivery_trace EXCEPT !.records = @ + 1, !.published = IF done THEN @ + 1 ELSE @]
    ELSE [delivery_trace EXCEPT !.omitted = @ + 1]

\* publish_job(): the message becomes a job that publish() sends or refuses,
\* or it has no job; what is not sent is dropped.
PublishJob(t, stamp, sent) ==
    LET n == counts[t].received + 1
        jobs == StampedJobs(t, stamp)
        done == sent /\ jobs # {}
    IN  /\ counts' = [counts EXCEPT
               ![t].received = n,
               ![t].published = IF done THEN @ + 1 ELSE @,
               ![t].dropped = IF done THEN @ ELSE @ + 1,
               ![t].first_source_ts = IF jobs # {} /\ @ = 0 THEN stamp ELSE @]
        /\ delivery_trace' = IF trace_delivery THEN Traced(done) ELSE delivery_trace
        /\ UNCHANGED index

OneReader(publishers, readers) ==          \* mutant: some reader is enough
    \A t \in Topics : publishers[t] = 1 /\ readers[t] > 0
\* The readiness service: one player per input, and all readers of the jobs
Ready(publishers, readers) ==
    \A t \in Topics : publishers[t] = 1 /\ readers[t] = required_job_subscribers

-----------------------------------------------------------------------------
AdapterTypeOK ==
    /\ index \in [Topics -> IndexFile]
    /\ counts \in [Topics -> [received : Nat, published : Nat, dropped : Nat,
                             first_source_ts : Nat]]
    /\ delivery_trace \in [records : 0 .. trace_limit, published : Nat, omitted : Nat]

(* publish_job() books every message that the adapter received: published    *)
(* and dropped add up to received, kept and omitted records to the messages  *)
(* of both streams, and a trace that omits nothing agrees with the counters, *)
(* also when publish() throws after the job was made.                        *)
Balanced ==
    /\ \A t \in Topics : counts[t].received = counts[t].published + counts[t].dropped
    /\ trace_delivery =>
           LET Total(f) == counts["imu"][f] + counts["camera"][f] IN
           /\ delivery_trace.records + delivery_trace.omitted = Total("received")
           /\ delivery_trace.omitted = 0 => delivery_trace.published = Total("published")

=============================================================================
