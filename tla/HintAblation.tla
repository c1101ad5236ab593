---------------------------- MODULE HintAblation -----------------------------
(***************************************************************************)
(* The hint modes of the ROS pipeline: which hint of a stage reaches the   *)
(* scheduler.  A synthetic run changes the profile that a stage is         *)
(* registered with; a bag run registers the original profile, by which the *)
(* executor admits and drops, and rewrites the hints on their way to the   *)
(* map.                                                                    *)
(***************************************************************************)
EXTENDS HintPolicy

HintMode == {"full", "none", "imu-only", "fe-only"}
Stage == {"imu", "vision", "estimator", "mapping"}

\* The profile of a stage and its hint, with what the hint modes rewrite;
\* slice and weight are zero in every profile of the program.
StageProfile == [stage : Stage \cup {"misc"}, class : Class, relative_deadline : Time,
                 stale : Time, budget : Time, reject_expired : BOOLEAN]
StageHint == [stage : Stage \cup {"misc"}, class : Class, job_id : Nat, release : Time,
              deadline : Time, stale : Time, budget : Time]

\* make_hint() for a message with metadata
HintFor(p, job_id, release) ==
    LET h == MakeHint(p, release) IN
    [stage |-> p.stage, class |-> h.class, job_id |-> job_id, release |-> h.release,
     deadline |-> h.deadline, stale |-> h.stale, budget |-> p.budget]

-----------------------------------------------------------------------------
\* stage_profile(): the profile of a synthetic run
stage_profile(mode, p) ==
    CASE mode = "imu-only" /\ p.stage # "imu" ->
             [p EXCEPT !.stage = "misc", !.class = "background",
                       !.relative_deadline = 0, !.stale = 0, !.budget = 0]
      [] mode = "fe-only" /\ p.stage = "imu" ->
             [p EXCEPT !.stage = "misc", !.class = "deadline"]
      [] OTHER -> p

\* admission_profile(): the profile that a stage is registered with
admission_profile(input_mode, mode, p) ==
    [(IF input_mode = "external" THEN p ELSE stage_profile(mode, p)) EXCEPT
        !.reject_expired = input_mode = "external" /\ p.stage # "imu"]

\* project_hint(): the hint of a bag run on its way to the map
project_hint(h, mode) ==
    CASE mode = "imu-only" /\ h.stage # "imu" ->
             [h EXCEPT !.stage = "misc", !.class = "background",
                       !.deadline = 0, !.stale = 0, !.budget = 0]
      [] mode = "fe-only" /\ h.stage = "imu" ->
             [h EXCEPT !.stage = "misc", !.class = "deadline"]
      [] OTHER -> h

\* The sinks that main() composes: what publish() writes into the map, as a set
\* that is empty when the hint goes nowhere.
Written(input_mode, mode, h) ==
    IF mode = "none" THEN {}
    ELSE IF input_mode = "external" THEN {project_hint(h, mode)} ELSE {h}

\* The hint of job_id with release as the scheduler sees it
Seen(input_mode, mode, p, job_id, release) ==
    Written(input_mode, mode, HintFor(admission_profile(input_mode, mode, p), job_id, release))

=============================================================================
