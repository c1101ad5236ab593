--------------------------- MODULE MCPipelineDemo ---------------------------
(* Small pipelines for the model checker: a chain of two stages behind a   *)
(* camera with a burst, and a lidar whose scans, without the stages of     *)
(* their own, meet the frames of a camera at mapping.                      *)
EXTENDS PipelineDemo

CONSTANTS Vision, Mapping, Camera, Lidar

ToMapping == [s \in Stages |-> IF s = Mapping THEN None ELSE Mapping]
FirstStage == [g \in Sources |-> IF g = Camera THEN Vision ELSE Mapping]

\* The chain: three camera frames, the last two delivered together
ChainPeriods == [g \in Sources \cup {Imu} |-> IF g = Camera THEN 1 ELSE 3]
ChainFrames == [g \in Sources \cup {Imu} |-> IF g = Camera THEN 3 ELSE 1]
ChainBurstFrom == [g \in Sources |-> 1]
ChainBurstTo == [g \in Sources |-> 2]
ChainStale == [s \in Stages |-> IF s = Vision THEN 1 ELSE 2]
ChainOrder == <<Vision, Mapping>>

\* The merge: two frames that are delivered together, and one scan that may come
\* between them at mapping
MergePeriods == [g \in Sources \cup {Imu} |-> IF g = Camera THEN 1 ELSE 2]
MergeFrames == [g \in Sources \cup {Imu} |-> IF g = Camera THEN 2 ELSE 1]
MergeBurstFrom == [g \in Sources |-> IF g = Camera THEN 0 ELSE 1]
MergeBurstTo == [g \in Sources |-> IF g = Camera THEN 1 ELSE 0]
MergeStale == [s \in Stages |-> 1]
MergeOrder == <<Vision, Mapping>>
=============================================================================
