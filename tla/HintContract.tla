---------------------------- MODULE HintContract ----------------------------
(***************************************************************************)
(* What every userspace runtime of the repository promises to the kernel   *)
(* scheduler about one worker thread.  The scheduler reads one map slot    *)
(* per thread, and the promise is that the slot names the job the thread   *)
(* is working for: a job is handed to the worker only when its hint is     *)
(* already in the slot, and nobody replaces the hint of a job the worker   *)
(* still owns.  Between two jobs the slot is overwritten directly by the   *)
(* next hint; it is cleared only when the worker owns nothing.             *)
(***************************************************************************)
CONSTANTS Jobs,             \* everything a worker may be asked to run
          None, Clear       \* no entry yet; the explicit background hint

VARIABLES slot,             \* the worker's entry in the hint map
          owner             \* the job handed to the worker and not finished

vars == <<slot, owner>>

TypeOK == slot \in Jobs \cup {None, Clear} /\ owner \in Jobs \cup {None}

Init == slot = None /\ owner = None

\* Only a worker that owns nothing may have its slot replaced.
Publish == owner = None /\ slot' \in Jobs /\ owner' = None

Handoff == owner = None /\ slot \in Jobs /\ owner' = slot /\ slot' = slot

Finish == owner # None /\ owner' = None /\ slot' = slot

Retire == owner = None /\ slot' = Clear /\ owner' = None

\* A new worker thread is a new key of the map.
NewWorker == owner = None /\ slot' = None /\ owner' = None

Next == \/ Publish
        \/ Handoff
        \/ Finish
        \/ Retire
        \/ NewWorker

Spec == Init /\ [][Next]_vars

\* The slot names the job its worker owns.
Owned == owner # None => slot = owner
=============================================================================
