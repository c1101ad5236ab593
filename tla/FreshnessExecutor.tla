------------------------- MODULE FreshnessExecutor -------------------------
(***************************************************************************)
(* The single-worker ROS 2 executor.  The thread that calls spin() is the  *)
(* dispatcher: it selects ready work, takes the message, publishes the     *)
(* hint of the job for the worker and only then hands the job over.  The   *)
(* worker runs one job at a time and parks.  Both share the fields of Impl *)
(* under one mutex and one condition variable; cancel(), the shutdown of   *)
(* the ROS context, message arrival and the clock interleave freely.       *)
(*                                                                         *)
(* A critical section of the code is one action; what happens outside the  *)
(* mutex (selecting, taking, publishing, notifying, running a callback) is *)
(* a step of its own.  A thread in condition.wait is in the set `sleeping' *)
(* and takes no step until a notify_all empties it; a spurious wakeup is   *)
(* possible and never relied upon, so that a wakeup that the code forgets  *)
(* to send is one that need not come.                                      *)
(***************************************************************************)
EXTENDS HintPolicy, FiniteSets

CONSTANTS Jobs,             \* messages and timer expirations, each runs once
          Groups,           \* callback groups
          None, Clear,      \* no job; the background hint of clear_hint()
          GroupOf,          \* the callback group of a job
          ProfileOf,        \* the CallbackProfile a group is registered with
          Typed,            \* groups registered with a metadata extractor
          Removable,        \* groups the application may remove again
          Release,          \* release_ts_ns in the message; 0 is invalid
          Faults,           \* the calls that may fail in this instance
          MaxNow,           \* bound: the clock stops here
          MaxSpins          \* bound: how often spin() is called

FaultKind == {"spawn", "configure", "kind", "take", "observer", "publish",
              "callback", "clear"}

ASSUME ConstantsAssumption ==
    /\ None \notin Jobs /\ Clear \notin Jobs /\ None # Clear
    /\ GroupOf \in [Jobs -> Groups]
    /\ ProfileOf \in [Groups -> Profile]
    /\ Typed \subseteq Groups /\ Removable \subseteq Groups
    /\ Release \in [Jobs -> Time]
    /\ Faults \subseteq FaultKind
    /\ MaxNow \in Time /\ MaxSpins \in Nat

VARIABLES
    \* rclcpp: Executor::spinning, the context, the groups and the messages
    spinning, ctx_ok, takeable, status, loans,
    \* Impl::profiles, and the registration call in progress
    binding, registering,
    \* Impl, guarded by its mutex
    pending, worker_ready, worker_idle, hint_needs_clear, stop, worker_error,
    \* threads blocked in condition.wait
    sleeping,
    \* the dispatcher and the worker: program counter, locals
    dpc, dwork, dispatch_error, wpc, wwork, wexc,
    \* the worker's entry in the pinned hint map
    slot,
    \* CLOCK_MONOTONIC
    now,
    \* the environment: calls of spin() so far, what the last one returned,
    \* and every fault that happened during it
    spins, result, raised

rosVars  == <<spinning, ctx_ok, takeable, status, loans>>
regVars  == <<binding, registering>>
implVars == <<pending, worker_ready, worker_idle, hint_needs_clear, stop,
              worker_error>>
dVars    == <<dpc, dwork, dispatch_error>>
wVars    == <<wpc, wwork, wexc>>
envVars  == <<now, spins, result, raised>>
vars == <<rosVars, regVars, implVars, sleeping, dVars, wVars, slot, envVars>>

-----------------------------------------------------------------------------
Status == {"new", "ready", "selected", "running",
           "completed", "dropped", "failed", "lost"}

Idle == <<"idle", "none">>        \* no registration call in progress

Error == FaultKind \cup {"none", "metadata", "already"}

DispatcherPC == {"returned", "reset", "await_ready", "loop", "await_idle",
                 "select", "take", "admit", "publish", "handoff",
                 "notify", "stop_spin", "await_final", "notify_stop", "join"}

WorkerPC == {"none", "configure", "notify_ready", "park", "wait", "run",
             "callback", "cleanup", "uncleared", "fail", "notify_fail",
             "cancel", "exited"}

TypeOK ==
    /\ spinning \in BOOLEAN /\ ctx_ok \in BOOLEAN
    /\ takeable \in [Groups -> BOOLEAN]
    /\ status \in [Jobs -> Status]
    /\ loans \subseteq Jobs
    /\ binding \in [Groups -> {"none", "plain", "typed"}]
    /\ registering \in {Idle} \cup ({"add", "extract", "remove"} \X Groups)
    /\ pending \in Jobs \cup {None}
    /\ worker_ready \in BOOLEAN /\ worker_idle \in BOOLEAN
    /\ hint_needs_clear \in BOOLEAN /\ stop \in BOOLEAN
    /\ worker_error \in Error
    /\ sleeping \subseteq {"dispatcher", "worker"}
    /\ dpc \in DispatcherPC /\ dwork \in Jobs \cup {None}
    /\ dispatch_error \in Error
    /\ wpc \in WorkerPC /\ wwork \in Jobs \cup {None} /\ wexc \in Error
    /\ slot \in Jobs \cup {None, Clear}
    /\ now \in Time /\ spins \in Nat
    /\ result \in Error /\ raised \subseteq Error

Init ==
    /\ spinning = FALSE /\ ctx_ok = TRUE
    /\ takeable = [g \in Groups |-> TRUE]
    /\ status = [j \in Jobs |-> "new"]
    /\ loans = {}
    /\ binding = [g \in Groups |-> "none"]
    /\ registering = Idle
    /\ pending = None
    /\ worker_ready = FALSE /\ worker_idle = FALSE
    /\ hint_needs_clear = FALSE /\ stop = FALSE
    /\ worker_error = "none"
    /\ sleeping = {}
    /\ dpc = "returned" /\ dwork = None /\ dispatch_error = "none"
    /\ wpc = "none" /\ wwork = None /\ wexc = "none"
    /\ slot = None
    /\ now = 0 /\ spins = 0
    /\ result = "none" /\ raised = {}

-----------------------------------------------------------------------------
(* Helpers.                                                                *)

ProfileFor(j) == ProfileOf[GroupOf[j]]

HintOf(j) == MakeHint(ProfileFor(j), Release[j])

\* mutant: a message is rejected at its bound, not after it
JobExpiredAtBound(j) == Expired(ProfileFor(j), HintOf(j), now + 1)
\* expired(*work): only work that carries a message is ever asked.
JobExpired(j) == Expired(ProfileFor(j), HintOf(j), now)

\* A call that may fail: it happens in this instance and is remembered.
Fails(kind) == kind \in Faults /\ raised' = raised \cup {kind}
Succeeds == UNCHANGED raised

\* return_taken_message() and release_callback_group() for the work of job j,
\* with the outcome that the caller of both records.
LetGo(j, outcome) ==
    /\ loans' = loans \ {j}
    /\ takeable' = [takeable EXCEPT ![GroupOf[j]] = TRUE]
    /\ status' = [status EXCEPT ![j] = outcome]

Awake(thread) == thread \notin sleeping
NotifyAll == sleeping' = {}

-----------------------------------------------------------------------------
(* Registration of callback groups, from any application thread.  The      *)
(* is_spinning() test and the writes to the profile map are separate       *)
(* steps: nothing holds a lock across them.                                *)

AddCheck(g) ==
    /\ registering = Idle /\ ~spinning /\ binding[g] = "none"
    /\ registering' = <<"add", g>>
    /\ UNCHANGED <<rosVars, binding, implVars, sleeping, dVars, wVars, slot, envVars>>

\* add_callback_group_with_profile: the profile without an extractor
AddProfile(g) ==
    /\ registering = <<"add", g>>
    /\ binding' = [binding EXCEPT ![g] = "plain"]
    /\ registering' = IF g \in Typed THEN <<"extract", g>> ELSE Idle
    /\ UNCHANGED <<rosVars, implVars, sleeping, dVars, wVars, slot, envVars>>

\* the second critical section of add_subscription_callback_group_...
AddExtractor(g) ==
    /\ registering = <<"extract", g>>
    /\ binding' = [binding EXCEPT ![g] = "typed"]
    /\ registering' = Idle
    /\ UNCHANGED <<rosVars, implVars, sleeping, dVars, wVars, slot, envVars>>

RemoveCheck(g) ==
    /\ registering = Idle /\ ~spinning /\ g \in Removable /\ binding[g] # "none"
    /\ registering' = <<"remove", g>>
    /\ UNCHANGED <<rosVars, binding, implVars, sleeping, dVars, wVars, slot, envVars>>

RemoveProfile(g) ==
    /\ registering = <<"remove", g>>
    /\ binding' = [binding EXCEPT ![g] = "none"]
    /\ registering' = Idle
    /\ UNCHANGED <<rosVars, implVars, sleeping, dVars, wVars, slot, envVars>>

Registration ==
    \E g \in Groups : \/ AddCheck(g) \/ AddProfile(g) \/ AddExtractor(g)
                      \/ RemoveCheck(g) \/ RemoveProfile(g)

-----------------------------------------------------------------------------
(* The dispatcher: the thread inside spin().                               *)

\* compare_exchange on `spinning'
SpinStart ==
    /\ dpc = "returned" /\ spins < MaxSpins /\ ~spinning
    /\ spinning' = TRUE /\ dpc' = "reset"
    /\ spins' = spins + 1 /\ result' = "none" /\ raised' = {}
    /\ UNCHANGED <<ctx_ok, takeable, status, loans, regVars, implVars, sleeping,
                   dwork, dispatch_error, wVars, slot, now>>

\* spin() throws; only a thread that could not be started left the flag set
SpinRefused ==
    /\ dpc = "returned" /\ spins < MaxSpins /\ spinning
    /\ spins' = spins + 1 /\ result' = "already" /\ raised' = {}
    /\ UNCHANGED <<rosVars, regVars, implVars, sleeping, dVars, wVars, slot, now>>

\* mutant: hint_needs_clear of the last session survives
ResetImplButHint ==
    /\ pending' = None
    /\ worker_ready' = FALSE /\ worker_idle' = FALSE
    /\ UNCHANGED hint_needs_clear /\ stop' = FALSE
    /\ worker_error' = "none"

ResetImpl ==
    /\ pending' = None
    /\ worker_ready' = FALSE /\ worker_idle' = FALSE
    /\ hint_needs_clear' = FALSE /\ stop' = FALSE
    /\ worker_error' = "none"

\* A new thread is a new key of the hint map, so the slot starts empty.
Spawn ==
    /\ dpc = "reset"
    /\ ResetImpl
    /\ dispatch_error' = "none" /\ wexc' = "none" /\ slot' = None
    /\ \/ Succeeds /\ wpc' = "configure" /\ dpc' = "await_ready" /\ UNCHANGED result
       \/ Fails("spawn") /\ wpc' = "none" /\ dpc' = "returned" /\ result' = "spawn"
    /\ UNCHANGED <<rosVars, regVars, sleeping, dwork, wwork, now, spins>>

\* mutant: the dispatcher does not wait for the worker to be idle
DispatcherMayPassBusy ==
    CASE dpc = "await_ready" -> worker_ready
      [] dpc = "await_final" -> worker_idle \/ worker_error # "none"
      [] OTHER -> TRUE

\* The three condition.wait predicates of the dispatcher
DispatcherMayPass ==
    CASE dpc = "await_ready" -> worker_ready
      [] dpc = "await_idle"  -> worker_idle \/ worker_error # "none" \/ ~spinning
      [] dpc = "await_final" -> worker_idle \/ worker_error # "none"
      [] OTHER -> TRUE

DispatcherSleep ==
    /\ Awake("dispatcher") /\ ~DispatcherMayPass
    /\ sleeping' = sleeping \cup {"dispatcher"}
    /\ UNCHANGED <<rosVars, regVars, implVars, dVars, wVars, slot, envVars>>

Passes(pc) == dpc = pc /\ Awake("dispatcher") /\ DispatcherMayPass

AwaitReady ==
    /\ Passes("await_ready")
    /\ dispatch_error' = worker_error
    /\ dpc' = IF worker_error # "none" THEN "stop_spin" ELSE "loop"
    /\ UNCHANGED <<rosVars, regVars, implVars, sleeping, dwork, wVars, slot, envVars>>

LoopTest ==
    /\ dpc = "loop"
    /\ dpc' = IF ctx_ok /\ spinning THEN "await_idle" ELSE "stop_spin"
    /\ UNCHANGED <<rosVars, regVars, implVars, sleeping, dwork, dispatch_error,
                   wVars, slot, envVars>>

AwaitIdle ==
    /\ Passes("await_idle")
    /\ dispatch_error' = worker_error
    /\ dpc' = IF worker_error # "none" \/ ~spinning THEN "stop_spin" ELSE "select"
    /\ UNCHANGED <<rosVars, regVars, implVars, sleeping, dwork, wVars, slot, envVars>>

\* get_next_executable(): what rclcpp can return, and only with its group free
Available(j) ==
    status[j] = "ready" /\ binding[GroupOf[j]] # "none" /\ takeable[GroupOf[j]]

\* rclcpp takes a mutually exclusive group until somebody stores `true' again
Select(j) ==
    /\ dpc = "select" /\ Available(j)
    /\ dwork' = j /\ dpc' = "take"
    /\ takeable' = [takeable EXCEPT ![GroupOf[j]] = FALSE]
    /\ UNCHANGED <<spinning, ctx_ok, status, loans, regVars, implVars, sleeping,
                   dispatch_error, wVars, slot, envVars>>

\* It returns false after a wakeup without work ...
SelectNothing ==
    /\ dpc = "select" /\ ~\E j \in Jobs : Available(j)
    /\ dpc' = "loop"
    /\ UNCHANGED <<rosVars, regVars, implVars, sleeping, dwork, dispatch_error,
                   wVars, slot, envVars>>

\* ... and when cancel() or the context's shutdown triggered its guard condition
SelectInterrupted ==
    /\ dpc = "select" /\ ~(spinning /\ ctx_ok)
    /\ dpc' = "loop"
    /\ UNCHANGED <<rosVars, regVars, implVars, sleeping, dwork, dispatch_error,
                   wVars, slot, envVars>>

\* mutant: the catch block forgets return_taken_message()
DispatchThrowsKeepingLoan(error, outcome) ==
    /\ UNCHANGED loans
    /\ takeable' = [takeable EXCEPT ![GroupOf[dwork]] = TRUE]
    /\ status' = [status EXCEPT ![dwork] = outcome]
    /\ raised' = raised \cup {error}
    /\ dispatch_error' = error
    /\ dwork' = None /\ dpc' = "stop_spin"

\* The catch around lines 455-496 and the one around the loop
DispatchThrows(error, outcome) ==
    /\ LetGo(dwork, outcome)
    /\ raised' = raised \cup {error}
    /\ dispatch_error' = error
    /\ dwork' = None /\ dpc' = "stop_spin"

\* No extractor in the binding: the callback gets a fresh id and release time.
PreparePlain ==
    /\ dpc = "take" /\ binding[GroupOf[dwork]] # "typed"
    /\ status' = [status EXCEPT ![dwork] = "selected"]
    /\ dpc' = "publish"
    /\ UNCHANGED <<spinning, ctx_ok, takeable, loans, regVars, implVars, sleeping,
                   dwork, dispatch_error, wVars, slot, envVars>>

\* The executable is no subscription, or delivers no plain ROS message: the
\* message was never taken and stays with the middleware.
RejectKind ==
    /\ dpc = "take" /\ binding[GroupOf[dwork]] = "typed"
    /\ "kind" \in Faults /\ DispatchThrows("kind", "ready")
    /\ UNCHANGED <<spinning, ctx_ok, regVars, implVars, sleeping, wVars, slot,
                   now, spins, result>>

\* take_type_erased() returns false: the sample is gone, no error
TakeNothing ==
    /\ dpc = "take" /\ binding[GroupOf[dwork]] = "typed"
    /\ "take" \in Faults /\ LetGo(dwork, "lost")
    /\ dwork' = None /\ dpc' = "loop"
    /\ UNCHANGED <<spinning, ctx_ok, regVars, implVars, sleeping, dispatch_error,
                   wVars, slot, envVars>>

\* The message is taken, its metadata read, the hint made and the observer
\* told "Selected"; bad metadata or a throwing observer abandons it.
TakeMessage ==
    /\ dpc = "take" /\ binding[GroupOf[dwork]] = "typed"
    /\ \/ /\ Release[dwork] # 0 /\ Succeeds
          /\ loans' = loans \cup {dwork}
          /\ status' = [status EXCEPT ![dwork] = "selected"]
          /\ dpc' = "admit"
          /\ UNCHANGED <<takeable, dwork, dispatch_error>>
       \/ Release[dwork] = 0 /\ DispatchThrows("metadata", "failed")
       \/ /\ Release[dwork] # 0 /\ "observer" \in Faults
          /\ DispatchThrows("observer", "failed")
    /\ UNCHANGED <<spinning, ctx_ok, regVars, implVars, sleeping, wVars, slot,
                   now, spins, result>>

\* The first expiry test, on the dispatcher: drop() or go on to publish
Admit ==
    /\ dpc = "admit"
    /\ \/ /\ JobExpired(dwork) /\ Succeeds /\ LetGo(dwork, "dropped")
          /\ dwork' = None /\ dpc' = "loop" /\ UNCHANGED dispatch_error
       \/ /\ JobExpired(dwork) /\ "observer" \in Faults
          /\ DispatchThrows("observer", "failed")
       \/ /\ ~JobExpired(dwork) /\ Succeeds /\ dpc' = "publish"
          /\ UNCHANGED <<takeable, status, loans, dwork, dispatch_error>>
    /\ UNCHANGED <<spinning, ctx_ok, regVars, implVars, sleeping, wVars, slot,
                   now, spins, result>>

Publish ==
    /\ dpc = "publish"
    /\ \/ /\ slot' = dwork /\ Succeeds /\ dpc' = "handoff"
          /\ UNCHANGED <<takeable, status, loans, dwork, dispatch_error>>
       \/ /\ "publish" \in Faults /\ DispatchThrows("publish", "failed")
          /\ UNCHANGED slot
    /\ UNCHANGED <<spinning, ctx_ok, regVars, implVars, sleeping, wVars, now,
                   spins, result>>

\* mutant: the worker is not marked busy when the job is handed over
HandoffStillIdle ==
    /\ dpc = "handoff"
    /\ hint_needs_clear' = TRUE /\ pending' = dwork
    /\ dwork' = None /\ dpc' = "notify"
    /\ UNCHANGED <<rosVars, regVars, worker_idle, worker_ready, stop, worker_error,
                   sleeping, dispatch_error, wVars, slot, envVars>>

Handoff ==
    /\ dpc = "handoff"
    /\ worker_idle' = FALSE /\ hint_needs_clear' = TRUE /\ pending' = dwork
    /\ dwork' = None /\ dpc' = "notify"
    /\ UNCHANGED <<rosVars, regVars, worker_ready, stop, worker_error, sleeping,
                   dispatch_error, wVars, slot, envVars>>

\* mutant: the job is handed over without a wakeup
NotifyHandoffLost ==
    /\ dpc = "notify" /\ dpc' = "loop"
    /\ UNCHANGED <<rosVars, regVars, implVars, sleeping, dwork, dispatch_error,
                   wVars, slot, envVars>>

NotifyHandoff ==
    /\ dpc = "notify" /\ NotifyAll /\ dpc' = "loop"
    /\ UNCHANGED <<rosVars, regVars, implVars, dwork, dispatch_error, wVars, slot,
                   envVars>>

StopSpin ==
    /\ dpc = "stop_spin"
    /\ spinning' = FALSE /\ dpc' = "await_final"
    /\ UNCHANGED <<ctx_ok, takeable, status, loans, regVars, implVars, sleeping,
                   dwork, dispatch_error, wVars, slot, envVars>>

\* mutant: the hint of the last job stays in the map
KeepCompletedHint ==
    Succeeds /\ UNCHANGED <<hint_needs_clear, slot, dispatch_error>>

\* clear_completed_hint(): the clear that fails leaves hint_needs_clear set and
\* is reported if nothing else was.
ClearCompletedHint ==
    \/ /\ ~hint_needs_clear /\ Succeeds
       /\ UNCHANGED <<hint_needs_clear, slot, dispatch_error>>
    \/ /\ hint_needs_clear /\ Succeeds
       /\ slot' = Clear /\ hint_needs_clear' = FALSE
       /\ UNCHANGED dispatch_error
    \/ /\ hint_needs_clear /\ Fails("clear")
       /\ dispatch_error' = IF dispatch_error = "none" THEN "clear" ELSE dispatch_error
       /\ UNCHANGED <<hint_needs_clear, slot>>

\* The clear and stop = true happen in one critical section.
AwaitFinal ==
    /\ Passes("await_final")
    /\ ClearCompletedHint
    /\ stop' = TRUE /\ dpc' = "notify_stop"
    /\ UNCHANGED <<rosVars, regVars, pending, worker_ready, worker_idle,
                   worker_error, sleeping, dwork, wVars, now, spins, result>>

\* mutant: the parked worker is not told to stop
NotifyStopLost ==
    /\ dpc = "notify_stop" /\ dpc' = "join"
    /\ UNCHANGED <<rosVars, regVars, implVars, sleeping, dwork, dispatch_error,
                   wVars, slot, envVars>>

NotifyStop ==
    /\ dpc = "notify_stop" /\ NotifyAll /\ dpc' = "join"
    /\ UNCHANGED <<rosVars, regVars, implVars, dwork, dispatch_error, wVars, slot,
                   envVars>>

\* mutant: the worker's own error is not looked at
DispatchErrorOnly == dispatch_error

\* The error that spin() rethrows: the first there is
FirstError == IF dispatch_error # "none" THEN dispatch_error ELSE worker_error

WorkerGoneOrIdle == wpc \in {"wait", "exited"}                       \* mutant
WorkerJoined == wpc = "exited"

Join ==
    /\ dpc = "join" /\ WorkerJoined
    /\ dpc' = "returned"
    /\ result' = FirstError
    /\ UNCHANGED <<rosVars, regVars, implVars, sleeping, dwork, dispatch_error,
                   wVars, slot, now, spins, raised>>

\* Every step of spin() but the ones that wait for the outside world
DispatcherStep ==
    \/ Spawn \/ DispatcherSleep \/ AwaitReady \/ LoopTest \/ AwaitIdle
    \/ (\E j \in Jobs : Select(j)) \/ SelectInterrupted
    \/ PreparePlain \/ RejectKind \/ TakeNothing \/ TakeMessage \/ Admit
    \/ Publish \/ Handoff \/ NotifyHandoff
    \/ StopSpin \/ AwaitFinal \/ NotifyStop \/ Join

Dispatcher == SpinStart \/ SpinRefused \/ SelectNothing \/ DispatcherStep

-----------------------------------------------------------------------------
(* The worker thread.                                                      *)

\* configure_worker(), then worker_ready under the mutex
Configure ==
    /\ wpc = "configure"
    /\ \/ /\ Succeeds /\ worker_ready' = TRUE /\ wpc' = "notify_ready"
          /\ UNCHANGED wexc
       \/ /\ Fails("configure") /\ wexc' = "configure" /\ wpc' = "fail"
          /\ UNCHANGED worker_ready
    /\ UNCHANGED <<rosVars, regVars, pending, worker_idle, hint_needs_clear, stop,
                   worker_error, sleeping, dVars, wwork, slot, now, spins, result>>

NotifyReady ==
    /\ wpc = "notify_ready" /\ NotifyAll /\ wpc' = "park"
    /\ UNCHANGED <<rosVars, regVars, implVars, dVars, wwork, wexc, slot, envVars>>

WorkerMayPass == stop \/ pending # None

\* mutant: the worker announces that it is idle without a notify_all
ParkSilently ==
    /\ wpc = "park"
    /\ worker_idle' = TRUE /\ wpc' = "wait"
    /\ sleeping' = IF WorkerMayPass THEN sleeping ELSE sleeping \cup {"worker"}
    /\ UNCHANGED <<rosVars, regVars, pending, worker_ready, hint_needs_clear, stop,
                   worker_error, dVars, wwork, wexc, slot, envVars>>

\* idle, notify_all and the first test of the wait predicate: one lock
Park ==
    /\ wpc = "park"
    /\ worker_idle' = TRUE /\ wpc' = "wait"
    /\ sleeping' = IF WorkerMayPass THEN {} ELSE {"worker"}
    /\ UNCHANGED <<rosVars, regVars, pending, worker_ready, hint_needs_clear, stop,
                   worker_error, dVars, wwork, wexc, slot, envVars>>

WorkerSleep ==
    /\ wpc = "wait" /\ Awake("worker") /\ ~WorkerMayPass
    /\ sleeping' = sleeping \cup {"worker"}
    /\ UNCHANGED <<rosVars, regVars, implVars, dVars, wVars, slot, envVars>>

\* Work that is already pending is run even when the session is stopping.
TakePending ==
    /\ wpc = "wait" /\ Awake("worker") /\ pending # None
    /\ wwork' = pending /\ pending' = None /\ wpc' = "run"
    /\ UNCHANGED <<rosVars, regVars, worker_ready, worker_idle, hint_needs_clear,
                   stop, worker_error, sleeping, dVars, wexc, slot, envVars>>

WorkerStop ==
    /\ wpc = "wait" /\ Awake("worker") /\ stop /\ pending = None
    /\ wpc' = "exited"
    /\ UNCHANGED <<rosVars, regVars, implVars, sleeping, dVars, wwork, wexc, slot,
                   envVars>>

\* A throw out of drop() or out of the callback: message and group are let go
\* of before the catch block goes on to the hint.
WorkerThrows(error) ==
    /\ LetGo(wwork, "failed")
    /\ raised' = raised \cup {error}
    /\ wexc' = error /\ wwork' = None /\ wpc' = "cleanup"

\* The second expiry test, on the worker, for work that carries a message
DropExpired ==
    /\ wpc = "run" /\ wwork \in loans /\ JobExpired(wwork)
    /\ \/ /\ Succeeds /\ LetGo(wwork, "dropped")
          /\ wwork' = None /\ wpc' = "park" /\ UNCHANGED wexc
       \/ "observer" \in Faults /\ WorkerThrows("observer")
    /\ UNCHANGED <<spinning, ctx_ok, regVars, implVars, sleeping, dVars, slot,
                   now, spins, result>>

StartCallback ==
    /\ wpc = "run" /\ ~(wwork \in loans /\ JobExpired(wwork))
    /\ status' = [status EXCEPT ![wwork] = "running"] /\ wpc' = "callback"
    /\ UNCHANGED <<spinning, ctx_ok, takeable, loans, regVars, implVars, sleeping,
                   dVars, wwork, wexc, slot, envVars>>

\* mutant: the hint is cleared after every callback
CallbackReturnsClearing ==
    /\ wpc = "callback"
    /\ LetGo(wwork, "completed") /\ wwork' = None /\ wpc' = "park" /\ slot' = Clear
    /\ UNCHANGED <<spinning, ctx_ok, regVars, implVars, sleeping, dVars, wexc, envVars>>

CallbackReturns ==
    /\ wpc = "callback"
    /\ LetGo(wwork, "completed") /\ wwork' = None /\ wpc' = "park"
    /\ UNCHANGED <<spinning, ctx_ok, regVars, implVars, sleeping, dVars, wexc, slot,
                   envVars>>

CallbackThrows ==
    /\ wpc = "callback" /\ "callback" \in Faults /\ WorkerThrows("callback")
    /\ UNCHANGED <<spinning, ctx_ok, regVars, implVars, sleeping, dVars, slot,
                   now, spins, result>>

\* clear() in the catch block; if it throws, its error replaces the first one
\* and hint_needs_clear stays set.
CleanupHint ==
    /\ wpc = "cleanup"
    /\ \/ Succeeds /\ slot' = Clear /\ wpc' = "uncleared" /\ UNCHANGED wexc
       \/ Fails("clear") /\ wexc' = "clear" /\ wpc' = "fail" /\ UNCHANGED slot
    /\ UNCHANGED <<rosVars, regVars, implVars, sleeping, dVars, wwork, now, spins,
                   result>>

MarkCleared ==
    /\ wpc = "uncleared"
    /\ hint_needs_clear' = FALSE /\ wpc' = "fail"
    /\ UNCHANGED <<rosVars, regVars, pending, worker_ready, worker_idle, stop,
                   worker_error, sleeping, dVars, wwork, wexc, slot, envVars>>

\* The outer catch block
WorkerFails ==
    /\ wpc = "fail"
    /\ worker_error' = wexc
    /\ worker_ready' = TRUE /\ worker_idle' = TRUE /\ stop' = TRUE
    /\ wpc' = "notify_fail"
    /\ UNCHANGED <<rosVars, regVars, pending, hint_needs_clear, sleeping, dVars,
                   wwork, wexc, slot, envVars>>

\* mutant: the failing worker relies on cancel() to wake the dispatcher
NotifyFailureLost ==
    /\ wpc = "notify_fail" /\ wpc' = "cancel"
    /\ UNCHANGED <<rosVars, regVars, implVars, sleeping, dVars, wwork, wexc, slot,
                   envVars>>

NotifyFailure ==
    /\ wpc = "notify_fail" /\ NotifyAll /\ wpc' = "cancel"
    /\ UNCHANGED <<rosVars, regVars, implVars, dVars, wwork, wexc, slot, envVars>>

WorkerCancels ==
    /\ wpc = "cancel" /\ spinning' = FALSE /\ wpc' = "exited"
    /\ UNCHANGED <<ctx_ok, takeable, status, loans, regVars, implVars, sleeping,
                   dVars, wwork, wexc, slot, envVars>>

Worker ==
    \/ Configure \/ NotifyReady \/ Park \/ WorkerSleep \/ TakePending
    \/ WorkerStop \/ DropExpired \/ StartCallback \/ CallbackReturns
    \/ CallbackThrows \/ CleanupHint \/ MarkCleared \/ WorkerFails
    \/ NotifyFailure \/ WorkerCancels

-----------------------------------------------------------------------------
(* The rest of the world.                                                  *)

\* Executor::cancel() from any thread.  It wakes get_next_executable(), and
\* does not notify the condition variable of Impl.
Cancel ==
    /\ spinning /\ spinning' = FALSE
    /\ UNCHANGED <<ctx_ok, takeable, status, loans, regVars, implVars, sleeping,
                   dVars, wVars, slot, envVars>>

ContextShutdown ==
    /\ ctx_ok /\ ctx_ok' = FALSE
    /\ UNCHANGED <<spinning, takeable, status, loans, regVars, implVars, sleeping,
                   dVars, wVars, slot, envVars>>

Arrive(j) ==
    /\ status[j] = "new" /\ status' = [status EXCEPT ![j] = "ready"]
    /\ UNCHANGED <<spinning, ctx_ok, takeable, loans, regVars, implVars, sleeping,
                   dVars, wVars, slot, envVars>>

Tick ==
    /\ now < MaxNow /\ now' = now + 1
    /\ UNCHANGED <<rosVars, regVars, implVars, sleeping, dVars, wVars, slot, spins,
                   result, raised>>

\* condition.wait may return without a notify; its predicate is tested again.
SpuriousWakeup ==
    /\ \E thread \in sleeping : sleeping' = sleeping \ {thread}
    /\ UNCHANGED <<rosVars, regVars, implVars, dVars, wVars, slot, envVars>>

Environment ==
    SpuriousWakeup \/ Cancel \/ ContextShutdown \/ Tick \/ (\E j \in Jobs : Arrive(j))

\* spin() has returned for the last time
Terminated == dpc = "returned" /\ spins = MaxSpins /\ UNCHANGED vars

Next == Registration \/ Dispatcher \/ Worker \/ Environment \/ Terminated

Spec == Init /\ [][Next]_vars

(***************************************************************************)
(* Both threads keep running when they can: the C++ threads are scheduled  *)
(* and user callbacks return.  Nobody has to call spin() or cancel(), no   *)
(* message has to arrive, and an idle middleware need not wake up.         *)
(***************************************************************************)
Fairness == WF_vars(DispatcherStep) /\ WF_vars(Worker)

FairSpec == Spec /\ Fairness

-----------------------------------------------------------------------------
(* Safety.                                                                 *)

\* The three places where a job can be while somebody is responsible for it
InHand == {dwork, pending, wwork} \ {None}

\* The job handed to the worker and not finished
Owner == IF pending # None THEN pending
         ELSE IF wpc \in {"run", "callback"} THEN wwork ELSE None

(* Publish before wake, and nobody overwrites the hint of a job in the      *)
(* worker's hands: from the moment a job is pending until its callback is   *)
(* over, the slot the kernel reads names that job, whatever cancel(), a     *)
(* failing sink or the next dispatch do meanwhile.                          *)
HintOwnership == Owner # None => slot = Owner

(* Exactly one job is in flight, its callback group is the only one that    *)
(* rclcpp may not take from, and only its message is on loan: no error,     *)
(* drop or empty take leaks a group or a message, and the moved-from        *)
(* executable of the dispatcher never frees a group that the worker uses.   *)
Custody ==
    /\ Cardinality(InHand) <= 1
    /\ \A g \in Groups : takeable[g] <=> \A j \in InHand : GroupOf[j] # g
    /\ loans \subseteq InHand

(* When spin() returns or throws, the worker thread is gone, no job is in    *)
(* flight, and every job that was ever selected was completed, dropped by    *)
(* its expiry or failed with an error: stopping loses no selected message.   *)
(* The executor can be used again: only a spin() that could not start its    *)
(* worker thread leaves `spinning' set, and then every later one is refused. *)
DrainedOnReturn ==
    dpc = "returned" =>
        /\ wpc \in {"none", "exited"}
        /\ InHand = {}
        /\ \A j \in Jobs : status[j] \notin {"selected", "running"}
        /\ spinning => result \in {"spawn", "already"}

(* spin() reports an error exactly when one happened in this session, and    *)
(* the error it rethrows is one that happened: neither the race between the  *)
(* worker's and the dispatcher's error nor a failing clear() in a catch      *)
(* block swallows the fact that something failed.                            *)
NoErrorLost ==
    dpc = "returned" /\ result # "already" =>
        IF raised = {} THEN result = "none" ELSE result \in raised

(* After spin() the slot of the dead worker names no job, unless the last    *)
(* clear() failed, and then it is still marked as not cleared: a worker that *)
(* could not clear leaves the retry to the dispatcher.                       *)
HintRetired ==
    dpc = "returned" /\ slot \in Jobs => hint_needs_clear /\ "clear" \in raised

(* The background hint is never published between two callbacks: once the    *)
(* slot is cleared no other job of this session is given to the worker, so   *)
(* a worker that is still about to park cannot be demoted with work to come. *)
ClearIsFinal == [][slot = Clear => slot' \in {Clear, None}]_vars

(* A message that was dropped as expired was expired, and stays so: the two  *)
(* tests, on two threads at two times, never drop a message that the exact   *)
(* comparison with its bounds would have admitted.                           *)
OnlyExpiredDropped ==
    \A j \in Jobs : status[j] = "dropped" =>
        ExactlyExpired(ProfileFor(j), Release[j], now)

(* "callback profiles cannot change while the executor is spinning", says   *)
(* the exception that both registration functions throw after testing        *)
(* is_spinning().  The test and the writes are not one step.                 *)
ProfilesFrozen == [][spinning => binding' = binding]_vars

(* The executor is an implementation of the ownership contract.             *)
Contract == INSTANCE HintContract WITH owner <- Owner
ImplementsContract == Contract!Spec

-----------------------------------------------------------------------------
(* The inductive invariant behind the safety properties.                   *)

DispatcherHolds == {"take", "admit", "publish", "handoff"}

\* Where the two program counters can be relative to each other, and what the
\* flags that the threads exchange say about them.  Its heart is the exclusion:
\* while the dispatcher selects and prepares a job, the worker is parked with
\* nothing pending, nobody told it to stop, and it has not failed.
Phases ==
    /\ dwork # None <=> dpc \in DispatcherHolds
    /\ wwork # None <=> wpc \in {"run", "callback"}
    /\ dpc \in {"returned", "reset"} => wpc \in {"none", "exited"}
    /\ wpc = "none" => dpc \in {"returned", "reset"} /\ pending = None
    /\ pending # None => wpc = "wait" /\ ~worker_idle
    /\ worker_idle => wpc \in {"none", "wait", "notify_fail", "cancel", "exited"}
    /\ worker_error # "none" => wpc \in {"none", "notify_fail", "cancel", "exited"}
    /\ wpc \in {"notify_fail", "cancel"} => worker_error # "none"
    /\ wpc \in {"cleanup", "uncleared", "fail"} <=> wexc # "none" /\ worker_error = "none"
    /\ wpc = "exited" \/ worker_error # "none" => stop
    /\ stop => worker_error # "none"
               \/ dpc \in {"notify_stop", "join", "returned", "reset"}
    /\ dpc \in {"select"} \cup DispatcherHolds =>
           worker_idle /\ wpc = "wait" /\ ~stop /\ worker_error = "none"
    /\ dpc \in {"notify_stop", "join"} =>
           stop /\ pending = None /\ wpc \in {"wait", "notify_fail", "cancel", "exited"}
    /\ dpc \in {"await_final", "notify_stop", "join"} => ~spinning
    /\ dpc = "returned" /\ spinning => result \in {"spawn", "already"}

\* Who holds a group, a message and a selected job.
Holding ==
    /\ \A g \in Groups : takeable[g] <=> \A j \in InHand : GroupOf[j] # g
    /\ loans \subseteq InHand
    /\ \A j \in Jobs : status[j] \in {"selected", "running"} => j \in InHand

\* What the slot holds, and who still has to clear it.
Hinting ==
    /\ HintOwnership
    /\ dpc = "handoff" => slot = dwork
    /\ wpc = "uncleared" => slot = Clear
    /\ slot \in Jobs => hint_needs_clear \/ dpc = "handoff"
    /\ dpc \in {"notify_stop", "join", "returned"} /\ hint_needs_clear =>
           "clear" \in raised
    /\ dpc = "returned" /\ spinning => slot = None /\ ~hint_needs_clear
    /\ slot = Clear =>
           \/ dpc \in {"notify_stop", "join", "returned", "reset"}
           \/ wpc \in {"uncleared", "fail", "notify_fail", "cancel", "exited"}

\* Every error that happened in this session is carried by somebody.
Carrying ==
    /\ dpc \notin {"returned", "reset", "stop_spin", "await_final", "notify_stop",
                   "join"} => dispatch_error = "none"
    /\ dpc \notin {"returned", "reset"} =>
           /\ {dispatch_error, worker_error, wexc} \subseteq raised \cup {"none"}
           /\ raised # {} => \/ dispatch_error # "none" \/ worker_error # "none"
                             \/ wpc \in {"cleanup", "uncleared", "fail"}
    /\ dpc = "reset" => raised = {}
    /\ NoErrorLost

IInv == TypeOK /\ Phases /\ Holding /\ Hinting /\ Carrying /\ OnlyExpiredDropped

-----------------------------------------------------------------------------
(* Liveness.                                                               *)

Stopping == dpc # "returned" /\ (~spinning \/ ~ctx_ok)

(* A session that was cancelled, or whose context was shut down, returns:    *)
(* no interleaving of cancel(), which notifies nobody, with parking, handing *)
(* over or failing leaves the two threads waiting for each other.            *)
CancelledSpinReturns == Stopping ~> (dpc = "returned" \/ ~Stopping)

(* A failure of a callback, the sink or the worker's setup ends the session  *)
(* instead of leaving the dispatcher waiting for a worker that is gone.      *)
FailureEndsSession == (raised # {}) ~> (dpc = "returned")

(* Every selected message is completed, dropped or failed.                   *)
SelectedIsResolved ==
    \A j \in Jobs : (status[j] \in {"selected", "running"}) ~>
                    (status[j] \in {"completed", "dropped", "failed"})

(* A ready job of a registered group is selected unless the session stops:   *)
(* the group and the worker's idle flag always come back.                    *)
ReadyIsServed ==
    \A j \in Jobs : (dpc = "loop" /\ Available(j)) ~>
                    (status[j] # "ready" \/ dpc = "returned")
=============================================================================
