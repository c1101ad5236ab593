---------------------- MODULE FreshnessExecutorProofs ----------------------
(***************************************************************************)
(* The safety properties of the executor hold for every set of jobs and    *)
(* groups, every profile, every failure and any number of sessions.        *)
(***************************************************************************)
EXTENDS FreshnessExecutor, HintPolicyProofs, FiniteSetTheorems

USE DEF rosVars, regVars, implVars, dVars, wVars, envVars

(* The types of the constants that the definitions below are applied to.    *)
LEMMA HintType ==
    \A j \in Jobs : /\ ProfileFor(j) \in Profile
                    /\ GroupOf[j] \in Groups
                    /\ Release[j] \in Time
BY ConstantsAssumption DEF ProfileFor

(* The executor is constructed with every field of its type.                *)
LEMMA InitType == Init => TypeOK
<1> SUFFICES ASSUME Init PROVE TypeOK
    OBVIOUS
<1> USE DEF Init
<1>1. /\ takeable \in [Groups -> BOOLEAN] /\ status \in [Jobs -> Status]
      /\ binding \in [Groups -> {"none", "plain", "typed"}]
    BY DEF Status
<1>2. /\ worker_error \in Error /\ dispatch_error \in Error /\ wexc \in Error
      /\ result \in Error
    BY DEF Error
<1>3. /\ dpc \in DispatcherPC /\ wpc \in WorkerPC
    BY DEF DispatcherPC, WorkerPC
<1>4. now \in Time
    BY MaxU64Assumption DEF Time
<1> QED
    BY <1>1, <1>2, <1>3, <1>4 DEF TypeOK

(* Every step of either thread preserves the type of every variable.        *)
LEMMA NextType == TypeOK /\ Phases /\ [Next]_vars => TypeOK'
<1> SUFFICES ASSUME TypeOK, Phases, [Next]_vars PROVE TypeOK'
    OBVIOUS
<1> USE HintType DEF TypeOK
<1>1. CASE Registration
    <2> USE DEF AddCheck, AddProfile, AddExtractor, RemoveCheck, RemoveProfile
    <2> PICK g \in Groups : \/ AddCheck(g) \/ AddProfile(g) \/ AddExtractor(g)
                           \/ RemoveCheck(g) \/ RemoveProfile(g)
        BY <1>1 DEF Registration
    <2>1. binding' \in [Groups -> {"none", "plain", "typed"}]
        OBVIOUS
    <2>2. registering' \in {Idle} \cup ({"add", "extract", "remove"} \X Groups)
        OBVIOUS
    <2> QED
        BY ZenonT(40), <2>1, <2>2
<1>2. CASE Environment
    <2>1. CASE Tick
        <3>1. now' \in Time
            BY <2>1, ConstantsAssumption, MaxU64Assumption DEF Tick, Time
        <3> QED
            BY <2>1, <3>1 DEF Tick
    <2>2. CASE \E j \in Jobs : Arrive(j)
        <3>1. status' \in [Jobs -> Status]
            BY <2>2 DEF Arrive, Status
        <3> QED
            BY <2>2, <3>1 DEF Arrive
    <2>3. CASE SpuriousWakeup \/ Cancel \/ ContextShutdown
        BY ZenonT(40), <2>3 DEF SpuriousWakeup, Cancel, ContextShutdown
    <2> QED
        BY <1>2, <2>1, <2>2, <2>3 DEF Environment
<1>3. CASE Worker
    <2> USE <1>3 DEF LetGo, Fails, Succeeds, NotifyAll, WorkerThrows, Worker, Configure,
            NotifyReady, Park, WorkerSleep, TakePending, WorkerStop, DropExpired,
            StartCallback, CallbackReturns, CallbackThrows, CleanupHint, MarkCleared,
            WorkerFails, NotifyFailure, WorkerCancels
    <2>1. /\ worker_error' \in Error /\ wexc' \in Error /\ raised' \subseteq Error
        BY ZenonT(40), ConstantsAssumption DEF Error, FaultKind
    <2>2. wpc' \in WorkerPC
        BY DEF WorkerPC
    <2>3. status' \in [Jobs -> Status]
        BY DEF Status
    <2>4. takeable' \in [Groups -> BOOLEAN] /\ loans' \subseteq Jobs
        OBVIOUS
    <2> QED
        BY ZenonT(40), <2>1, <2>2, <2>3, <2>4
<1>4. CASE Dispatcher
    <2> USE <1>4 DEF LetGo, Fails, Succeeds, NotifyAll, DispatchThrows, Dispatcher,
            DispatcherStep, SpinStart, SpinRefused, SelectNothing, Spawn, ResetImpl,
            DispatcherSleep, AwaitReady, LoopTest, AwaitIdle, Select, SelectInterrupted,
            PreparePlain, RejectKind, TakeNothing, TakeMessage, Admit, Publish, Handoff,
            NotifyHandoff, StopSpin, AwaitFinal, ClearCompletedHint, NotifyStop,
            Join, WorkerJoined, FirstError, Passes
    <2>1. raised' \subseteq Error
        BY ZenonT(40), ConstantsAssumption DEF Error, FaultKind
    <2>6. /\ worker_error' \in Error /\ wexc' \in Error
          /\ dispatch_error' \in Error /\ result' \in Error
        BY DEF Error, FaultKind
    <2>2. wpc' \in WorkerPC /\ dpc' \in DispatcherPC
        BY DEF WorkerPC, DispatcherPC
    <2>3. status' \in [Jobs -> Status]
        BY DEF Status
    <2>4. takeable' \in [Groups -> BOOLEAN] /\ loans' \subseteq Jobs
        BY DEF Phases, DispatcherHolds
    <2>5. dwork' \in Jobs \cup {None} /\ pending' \in Jobs \cup {None}
          /\ slot' \in Jobs \cup {None, Clear}
        OBVIOUS
    <2>7. /\ spinning' \in BOOLEAN /\ ctx_ok' \in BOOLEAN /\ UNCHANGED regVars
          /\ worker_ready' \in BOOLEAN /\ worker_idle' \in BOOLEAN
          /\ hint_needs_clear' \in BOOLEAN /\ stop' \in BOOLEAN
        BY ZenonT(40)
    <2>8. /\ sleeping' \subseteq {"dispatcher", "worker"} /\ spins' \in Nat
          /\ UNCHANGED <<now, wwork>>
        <3>1. CASE SpinStart \/ SpinRefused
            BY <3>1
        <3>2. CASE SelectNothing \/ DispatcherStep
            BY <3>2
        <3> QED
            BY <3>1, <3>2
    <2> QED
        BY <2>1, <2>2, <2>3, <2>4, <2>5, <2>6, <2>7, <2>8
<1>5. CASE Terminated \/ UNCHANGED vars
    BY <1>5 DEF Terminated, vars
<1> QED
    BY <1>1, <1>2, <1>3, <1>4, <1>5 DEF Next

(* The exclusion between the dispatcher's preparation and the worker, and   *)
(* the meaning of the flags, are preserved by every step.                   *)
LEMMA NextPhases == TypeOK /\ Phases /\ [Next]_vars => Phases'
<1> SUFFICES ASSUME TypeOK, Phases, [Next]_vars PROVE Phases'
    OBVIOUS
<1> USE ConstantsAssumption DEF TypeOK, Phases, DispatcherHolds
<1>1. CASE Registration
    BY <1>1 DEF Registration, AddCheck, AddProfile, AddExtractor, RemoveCheck,
                RemoveProfile
<1>2. CASE Environment
    BY <1>2 DEF Environment, SpuriousWakeup, Cancel, ContextShutdown, Arrive, Tick
<1>3. CASE Worker
    <2>1. CASE Configure
        BY <2>1 DEF Configure
    <2>2. CASE NotifyReady
        BY <2>2 DEF NotifyReady
    <2>3. CASE Park
        BY <2>3 DEF Park, WorkerMayPass
    <2>4. CASE WorkerSleep
        BY <2>4 DEF WorkerSleep
    <2>5. CASE TakePending
        BY <2>5 DEF TakePending
    <2>6. CASE WorkerStop
        BY <2>6 DEF WorkerStop
    <2>7. CASE DropExpired
        BY <2>7 DEF DropExpired, WorkerThrows
    <2>8. CASE StartCallback
        BY <2>8 DEF StartCallback
    <2>9. CASE CallbackReturns
        BY <2>9 DEF CallbackReturns
    <2>10. CASE CallbackThrows
        BY <2>10 DEF CallbackThrows, WorkerThrows
    <2>11. CASE CleanupHint
        BY <2>11 DEF CleanupHint
    <2>12. CASE MarkCleared
        BY <2>12 DEF MarkCleared
    <2>13. CASE WorkerFails
        BY <2>13 DEF WorkerFails
    <2>14. CASE NotifyFailure
        BY <2>14 DEF NotifyFailure
    <2>15. CASE WorkerCancels
        BY <2>15 DEF WorkerCancels
    <2> QED
        BY <1>3, <2>1, <2>2, <2>3, <2>4, <2>5, <2>6, <2>7, <2>8, <2>9, <2>10, <2>11,
           <2>12, <2>13, <2>14, <2>15
           DEF Worker
<1>4. CASE Dispatcher
    <2>1. CASE SpinStart
        BY <2>1 DEF SpinStart
    <2>2. CASE SpinRefused
        BY <2>2 DEF SpinRefused
    <2>3. CASE SelectNothing
        BY <2>3 DEF SelectNothing
    <2>4. CASE Spawn
        BY <2>4 DEF Spawn, ResetImpl
    <2>5. CASE DispatcherSleep
        BY <2>5 DEF DispatcherSleep
    <2>6. CASE AwaitReady
        BY <2>6 DEF AwaitReady, Passes, DispatcherMayPass
    <2>7. CASE LoopTest
        BY <2>7 DEF LoopTest
    <2>8. CASE AwaitIdle
        BY <2>8 DEF AwaitIdle, Passes, DispatcherMayPass
    <2>9. CASE \E j \in Jobs : Select(j)
        BY <2>9 DEF Select
    <2>10. CASE SelectInterrupted
        BY <2>10 DEF SelectInterrupted
    <2>11. CASE PreparePlain
        BY <2>11 DEF PreparePlain
    <2>12. CASE RejectKind
        BY <2>12 DEF RejectKind, DispatchThrows
    <2>13. CASE TakeNothing
        BY <2>13 DEF TakeNothing
    <2>14. CASE TakeMessage
        BY <2>14 DEF TakeMessage, DispatchThrows
    <2>15. CASE Admit
        BY <2>15 DEF Admit, DispatchThrows
    <2>16. CASE Publish
        BY <2>16 DEF Publish, DispatchThrows
    <2>17. CASE Handoff
        BY <2>17 DEF Handoff
    <2>18. CASE NotifyHandoff
        BY <2>18 DEF NotifyHandoff
    <2>19. CASE StopSpin
        BY <2>19 DEF StopSpin
    <2>20. CASE AwaitFinal
        BY <2>20 DEF AwaitFinal, ClearCompletedHint, Passes, DispatcherMayPass
    <2>21. CASE NotifyStop
        BY <2>21 DEF NotifyStop
    <2>22. CASE Join
        BY <2>22 DEF Join, WorkerJoined, FirstError
    <2> QED
        BY <1>4, <2>1, <2>2, <2>3, <2>4, <2>5, <2>6, <2>7, <2>8, <2>9, <2>10, <2>11,
           <2>12, <2>13, <2>14, <2>15, <2>16, <2>17, <2>18, <2>19, <2>20, <2>21, <2>22
           DEF Dispatcher, DispatcherStep
<1>5. CASE Terminated \/ UNCHANGED vars
    BY <1>5 DEF Terminated, vars
<1> QED
    BY <1>1, <1>2, <1>3, <1>4, <1>5 DEF Next

(* Groups, loans and selected jobs always belong to the one job in hand.     *)
LEMMA NextHolding == TypeOK /\ Phases /\ Holding /\ [Next]_vars => Holding'
<1> SUFFICES ASSUME TypeOK, Phases, Holding, [Next]_vars PROVE Holding'
    OBVIOUS
<1> USE ConstantsAssumption DEF TypeOK, Phases, DispatcherHolds, Holding, InHand
<1>1. CASE Registration
    BY <1>1 DEF Registration, AddCheck, AddProfile, AddExtractor, RemoveCheck,
                RemoveProfile
<1>2. CASE Environment
    BY <1>2 DEF Environment, SpuriousWakeup, Cancel, ContextShutdown, Arrive, Tick
<1>3. CASE Worker
    <2>1. CASE Configure
        BY <2>1 DEF Configure
    <2>2. CASE NotifyReady
        BY <2>2 DEF NotifyReady
    <2>3. CASE Park
        BY <2>3 DEF Park, WorkerMayPass
    <2>4. CASE WorkerSleep
        BY <2>4 DEF WorkerSleep
    <2>5. CASE TakePending
        BY <2>5 DEF TakePending
    <2>6. CASE WorkerStop
        BY <2>6 DEF WorkerStop
    <2>7. CASE DropExpired
        BY <2>7 DEF DropExpired, WorkerThrows, LetGo
    <2>8. CASE StartCallback
        BY <2>8 DEF StartCallback
    <2>9. CASE CallbackReturns
        BY <2>9 DEF CallbackReturns, LetGo
    <2>10. CASE CallbackThrows
        BY <2>10 DEF CallbackThrows, WorkerThrows, LetGo
    <2>11. CASE CleanupHint
        BY <2>11 DEF CleanupHint
    <2>12. CASE MarkCleared
        BY <2>12 DEF MarkCleared
    <2>13. CASE WorkerFails
        BY <2>13 DEF WorkerFails
    <2>14. CASE NotifyFailure
        BY <2>14 DEF NotifyFailure
    <2>15. CASE WorkerCancels
        BY <2>15 DEF WorkerCancels
    <2> QED
        BY <1>3, <2>1, <2>2, <2>3, <2>4, <2>5, <2>6, <2>7, <2>8, <2>9, <2>10, <2>11,
           <2>12, <2>13, <2>14, <2>15
           DEF Worker
<1>4. CASE Dispatcher
    <2>1. CASE SpinStart
        BY <2>1 DEF SpinStart
    <2>2. CASE SpinRefused
        BY <2>2 DEF SpinRefused
    <2>3. CASE SelectNothing
        BY <2>3 DEF SelectNothing
    <2>4. CASE Spawn
        BY <2>4 DEF Spawn, ResetImpl
    <2>5. CASE DispatcherSleep
        BY <2>5 DEF DispatcherSleep
    <2>6. CASE AwaitReady
        BY <2>6 DEF AwaitReady, Passes, DispatcherMayPass
    <2>7. CASE LoopTest
        BY <2>7 DEF LoopTest
    <2>8. CASE AwaitIdle
        BY <2>8 DEF AwaitIdle, Passes, DispatcherMayPass
    <2>9. CASE \E j \in Jobs : Select(j)
        BY <2>9 DEF Select, Available
    <2>10. CASE SelectInterrupted
        BY <2>10 DEF SelectInterrupted
    <2>11. CASE PreparePlain
        BY <2>11 DEF PreparePlain
    <2>12. CASE RejectKind
        BY <2>12 DEF RejectKind, DispatchThrows, LetGo
    <2>13. CASE TakeNothing
        BY <2>13 DEF TakeNothing, LetGo
    <2>14. CASE TakeMessage
        BY <2>14 DEF TakeMessage, DispatchThrows, LetGo
    <2>15. CASE Admit
        BY <2>15 DEF Admit, DispatchThrows, LetGo
    <2>16. CASE Publish
        BY <2>16 DEF Publish, DispatchThrows, LetGo
    <2>17. CASE Handoff
        BY <2>17 DEF Handoff
    <2>18. CASE NotifyHandoff
        BY <2>18 DEF NotifyHandoff
    <2>19. CASE StopSpin
        BY <2>19 DEF StopSpin
    <2>20. CASE AwaitFinal
        BY <2>20 DEF AwaitFinal, ClearCompletedHint, Passes, DispatcherMayPass
    <2>21. CASE NotifyStop
        BY <2>21 DEF NotifyStop
    <2>22. CASE Join
        BY <2>22 DEF Join, WorkerJoined, FirstError
    <2> QED
        BY <1>4, <2>1, <2>2, <2>3, <2>4, <2>5, <2>6, <2>7, <2>8, <2>9, <2>10, <2>11,
           <2>12, <2>13, <2>14, <2>15, <2>16, <2>17, <2>18, <2>19, <2>20, <2>21, <2>22
           DEF Dispatcher, DispatcherStep
<1>5. CASE Terminated \/ UNCHANGED vars
    BY <1>5 DEF Terminated, vars
<1> QED
    BY <1>1, <1>2, <1>3, <1>4, <1>5 DEF Next

(* The slot names the job the worker owns, and a hint that is left in it is  *)
(* marked for clearing.                                                      *)
LEMMA NextHinting == TypeOK /\ Phases /\ Hinting /\ [Next]_vars => Hinting'
<1> SUFFICES ASSUME TypeOK, Phases, Hinting, [Next]_vars PROVE Hinting'
    OBVIOUS
<1> USE ConstantsAssumption DEF TypeOK, Phases, DispatcherHolds, Hinting,
HintOwnership, Owner
<1>1. CASE Registration
    BY <1>1 DEF Registration, AddCheck, AddProfile, AddExtractor, RemoveCheck,
                RemoveProfile
<1>2. CASE Environment
    BY <1>2 DEF Environment, SpuriousWakeup, Cancel, ContextShutdown, Arrive, Tick
<1>3. CASE Worker
    <2>1. CASE Configure
        BY <2>1 DEF Configure, Fails, Succeeds
    <2>2. CASE NotifyReady
        BY <2>2 DEF NotifyReady
    <2>3. CASE Park
        BY <2>3 DEF Park, WorkerMayPass
    <2>4. CASE WorkerSleep
        BY <2>4 DEF WorkerSleep
    <2>5. CASE TakePending
        BY <2>5 DEF TakePending
    <2>6. CASE WorkerStop
        BY <2>6 DEF WorkerStop
    <2>7. CASE DropExpired
        BY <2>7 DEF DropExpired, WorkerThrows, Fails, Succeeds
    <2>8. CASE StartCallback
        BY <2>8 DEF StartCallback
    <2>9. CASE CallbackReturns
        BY <2>9 DEF CallbackReturns
    <2>10. CASE CallbackThrows
        BY <2>10 DEF CallbackThrows, WorkerThrows
    <2>11. CASE CleanupHint
        BY <2>11 DEF CleanupHint, Fails, Succeeds
    <2>12. CASE MarkCleared
        BY <2>12 DEF MarkCleared
    <2>13. CASE WorkerFails
        BY <2>13 DEF WorkerFails
    <2>14. CASE NotifyFailure
        BY <2>14 DEF NotifyFailure
    <2>15. CASE WorkerCancels
        BY <2>15 DEF WorkerCancels
    <2> QED
        BY <1>3, <2>1, <2>2, <2>3, <2>4, <2>5, <2>6, <2>7, <2>8, <2>9, <2>10, <2>11,
           <2>12, <2>13, <2>14, <2>15
           DEF Worker
<1>4. CASE Dispatcher
    <2>1. CASE SpinStart
        BY <2>1 DEF SpinStart
    <2>2. CASE SpinRefused
        BY <2>2 DEF SpinRefused
    <2>3. CASE SelectNothing
        BY <2>3 DEF SelectNothing
    <2>4. CASE Spawn
        BY <2>4 DEF Spawn, ResetImpl, Fails, Succeeds
    <2>5. CASE DispatcherSleep
        BY <2>5 DEF DispatcherSleep
    <2>6. CASE AwaitReady
        BY <2>6 DEF AwaitReady, Passes, DispatcherMayPass
    <2>7. CASE LoopTest
        BY <2>7 DEF LoopTest
    <2>8. CASE AwaitIdle
        BY <2>8 DEF AwaitIdle, Passes, DispatcherMayPass
    <2>9. CASE \E j \in Jobs : Select(j)
        BY <2>9 DEF Select
    <2>10. CASE SelectInterrupted
        BY <2>10 DEF SelectInterrupted
    <2>11. CASE PreparePlain
        BY <2>11 DEF PreparePlain
    <2>12. CASE RejectKind
        BY <2>12 DEF RejectKind, DispatchThrows
    <2>13. CASE TakeNothing
        BY <2>13 DEF TakeNothing
    <2>14. CASE TakeMessage
        BY <2>14 DEF TakeMessage, DispatchThrows, Fails, Succeeds
    <2>15. CASE Admit
        BY <2>15 DEF Admit, DispatchThrows, Fails, Succeeds
    <2>16. CASE Publish
        BY <2>16 DEF Publish, DispatchThrows, Fails, Succeeds
    <2>17. CASE Handoff
        BY <2>17 DEF Handoff
    <2>18. CASE NotifyHandoff
        BY <2>18 DEF NotifyHandoff
    <2>19. CASE StopSpin
        BY <2>19 DEF StopSpin
    <2>20. CASE AwaitFinal
        BY <2>20 DEF AwaitFinal, ClearCompletedHint, Passes, DispatcherMayPass,
           Fails, Succeeds
    <2>21. CASE NotifyStop
        BY <2>21 DEF NotifyStop
    <2>22. CASE Join
        BY <2>22 DEF Join, WorkerJoined, FirstError
    <2> QED
        BY <1>4, <2>1, <2>2, <2>3, <2>4, <2>5, <2>6, <2>7, <2>8, <2>9, <2>10, <2>11,
           <2>12, <2>13, <2>14, <2>15, <2>16, <2>17, <2>18, <2>19, <2>20, <2>21, <2>22
           DEF Dispatcher, DispatcherStep
<1>5. CASE Terminated \/ UNCHANGED vars
    BY <1>5 DEF Terminated, vars
<1> QED
    BY <1>1, <1>2, <1>3, <1>4, <1>5 DEF Next

(* An error that happened is carried until spin() reports it.                *)
LEMMA NextCarrying == TypeOK /\ Phases /\ Carrying /\ [Next]_vars => Carrying'
<1> SUFFICES ASSUME TypeOK, Phases, Carrying, [Next]_vars PROVE Carrying'
    OBVIOUS
<1> USE ConstantsAssumption DEF TypeOK, Phases, DispatcherHolds, Carrying, NoErrorLost
<1>1. CASE Registration
    BY <1>1 DEF Registration, AddCheck, AddProfile, AddExtractor, RemoveCheck,
                RemoveProfile
<1>2. CASE Environment
    BY <1>2 DEF Environment, SpuriousWakeup, Cancel, ContextShutdown, Arrive, Tick
<1>3. CASE Worker
    <2>1. CASE Configure
        BY <2>1 DEF Configure, Fails, Succeeds
    <2>2. CASE NotifyReady
        BY <2>2 DEF NotifyReady
    <2>3. CASE Park
        BY <2>3 DEF Park, WorkerMayPass
    <2>4. CASE WorkerSleep
        BY <2>4 DEF WorkerSleep
    <2>5. CASE TakePending
        BY <2>5 DEF TakePending
    <2>6. CASE WorkerStop
        BY <2>6 DEF WorkerStop
    <2>7. CASE DropExpired
        BY <2>7 DEF DropExpired, WorkerThrows, Fails, Succeeds
    <2>8. CASE StartCallback
        BY <2>8 DEF StartCallback
    <2>9. CASE CallbackReturns
        BY <2>9 DEF CallbackReturns
    <2>10. CASE CallbackThrows
        BY <2>10 DEF CallbackThrows, WorkerThrows
    <2>11. CASE CleanupHint
        BY <2>11 DEF CleanupHint, Fails, Succeeds
    <2>12. CASE MarkCleared
        BY <2>12 DEF MarkCleared
    <2>13. CASE WorkerFails
        BY <2>13 DEF WorkerFails
    <2>14. CASE NotifyFailure
        BY <2>14 DEF NotifyFailure
    <2>15. CASE WorkerCancels
        BY <2>15 DEF WorkerCancels
    <2> QED
        BY <1>3, <2>1, <2>2, <2>3, <2>4, <2>5, <2>6, <2>7, <2>8, <2>9, <2>10, <2>11,
           <2>12, <2>13, <2>14, <2>15
           DEF Worker
<1>4. CASE Dispatcher
    <2>1. CASE SpinStart
        BY <2>1 DEF SpinStart
    <2>2. CASE SpinRefused
        BY <2>2 DEF SpinRefused
    <2>3. CASE SelectNothing
        BY <2>3 DEF SelectNothing
    <2>4. CASE Spawn
        BY <2>4 DEF Spawn, ResetImpl, Fails, Succeeds
    <2>5. CASE DispatcherSleep
        BY <2>5 DEF DispatcherSleep
    <2>6. CASE AwaitReady
        BY <2>6 DEF AwaitReady, Passes, DispatcherMayPass
    <2>7. CASE LoopTest
        BY <2>7 DEF LoopTest
    <2>8. CASE AwaitIdle
        BY <2>8 DEF AwaitIdle, Passes, DispatcherMayPass
    <2>9. CASE \E j \in Jobs : Select(j)
        BY <2>9 DEF Select
    <2>10. CASE SelectInterrupted
        BY <2>10 DEF SelectInterrupted
    <2>11. CASE PreparePlain
        BY <2>11 DEF PreparePlain
    <2>12. CASE RejectKind
        BY <2>12 DEF RejectKind, DispatchThrows
    <2>13. CASE TakeNothing
        BY <2>13 DEF TakeNothing
    <2>14. CASE TakeMessage
        BY <2>14 DEF TakeMessage, DispatchThrows, Fails, Succeeds
    <2>15. CASE Admit
        BY <2>15 DEF Admit, DispatchThrows, Fails, Succeeds
    <2>16. CASE Publish
        BY <2>16 DEF Publish, DispatchThrows, Fails, Succeeds
    <2>17. CASE Handoff
        BY <2>17 DEF Handoff
    <2>18. CASE NotifyHandoff
        BY <2>18 DEF NotifyHandoff
    <2>19. CASE StopSpin
        BY <2>19 DEF StopSpin
    <2>20. CASE AwaitFinal
        BY <2>20 DEF AwaitFinal, ClearCompletedHint, Passes, DispatcherMayPass,
           Fails, Succeeds
    <2>21. CASE NotifyStop
        BY <2>21 DEF NotifyStop
    <2>22. CASE Join
        BY <2>22 DEF Join, WorkerJoined, FirstError
    <2> QED
        BY <1>4, <2>1, <2>2, <2>3, <2>4, <2>5, <2>6, <2>7, <2>8, <2>9, <2>10, <2>11,
           <2>12, <2>13, <2>14, <2>15, <2>16, <2>17, <2>18, <2>19, <2>20, <2>21, <2>22
           DEF Dispatcher, DispatcherStep
<1>5. CASE Terminated \/ UNCHANGED vars
    BY <1>5 DEF Terminated, vars
<1> QED
    BY <1>1, <1>2, <1>3, <1>4, <1>5 DEF Next

(* A drop follows an expiry test that was exact, and the clock only grows.   *)
LEMMA NextDropped ==
    TypeOK /\ Phases /\ OnlyExpiredDropped /\ [Next]_vars => OnlyExpiredDropped'
<1> SUFFICES ASSUME TypeOK, Phases, OnlyExpiredDropped, [Next]_vars,
                    NEW j \in Jobs, status'[j] = "dropped"
             PROVE  ExactlyExpired(ProfileFor(j), Release[j], now')
    BY DEF OnlyExpiredDropped, ProfileFor
<1>1. /\ ProfileFor(j) \in Profile /\ Release[j] \in Time
      /\ now \in Time /\ now' \in Time
    BY HintType, NextType DEF TypeOK
<1>2. now' >= now
    <2>1. CASE Tick
        BY <2>1, <1>1, MaxU64Assumption DEF Tick, Time
    <2>2. CASE UNCHANGED now
        BY <2>2, <1>1, MaxU64Assumption DEF Time
    <2> QED
        BY <2>1, <2>2 DEF Next, Registration, AddCheck, AddProfile, AddExtractor,
           RemoveCheck, RemoveProfile, Environment, SpuriousWakeup, Cancel, ContextShutdown, Arrive,
           Worker, Configure, NotifyReady, Park, WorkerSleep, TakePending, WorkerStop,
           DropExpired, StartCallback, CallbackReturns, CallbackThrows, CleanupHint,
           MarkCleared, WorkerFails, NotifyFailure, WorkerCancels, Dispatcher,
           DispatcherStep, SpinStart, SpinRefused, SelectNothing, Spawn,
           DispatcherSleep, AwaitReady, LoopTest, AwaitIdle, Select, SelectInterrupted,
           PreparePlain, RejectKind, TakeNothing, TakeMessage, Admit, Publish, Handoff,
           NotifyHandoff, StopSpin, AwaitFinal, ClearCompletedHint, NotifyStop, Join,
           WorkerJoined, FirstError, Terminated, vars
<1>3. CASE status[j] = "dropped"
    BY <1>1, <1>2, <1>3, ExpiryIsMonotone DEF OnlyExpiredDropped
<1>4. CASE status[j] # "dropped"
    \* only the two drop() calls give a job this status, after an expiry test
    <2>1. (Admit \/ DropExpired) /\ JobExpired(j)
        BY <1>4 DEF TypeOK, Next, Registration, AddCheck, AddProfile, AddExtractor,
           RemoveCheck, RemoveProfile, Environment, SpuriousWakeup, Cancel, ContextShutdown, Arrive,
           Tick, Worker, Configure, NotifyReady, Park, WorkerSleep, TakePending,
           WorkerStop, DropExpired, StartCallback, CallbackReturns, CallbackThrows,
           CleanupHint, MarkCleared, WorkerFails, NotifyFailure, WorkerCancels,
           Dispatcher, DispatcherStep, SpinStart, SpinRefused, SelectNothing, Spawn,
           DispatcherSleep, AwaitReady, LoopTest, AwaitIdle, Select, SelectInterrupted,
           PreparePlain, RejectKind, TakeNothing, TakeMessage, Admit, Publish, Handoff,
           NotifyHandoff, StopSpin, AwaitFinal, ClearCompletedHint, NotifyStop, Join,
           WorkerJoined, FirstError, Terminated, vars,
           LetGo, DispatchThrows, WorkerThrows
    <2>2. ExactlyExpired(ProfileFor(j), Release[j], now)
        BY <2>1, <1>1, ExpiredIsExact DEF JobExpired, HintOf
    <2> QED
        BY SMTT(30), <2>2, <1>1, <1>2, ExpiryIsMonotone
<1> QED
    BY <1>3, <1>4

-----------------------------------------------------------------------------
(* The inductive invariant holds in every reachable state.                  *)
THEOREM Invariance == Spec => []IInv
<1>1. Init => IInv
    <2> SUFFICES ASSUME Init PROVE IInv
        OBVIOUS
    <2>1. TypeOK
        BY InitType
    <2>2. Phases /\ Holding /\ Hinting /\ Carrying /\ OnlyExpiredDropped
        BY ConstantsAssumption DEF Init, Phases, DispatcherHolds, Holding, InHand,
           Hinting, HintOwnership, Owner, Carrying, NoErrorLost, OnlyExpiredDropped
    <2> QED
        BY <2>1, <2>2 DEF IInv
<1>2. IInv /\ [Next]_vars => IInv'
    BY NextType, NextPhases, NextHolding, NextHinting, NextCarrying, NextDropped
       DEF IInv
<1> QED
    BY <1>1, <1>2, PTL DEF Spec

(* Every variable keeps its type.                                           *)
THEOREM TypeCorrect == Spec => []TypeOK
<1>1. IInv => TypeOK
    BY DEF IInv
<1> QED
    BY <1>1, Invariance, PTL

(* The hint of a job is in the slot before the worker can see the job, and    *)
(* stays there until its callback is over.                                   *)
THEOREM HintOwnershipHolds == Spec => []HintOwnership
<1>1. IInv => HintOwnership
    BY DEF IInv, Hinting
<1> QED
    BY <1>1, Invariance, PTL

(* One job in hand, and exactly its group and its message are taken.         *)
THEOREM CustodyHolds == Spec => []Custody
<1>1. IInv => Custody
    <2> SUFFICES ASSUME IInv PROVE Custody
        OBVIOUS
    <2>1. \E j \in Jobs \cup {None} : InHand \subseteq {j}
        BY DEF IInv, TypeOK, Phases, DispatcherHolds, InHand
    <2>2. Cardinality(InHand) <= 1
        <3> PICK j : InHand \subseteq {j}
            BY <2>1
        <3>1. IsFiniteSet({j}) /\ Cardinality({j}) = 1
            BY FS_Singleton
        <3> QED
            BY <3>1, FS_Subset
    <2> QED
        BY <2>2 DEF IInv, Holding, Custody
<1> QED
    BY <1>1, Invariance, PTL

(* spin() never returns with a job in flight or a selected job unresolved.   *)
THEOREM DrainedOnReturnHolds == Spec => []DrainedOnReturn
<1>1. IInv => DrainedOnReturn
    BY DEF IInv, TypeOK, Phases, Holding, DispatcherHolds, InHand, DrainedOnReturn
<1> QED
    BY <1>1, Invariance, PTL

(* spin() reports an error if and only if one happened.                      *)
THEOREM NoErrorLostHolds == Spec => []NoErrorLost
<1>1. IInv => NoErrorLost
    BY DEF IInv, Carrying
<1> QED
    BY <1>1, Invariance, PTL

(* A hint that outlives spin() is one whose clear() failed.                  *)
THEOREM HintRetiredHolds == Spec => []HintRetired
<1>1. IInv => HintRetired
    BY ConstantsAssumption DEF IInv, Hinting, HintRetired
<1> QED
    BY <1>1, Invariance, PTL

(* Only expired messages are dropped.                                        *)
THEOREM OnlyExpiredDroppedHolds == Spec => []OnlyExpiredDropped
<1>1. IInv => OnlyExpiredDropped
    BY DEF IInv
<1> QED
    BY <1>1, Invariance, PTL

(* No step replaces a cleared slot by the hint of another job: the           *)
(* background hint is never published between two callbacks of a session.    *)
THEOREM ClearIsFinalHolds == Spec => ClearIsFinal
<1>1. IInv /\ [Next]_vars => [slot = Clear => slot' \in {Clear, None}]_vars
    <2> SUFFICES ASSUME IInv, [Next]_vars, slot = Clear
                 PROVE  slot' \in {Clear, None}
        OBVIOUS
    <2>1. ~Publish
        BY DEF IInv, Phases, DispatcherHolds, Hinting, Publish
    <2> QED
        BY <2>1 DEF Next, Registration, AddCheck, AddProfile, AddExtractor,
           RemoveCheck, RemoveProfile, Environment, SpuriousWakeup, Cancel, ContextShutdown, Arrive,
           Tick, Worker, Configure, NotifyReady, Park, WorkerSleep, TakePending,
           WorkerStop, DropExpired, StartCallback, CallbackReturns, CallbackThrows,
           CleanupHint, MarkCleared, WorkerFails, NotifyFailure, WorkerCancels,
           Dispatcher, DispatcherStep, SpinStart, SpinRefused, SelectNothing, Spawn,
           DispatcherSleep, AwaitReady, LoopTest, AwaitIdle, Select, SelectInterrupted,
           PreparePlain, RejectKind, TakeNothing, TakeMessage, Admit, Handoff,
           NotifyHandoff, StopSpin, AwaitFinal, ClearCompletedHint, NotifyStop, Join,
           WorkerJoined, FirstError, Terminated, vars
<1> QED
    BY <1>1, Invariance, PTL DEF Spec, ClearIsFinal

(* The executor implements the ownership contract: publishing, clearing and  *)
(* starting a new worker happen only while the worker owns nothing, and a     *)
(* job is handed over only with its hint in the slot.                         *)
THEOREM ImplementsContractHolds == Spec => ImplementsContract
<1>1. Init => Contract!Init
    BY DEF Init, Contract!Init, Owner
<1>2. IInv /\ [Next]_vars => [Contract!Next]_(Contract!vars)
    <2> SUFFICES ASSUME IInv, [Next]_vars
                 PROVE  Contract!Next \/ UNCHANGED <<slot, Owner>>
        BY DEF Contract!vars
    <2> USE ConstantsAssumption DEF IInv, TypeOK, Phases, DispatcherHolds, Hinting,
    Owner
    <2>1. CASE Publish
        BY <2>1 DEF Publish, DispatchThrows, Contract!Next, Contract!Publish
    <2>2. CASE Handoff
        BY <2>2 DEF Handoff, Contract!Next, Contract!Handoff
    <2>3. CASE DropExpired \/ CallbackReturns \/ CallbackThrows
        BY <2>3 DEF DropExpired, CallbackReturns, CallbackThrows, WorkerThrows,
           Contract!Next, Contract!Finish
    <2>4. CASE AwaitFinal \/ CleanupHint
        BY <2>4 DEF AwaitFinal, ClearCompletedHint, Passes, DispatcherMayPass,
           CleanupHint, Contract!Next,
           Contract!Retire
    <2>5. CASE Spawn
        BY <2>5 DEF Spawn, ResetImpl, Contract!Next, Contract!NewWorker
    <2>6. CASE TakePending \/ StartCallback
        BY <2>6 DEF TakePending, StartCallback
    <2>7. CASE Configure \/ NotifyReady \/ Park \/ WorkerSleep \/ WorkerStop
               \/ MarkCleared \/ WorkerFails \/ NotifyFailure \/ WorkerCancels
        BY <2>7 DEF Configure, NotifyReady, Park, WorkerSleep, WorkerStop, MarkCleared,
           WorkerFails, NotifyFailure, WorkerCancels
    <2>8. CASE Registration \/ Environment \/ Terminated \/ UNCHANGED vars
        BY <2>8 DEF Registration, AddCheck, AddProfile, AddExtractor, RemoveCheck,
           RemoveProfile, Environment, SpuriousWakeup, Cancel, ContextShutdown, Arrive, Tick,
           Terminated, vars
    <2>9. CASE \/ SpinStart \/ SpinRefused \/ SelectNothing \/ DispatcherSleep
               \/ AwaitReady \/ LoopTest \/ AwaitIdle \/ \E j \in Jobs : Select(j)
               \/ SelectInterrupted \/ PreparePlain \/ RejectKind \/ TakeNothing
               \/ TakeMessage \/ Admit \/ NotifyHandoff \/ StopSpin \/ NotifyStop \/ Join
        BY <2>9 DEF SpinStart, SpinRefused, SelectNothing, DispatcherSleep, AwaitReady,
           LoopTest, AwaitIdle, Select, SelectInterrupted, PreparePlain, RejectKind,
           TakeNothing, TakeMessage, Admit, NotifyHandoff, StopSpin, NotifyStop,
           Join, WorkerJoined, FirstError
    <2> QED
        BY <2>1, <2>2, <2>3, <2>4, <2>5, <2>6, <2>7, <2>8, <2>9
           DEF Next, Worker, Dispatcher, DispatcherStep
<1> QED
    BY <1>1, <1>2, Invariance, PTL DEF Spec, ImplementsContract, Contract!Spec
=============================================================================
