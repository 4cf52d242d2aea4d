--------------------------- MODULE HotSwitchProofs --------------------------
(***************************************************************************)
(* Theorems of HotSwitch, for any number of attempts, sweeps, requests,    *)
(* faults and edits, and for commands that take effect after their call    *)
(* has failed.  First its types, and what a cancellation and a Target that *)
(* is not the operation's own are protected from; then traffic and         *)
(* endings: Source is stopped only when nothing can reach it, no alias     *)
(* leads to a model that does not run, and what an ending promises is what *)
(* serves, as long as no stop comes late.                                  *)
(***************************************************************************)
EXTENDS HotSwitch, TLAPS

\* A container is commanded only in a step that commands one, and the boundary before a
\* stop belongs to STOP_SOURCE: the types of cont rest on it, and so does RetainedTargetKept.
PhaseOK ==
  /\ pc \in {"call", "mark"} => cur \in DOMAIN CommandOf
  /\ pc \in {"proof", "decide", "desire"} => cur = "STOP_SOURCE"

TypeInv == TypeOK /\ PhaseOK

Containers == [Deployments -> {"absent", "stopped", "running"}]
Commands   == [dep : Deployments, to : {"stopped", "running"}]

-----------------------------------------------------------------------------
(* Pieces of actions.                                                      *)

\* A fault is counted within its bound.
LEMMA FaultCounts == ASSUME BoundType, NEW k, Fault(k) PROVE BoundType'
BY DEF BoundType, Fault

\* Versions are natural numbers, the next one too.
LEMMA VersionTyped == RowType => ver \in Nat /\ Bumped \in Nat
BY DEF RowType, Bumped

\* A command leaves containers as containers.
LEMMA EffectTyped == ASSUME RowType, NEW c \in Commands PROVE Effect(c) \in Containers
BY DEF RowType, Effect, Commands, Containers, Deployments

\* What the worker awaits is a command.
LEMMA UnderWayTyped == ASSUME PhaseOK PROVE UnderWay \subseteq Commands
<1>1. pc = "call" => CommandOf[cur] \in Commands
  BY DEF PhaseOK, CommandOf, Commands, Deployments
<1>2. StopTarget \in Commands
  BY DEF StopTarget, Commands, Deployments
<1> QED BY <1>1, <1>2 DEF UnderWay

\* So a lost answer leaves containers and commands.
LEMMA LossTyped == ASSUME RowType, PhaseOK, LosesAnswer
                   PROVE  cont' \in Containers /\ late' \in SUBSET Commands
<1>0. cont \in Containers /\ late \in SUBSET Commands
  BY DEF RowType, Containers, Commands
<1>1. CASE UNCHANGED late /\ cont' \in {cont} \cup {Effect(c) : c \in UnderWay}
  BY <1>0, <1>1, EffectTyped, UnderWayTyped
<1>2. CASE UNCHANGED cont /\ \E c \in UnderWay : late' = late \cup {c}
  BY <1>0, <1>2, UnderWayTyped
<1> QED BY <1>1, <1>2 DEF LosesAnswer

\* A command that succeeds leaves containers.
LEMMA CommandTyped == ASSUME RowType, cur \in DOMAIN CommandOf
                      PROVE  Commanded \in Containers
<1>1. CommandOf[cur] \in Commands
  BY DEF CommandOf, Commands, Deployments
<1> QED BY <1>1, EffectTyped DEF Commanded

\* A cleanup leaves containers, too,
LEMMA DownTyped == RowType => TargetDown \in Containers
<1>1. StopTarget \in Commands
  BY DEF StopTarget, Commands, Deployments
<1> QED BY <1>1, EffectTyped DEF TargetDown

\* and so does a command that comes late.
LEMMA LateTyped == ASSUME RowType, LateEffect
                   PROVE  cont' \in Containers /\ late' \in SUBSET Commands
<1>1. PICK c \in late : cont' = Effect(c) /\ late' = late \ {c}
  BY DEF LateEffect
<1>2. late \in SUBSET Commands
  BY DEF RowType, Commands
<1> QED BY <1>1, <1>2, EffectTyped

\* No step's command stops a running Target.
LEMMA CommandsSpareTarget ==
  ASSUME RowType, cur \in DOMAIN CommandOf, Runs("target")
  PROVE  Commanded["target"] = "running"
BY DEF RowType, CommandOf, Commanded, Effect, Deployments, Runs

\* A step that begins is a step of one of the two sequences.
LEMMA BeginTyped == ASSUME WorkerType, BeginStep PROVE WorkerType'
<1>1. PICK sequence \in {Forward, Back} : \E i \in DOMAIN sequence : Begin(sequence, i)
  BY DEF BeginStep
<1>2. PICK i \in DOMAIN sequence : Begin(sequence, i)
  BY <1>1
<1>3. sequence[i] \in Steps
  BY DEF Steps, ForwardSteps, BackSteps
<1>4. pc' = "body" /\ want' = 0 /\ cur' = sequence[i]
  BY <1>2 DEF Begin
<1>5. anomaly' \in {anomaly, anomaly \cup {"failed step skipped"}}
  BY <1>2 DEF Begin
<1> QED BY <1>3, <1>4, <1>5 DEF WorkerType, Phases

-----------------------------------------------------------------------------
(* One lemma per part of the types: each action keeps it.                  *)

\* The bounds are kept by every step.
LEMMA BoundTyped == ASSUME TypeOK, [Next]_vars PROVE BoundType'
<1>0. BoundType
  BY DEF TypeOK
<1> USE <1>0 DEF BoundType, OthersUnchanged, RowsUnchanged, Fault, Swept, boundVars
<1>1. CASE UNCHANGED vars
  BY <1>1 DEF vars
<1>2. CASE Claim \/ RecoverStale \/ CloseJob
  BY <1>2 DEF Claim, RecoverStale, CloseJob
<1>3. CASE Resume \/ ObserveCancel \/ SourceDrained \/ CancelWhileDraining \/ StepFailed \/
  CancelBeforeRoute
  BY <1>3 DEF Resume, ObserveCancel, SourceDrained, CancelWhileDraining, StepFailed,
    CancelBeforeRoute, RowsUnchanged
<1>4. CASE BeginStep \/ Succeed
  BY <1>4 DEF BeginStep, Succeed, Begin
<1>5. CASE CheckPasses
  BY <1>5 DEF CheckPasses
<1>6. CASE CheckFails \/ RouteConflict \/ CallRefused \/ WaitSatisfied \/ WaitTimesOut
  BY <1>6 DEF CheckFails, RouteConflict, CallRefused, WaitSatisfied, WaitTimesOut
<1>7. CASE DecideRoute \/ DecideStop
  BY <1>7 DEF DecideRoute, DecideStop, Decide
<1>8. CASE ActivateTarget
  BY <1>8 DEF ActivateTarget
<1>9. CASE ActivateSource \/ Commit \/ StartWait
  BY <1>9 DEF ActivateSource, Commit, StartWait
<1>10. CASE StartTarget \/ StartProof \/ KeepSource
  BY <1>10 DEF StartTarget, StartProof, KeepSource
<1>11. CASE NothingToStop \/ WantSourceStopped \/ StartSource
  BY <1>11 DEF NothingToStop, WantSourceStopped, StartSource
<1>12. CASE CallSucceeds
  BY <1>12 DEF CallSucceeds
<1>13. CASE Mark
  BY <1>13 DEF Mark
<1>14. CASE RetryableError
  BY <1>14 DEF RetryableError
<1>15. CASE StepError \/ UnexpectedError
  BY <1>15 DEF StepError, UnexpectedError
<1>16. CASE Classify \/ Unobservable \/ CleanupFails
  BY <1>16 DEF Classify, Unobservable, CleanupFails
<1>17. CASE StopOwnedTarget \/ End
  BY <1>17 DEF StopOwnedTarget, End
<1>18. CASE MarkRollingBack \/ EnsureRollback \/ FinishRollback \/ ReopenCreated
  BY <1>18 DEF MarkRollingBack, EnsureRollback, FinishRollback, ReopenCreated
<1>19. CASE Sweep
  BY <1>19 DEF Sweep, Settle, ReconcileSucceeded, ReconcileRolledBack, ReconcileCancelled,
    ResumeForward, ResumeRollback, CreateRollback, Unresolved
<1>20. CASE Crash
  BY <1>20, FaultCounts DEF Crash
<1>21. CASE RequestCancel
  BY <1>21 DEF RequestCancel
<1>22. CASE OperatorSetsRoute
  <2>1. edits' = edits + 1 /\ UNCHANGED <<faults, sweeps>>
    BY <1>22 DEF OperatorSetsRoute
  <2> QED BY <2>1
<1>23. CASE TargetExits
  BY <1>23, FaultCounts DEF TargetExits
<1>24. CASE StartReload \/ FinishReload \/ Admit \/ Bind \/ Release \/ LateEffect
  BY <1>24 DEF StartReload, FinishReload, Admit, Bind, Release, LateEffect
<1> QED BY <1>1, <1>2, <1>3, <1>4, <1>5, <1>6, <1>7, <1>8, <1>9, <1>10, <1>11, <1>12, <1>13,
  <1>14, <1>15, <1>16, <1>17, <1>18, <1>19, <1>20, <1>21, <1>22, <1>23, <1>24 DEF Next,
  WorkerStep

\* The worker's state keeps its types.
LEMMA WorkerTyped == ASSUME TypeOK, [Next]_vars PROVE WorkerType'
<1>0. WorkerType /\ ver \in Nat /\ routeVer \in Nat /\ backVer \in Nat
  BY DEF TypeOK, RowType, OperationType
<1> USE <1>0 DEF WorkerType, Phases, OthersUnchanged, Forget, At, FailStep, AfterFailure,
  AfterCancel, Onward, Cleanup, workerVars
<1>1. CASE UNCHANGED vars
  BY <1>1 DEF vars
<1>2. CASE Claim
  BY <1>2 DEF Claim
<1>3. CASE RecoverStale
  BY <1>3 DEF RecoverStale
<1>4. CASE CloseJob
  BY <1>4 DEF CloseJob
<1>5. CASE Resume \/ ObserveCancel \/ SourceDrained \/ CancelWhileDraining \/ StepFailed \/
  CancelBeforeRoute
  BY <1>5 DEF Resume, ObserveCancel, SourceDrained, CancelWhileDraining, StepFailed,
    CancelBeforeRoute, RowsUnchanged
<1>6. CASE Succeed
  BY <1>6 DEF Succeed
<1>7. CASE BeginStep
  BY <1>7, BeginTyped
<1>8. CASE CheckPasses
  BY <1>8 DEF CheckPasses
<1>9. CASE CheckFails \/ RouteConflict \/ CallRefused \/ WaitSatisfied \/ WaitTimesOut
  BY <1>9 DEF CheckFails, RouteConflict, CallRefused, WaitSatisfied, WaitTimesOut
<1>10. CASE DecideRoute \/ DecideStop
  BY <1>10 DEF DecideRoute, DecideStop, Decide
<1>11. CASE ActivateTarget
  BY <1>11 DEF ActivateTarget
<1>12. CASE Commit \/ StartWait
  BY <1>12 DEF Commit, StartWait
<1>13. CASE ActivateSource
  <2>1. pc' \in Phases /\ anomaly' = anomaly
    BY <1>13 DEF ActivateSource
  <2>2. ver' = ver \/ ver' = Bumped
    BY <1>13 DEF ActivateSource
  <2>3. want' \in {want, backVer, ver'}
    BY <1>13 DEF ActivateSource
  <2>4. ver' \in Nat
    BY <2>2, VersionTyped DEF TypeOK
  <2>5. want' \in Nat
    BY <2>3, <2>4
  <2>6. cur' \in Steps \cup {NoStep}
    BY <1>13 DEF ActivateSource
  <2> QED BY <2>1, <2>5, <2>6
<1>14. CASE StartTarget \/ StartProof \/ KeepSource
  BY <1>14 DEF StartTarget, StartProof, KeepSource
<1>15. CASE NothingToStop \/ WantSourceStopped \/ StartSource
  BY <1>15 DEF NothingToStop, WantSourceStopped, StartSource
<1>16. CASE CallSucceeds
  BY <1>16 DEF CallSucceeds
<1>17. CASE Mark
  BY <1>17 DEF Mark
<1>18. CASE RetryableError
  <2>1. pc' \in Phases /\ anomaly' = anomaly
    BY <1>18 DEF RetryableError
  <2>2. cur' \in Steps \cup {NoStep}
    BY <1>18 DEF RetryableError
  <2>3. want' \in {want, 0}
    BY <1>18 DEF RetryableError
  <2>4. want' \in Nat
    <3>1. want' = want \/ want' = 0
      BY <2>3
    <3>2. want \in Nat /\ 0 \in Nat
      BY DEF WorkerType
    <3> QED BY <3>1, <3>2
  <2> QED BY <2>1, <2>2, <2>4
<1>19. CASE StepError \/ UnexpectedError
  BY <1>19 DEF StepError, UnexpectedError
<1>20. CASE Classify \/ Unobservable \/ CleanupFails
  BY <1>20 DEF Classify, Unobservable, CleanupFails
<1>21. CASE StopOwnedTarget
  BY <1>21 DEF StopOwnedTarget
<1>22. CASE End
  BY <1>22 DEF End
<1>23. CASE MarkRollingBack
  BY <1>23 DEF MarkRollingBack
<1>24. CASE EnsureRollback
  BY <1>24 DEF EnsureRollback
<1>25. CASE FinishRollback
  BY <1>25 DEF FinishRollback
<1>26. CASE ReopenCreated
  BY <1>26 DEF ReopenCreated
<1>27. CASE Sweep
  BY <1>27 DEF Sweep, Settle, ReconcileSucceeded, ReconcileRolledBack, ReconcileCancelled,
    ResumeForward, ResumeRollback, CreateRollback, Unresolved
<1>28. CASE Crash
  BY <1>28 DEF Crash
<1>29. CASE RequestCancel \/ OperatorSetsRoute \/ TargetExits
  BY <1>29 DEF RequestCancel, OperatorSetsRoute, RoutedBy, TargetExits
<1>30. CASE StartReload \/ FinishReload \/ Admit \/ Bind \/ Release \/ LateEffect
  BY <1>30 DEF StartReload, FinishReload, Admit, Bind, Release, LateEffect
<1> QED BY <1>1, <1>2, <1>3, <1>4, <1>5, <1>6, <1>7, <1>8, <1>9, <1>10, <1>11, <1>12, <1>13,
  <1>14, <1>15, <1>16, <1>17, <1>18, <1>19, <1>20, <1>21, <1>22, <1>23, <1>24, <1>25, <1>26,
  <1>27, <1>28, <1>29, <1>30 DEF Next, WorkerStep

\* The operation's rows keep theirs.
LEMMA OperationTyped == ASSUME TypeOK, [Next]_vars PROVE OperationType'
<1>0. OperationType /\ ver \in Nat /\ want \in Nat
  BY DEF TypeOK, RowType, WorkerType
<1> USE <1>0 DEF OperationType, OthersUnchanged, StepUnchanged, Forget, At, FailStep, Done,
  Bumped, SkipOpen, ForwardClosed, WithBackSteps, AllPostRouteDone, Reopen, Terminal,
  Ending, Marks, operationVars
<1>1. CASE UNCHANGED vars
  BY <1>1 DEF vars
<1>2. CASE RecoverStale \/ CloseJob
  BY <1>2 DEF RecoverStale, CloseJob
<1>3. CASE Claim
  BY <1>3 DEF Claim
<1>4. CASE Resume \/ ObserveCancel \/ SourceDrained \/ CancelWhileDraining \/ StepFailed \/
  CancelBeforeRoute
  BY <1>4 DEF Resume, ObserveCancel, SourceDrained, CancelWhileDraining, StepFailed,
    CancelBeforeRoute, RowsUnchanged
<1>5. CASE BeginStep \/ Succeed
  BY <1>5 DEF BeginStep, Succeed, Begin
<1>6. CASE CheckPasses
  BY <1>6 DEF CheckPasses
<1>7. CASE CheckFails \/ RouteConflict \/ CallRefused \/ WaitSatisfied \/ WaitTimesOut
  BY <1>7 DEF CheckFails, RouteConflict, CallRefused, WaitSatisfied, WaitTimesOut
<1>8. CASE DecideRoute \/ DecideStop
  BY <1>8 DEF DecideRoute, DecideStop, Decide
<1>9. CASE ActivateTarget
  BY <1>9 DEF ActivateTarget
<1>10. CASE ActivateSource \/ Commit \/ StartWait
  BY <1>10 DEF ActivateSource, Commit, StartWait
<1>11. CASE StartTarget \/ StartProof \/ KeepSource
  BY <1>11 DEF StartTarget, StartProof, KeepSource
<1>12. CASE NothingToStop \/ WantSourceStopped \/ StartSource
  BY <1>12 DEF NothingToStop, WantSourceStopped, StartSource
<1>13. CASE CallSucceeds
  BY <1>13 DEF CallSucceeds
<1>14. CASE Mark
  BY <1>14 DEF Mark
<1>15. CASE RetryableError
  BY <1>15 DEF RetryableError
<1>16. CASE StepError \/ UnexpectedError
  BY <1>16 DEF StepError, UnexpectedError
<1>17. CASE Classify \/ Unobservable \/ CleanupFails
  BY <1>17 DEF Classify, Unobservable, CleanupFails
<1>18. CASE StopOwnedTarget \/ End
  BY <1>18 DEF StopOwnedTarget, End
<1>19. CASE MarkRollingBack \/ EnsureRollback \/ FinishRollback \/ ReopenCreated
  BY <1>19 DEF MarkRollingBack, EnsureRollback, FinishRollback, ReopenCreated
<1>20. CASE Sweep
  BY <1>20 DEF Sweep, Settle, ReconcileSucceeded, ReconcileRolledBack, ReconcileCancelled,
    ResumeForward, ResumeRollback, CreateRollback, Unresolved
<1>21. CASE Crash
  BY <1>21 DEF Crash
<1>22. CASE RequestCancel \/ OperatorSetsRoute \/ TargetExits
  BY <1>22 DEF RequestCancel, OperatorSetsRoute, TargetExits
<1>23. CASE StartReload \/ FinishReload \/ Admit \/ Bind \/ Release \/ LateEffect
  BY <1>23 DEF StartReload, FinishReload, Admit, Bind, Release, LateEffect
<1> QED BY <1>1, <1>2, <1>3, <1>4, <1>5, <1>6, <1>7, <1>8, <1>9, <1>10, <1>11, <1>12, <1>13,
  <1>14, <1>15, <1>16, <1>17, <1>18, <1>19, <1>20, <1>21, <1>22, <1>23 DEF Next, WorkerStep

\* The deployments' rows and containers keep theirs.
LEMMA RowTyped == ASSUME TypeOK, PhaseOK, [Next]_vars PROVE RowType'
<1>0. RowType /\ (cur \in DOMAIN CommandOf => Commanded \in Containers) /\ TargetDown \in Containers
  BY CommandTyped, DownTyped DEF TypeOK
<1> USE <1>0 DEF RowType, OthersUnchanged, StepUnchanged, RowsUnchanged, Deployments,
  Routes, Bumped, Without, SourceDesired, WantedByCall, Calling, PhaseOK, CommandOf,
  routingVars, deployVars, Containers, Commands
<1>1. CASE UNCHANGED vars
  BY <1>1 DEF vars
<1>2. CASE Claim \/ RecoverStale \/ CloseJob
  BY <1>2 DEF Claim, RecoverStale, CloseJob
<1>3. CASE Resume \/ ObserveCancel \/ SourceDrained \/ CancelWhileDraining \/ StepFailed \/
  CancelBeforeRoute
  BY <1>3 DEF Resume, ObserveCancel, SourceDrained, CancelWhileDraining, StepFailed,
    CancelBeforeRoute, RowsUnchanged
<1>4. CASE BeginStep
  BY <1>4 DEF BeginStep
<1>5. CASE Succeed
  BY <1>5 DEF Succeed
<1>6. CASE CheckPasses
  BY <1>6 DEF CheckPasses
<1>7. CASE CheckFails \/ RouteConflict \/ CallRefused \/ WaitSatisfied \/ WaitTimesOut
  BY <1>7 DEF CheckFails, RouteConflict, CallRefused, WaitSatisfied, WaitTimesOut
<1>8. CASE DecideRoute \/ DecideStop
  BY <1>8 DEF DecideRoute, DecideStop, Decide
<1>9. CASE ActivateTarget
  <2>1. route' \in Routes
    BY <1>9 DEF ActivateTarget
  <2>2. ver' \in {ver, ver + 1} /\ UNCHANGED <<shared, rt, hl, desired, cont, late>>
    BY <1>9 DEF ActivateTarget
  <2>3. sourceRow' \in BOOLEAN
    BY <1>9 DEF ActivateTarget
  <2> QED BY <2>1, <2>2, <2>3
<1>10. CASE ActivateSource
  <2>1. route' \in Routes
    BY <1>10 DEF ActivateSource
  <2>2. ver' \in {ver, ver + 1} /\ UNCHANGED <<shared, rt, hl, desired, cont, late>>
    BY <1>10 DEF ActivateSource
  <2>3. sourceRow' \in BOOLEAN
    BY <1>10 DEF ActivateSource
  <2> QED BY <2>1, <2>2, <2>3
<1>11. CASE Commit \/ StartWait
  BY <1>11 DEF Commit, StartWait
<1>12. CASE StartTarget \/ StartProof \/ KeepSource
  BY <1>12 DEF StartTarget, StartProof, KeepSource
<1>13. CASE NothingToStop \/ WantSourceStopped \/ StartSource
  BY <1>13 DEF NothingToStop, WantSourceStopped, StartSource
<1>14. CASE CallSucceeds
  BY <1>14 DEF CallSucceeds
<1>15. CASE Mark
  BY <1>15 DEF Mark
<1>16. CASE RetryableError
  BY <1>16, LossTyped DEF RetryableError
<1>17. CASE UnexpectedError
  BY <1>17 DEF UnexpectedError
<1>18. CASE StepError
  BY <1>18, LossTyped DEF StepError
<1>19. CASE Classify \/ Unobservable \/ CleanupFails
  BY <1>19, LossTyped DEF Classify, Unobservable, CleanupFails
<1>20. CASE StopOwnedTarget \/ End
  BY <1>20 DEF StopOwnedTarget, End
<1>21. CASE MarkRollingBack \/ EnsureRollback \/ FinishRollback \/ ReopenCreated
  BY <1>21 DEF MarkRollingBack, EnsureRollback, FinishRollback, ReopenCreated
<1>22. CASE Sweep
  BY <1>22 DEF Sweep, Settle, ReconcileSucceeded, ReconcileRolledBack, ReconcileCancelled,
    ResumeForward, ResumeRollback, CreateRollback, Unresolved
<1>23. CASE Crash
  BY <1>23, LossTyped DEF Crash
<1>24. CASE RequestCancel
  BY <1>24 DEF RequestCancel
<1>25. CASE OperatorSetsRoute
  <2>1. route' \in Routes
    BY <1>25 DEF OperatorSetsRoute
  <2>2. shared' \in BOOLEAN
    BY <1>25 DEF OperatorSetsRoute
  <2>3. ver' = ver + 1 /\ UNCHANGED <<rt, hl, desired, cont, late>>
    BY <1>25 DEF OperatorSetsRoute
  <2>4. sourceRow' \in BOOLEAN
    BY <1>25 DEF OperatorSetsRoute
  <2> QED BY <2>1, <2>2, <2>3, <2>4
<1>26. CASE TargetExits
  BY <1>26 DEF TargetExits
<1>27. CASE StartReload \/ FinishReload \/ Admit \/ Bind \/ Release
  BY <1>27 DEF StartReload, FinishReload, Admit, Bind, Release
<1>28. CASE LateEffect
  BY <1>28, LateTyped DEF LateEffect
<1> QED BY <1>1, <1>2, <1>3, <1>4, <1>5, <1>6, <1>7, <1>8, <1>9, <1>10, <1>11, <1>12, <1>13,
  <1>14, <1>15, <1>16, <1>17, <1>18, <1>19, <1>20, <1>21, <1>22, <1>23, <1>24, <1>25, <1>26, <1>27,
  <1>28 DEF Next, WorkerStep

\* The gateway's counters and snapshot keep theirs.
LEMMA GatewayTyped == ASSUME TypeOK, [Next]_vars PROVE GatewayType'
<1>0. GatewayType /\ route \in Routes /\ ver \in Nat /\ shared \in BOOLEAN
  BY DEF TypeOK, RowType
<1> USE <1>0 DEF GatewayType, Snapshot, OthersUnchanged, Deployments, gatewayVars
<1>1. CASE UNCHANGED vars
  BY <1>1 DEF vars
<1>2. CASE Claim \/ RecoverStale \/ CloseJob
  BY <1>2 DEF Claim, RecoverStale, CloseJob
<1>3. CASE Resume \/ ObserveCancel \/ SourceDrained \/ CancelWhileDraining \/ StepFailed \/
  CancelBeforeRoute
  BY <1>3 DEF Resume, ObserveCancel, SourceDrained, CancelWhileDraining, StepFailed,
    CancelBeforeRoute, RowsUnchanged
<1>4. CASE BeginStep \/ Succeed
  BY <1>4 DEF BeginStep, Succeed, Begin
<1>5. CASE CheckPasses
  BY <1>5 DEF CheckPasses
<1>6. CASE CheckFails \/ RouteConflict \/ CallRefused \/ WaitSatisfied \/ WaitTimesOut
  BY <1>6 DEF CheckFails, RouteConflict, CallRefused, WaitSatisfied, WaitTimesOut
<1>7. CASE DecideRoute \/ DecideStop
  BY <1>7 DEF DecideRoute, DecideStop, Decide
<1>8. CASE ActivateTarget
  BY <1>8 DEF ActivateTarget
<1>9. CASE ActivateSource \/ Commit \/ StartWait
  BY <1>9 DEF ActivateSource, Commit, StartWait
<1>10. CASE StartTarget \/ StartProof \/ KeepSource
  BY <1>10 DEF StartTarget, StartProof, KeepSource
<1>11. CASE NothingToStop \/ WantSourceStopped \/ StartSource
  BY <1>11 DEF NothingToStop, WantSourceStopped, StartSource
<1>12. CASE CallSucceeds
  BY <1>12 DEF CallSucceeds
<1>13. CASE Mark
  BY <1>13 DEF Mark
<1>14. CASE RetryableError
  BY <1>14 DEF RetryableError
<1>15. CASE StepError \/ UnexpectedError
  BY <1>15 DEF StepError, UnexpectedError
<1>16. CASE Classify \/ Unobservable \/ CleanupFails
  BY <1>16 DEF Classify, Unobservable, CleanupFails
<1>17. CASE StopOwnedTarget \/ End
  BY <1>17 DEF StopOwnedTarget, End
<1>18. CASE MarkRollingBack \/ EnsureRollback \/ FinishRollback \/ ReopenCreated
  BY <1>18 DEF MarkRollingBack, EnsureRollback, FinishRollback, ReopenCreated
<1>19. CASE Sweep
  BY <1>19 DEF Sweep, Settle, ReconcileSucceeded, ReconcileRolledBack, ReconcileCancelled,
    ResumeForward, ResumeRollback, CreateRollback, Unresolved
<1>20. CASE Crash
  BY <1>20 DEF Crash
<1>21. CASE RequestCancel \/ OperatorSetsRoute \/ TargetExits
  BY <1>21 DEF RequestCancel, OperatorSetsRoute, TargetExits
<1>22. CASE StartReload \/ FinishReload \/ Admit \/ Bind \/ Release
  BY <1>22 DEF StartReload, FinishReload, Admit, Bind, Release
<1>23. CASE LateEffect
  <2>1. UNCHANGED gatewayVars
    BY <1>23 DEF LateEffect
  <2> QED BY <2>1
<1> QED BY <1>1, <1>2, <1>3, <1>4, <1>5, <1>6, <1>7, <1>8, <1>9, <1>10, <1>11, <1>12, <1>13,
  <1>14, <1>15, <1>16, <1>17, <1>18, <1>19, <1>20, <1>21, <1>22, <1>23 DEF Next, WorkerStep

\* A phase that acts on a step has a step it can act on.
LEMMA PhasesKept == ASSUME PhaseOK, [Next]_vars PROVE PhaseOK'
<1>0. PhaseOK
  BY DEF PhaseOK
<1> USE <1>0 DEF PhaseOK, OthersUnchanged, RowsUnchanged, Forget, At, FailStep,
  AfterFailure, AfterCancel, Onward, Cleanup, Inspecting, CommandOf, workerVars
<1>1. CASE UNCHANGED vars
  BY <1>1 DEF vars
<1>2. CASE Claim \/ RecoverStale \/ CloseJob
  BY <1>2 DEF Claim, RecoverStale, CloseJob
<1>3. CASE Resume \/ ObserveCancel \/ SourceDrained \/ CancelWhileDraining \/ StepFailed \/
  CancelBeforeRoute
  BY <1>3 DEF Resume, ObserveCancel, SourceDrained, CancelWhileDraining, StepFailed,
    CancelBeforeRoute, RowsUnchanged
<1>4. CASE BeginStep \/ Succeed
  BY <1>4 DEF BeginStep, Succeed, Begin
<1>5. CASE CheckPasses
  BY <1>5 DEF CheckPasses
<1>6. CASE CheckFails \/ RouteConflict \/ CallRefused \/ WaitSatisfied \/ WaitTimesOut
  BY <1>6 DEF CheckFails, RouteConflict, CallRefused, WaitSatisfied, WaitTimesOut
<1>7. CASE DecideRoute \/ DecideStop
  BY <1>7 DEF DecideRoute, DecideStop, Decide
<1>8. CASE ActivateTarget
  BY <1>8 DEF ActivateTarget
<1>9. CASE ActivateSource \/ Commit \/ StartWait
  BY <1>9 DEF ActivateSource, Commit, StartWait
<1>10. CASE StartProof \/ KeepSource
  BY <1>10 DEF StartProof, KeepSource
<1>11. CASE StartTarget
  BY <1>11 DEF StartTarget
<1>12. CASE NothingToStop
  BY <1>12 DEF NothingToStop
<1>13. CASE WantSourceStopped
  BY <1>13 DEF WantSourceStopped
<1>14. CASE StartSource
  BY <1>14 DEF StartSource
<1>15. CASE CallSucceeds
  BY <1>15 DEF CallSucceeds
<1>16. CASE Mark
  BY <1>16 DEF Mark
<1>17. CASE RetryableError
  BY <1>17 DEF RetryableError
<1>18. CASE StepError \/ UnexpectedError
  BY <1>18 DEF StepError, UnexpectedError
<1>19. CASE Classify \/ Unobservable \/ CleanupFails
  BY <1>19 DEF Classify, Unobservable, CleanupFails
<1>20. CASE StopOwnedTarget \/ End
  BY <1>20 DEF StopOwnedTarget, End
<1>21. CASE MarkRollingBack \/ EnsureRollback \/ FinishRollback \/ ReopenCreated
  BY <1>21 DEF MarkRollingBack, EnsureRollback, FinishRollback, ReopenCreated
<1>22. CASE Sweep
  BY <1>22 DEF Sweep, Settle, ReconcileSucceeded, ReconcileRolledBack, ReconcileCancelled,
    ResumeForward, ResumeRollback, CreateRollback, Unresolved
<1>23. CASE Crash
  BY <1>23 DEF Crash
<1>24. CASE RequestCancel \/ OperatorSetsRoute \/ TargetExits
  BY <1>24 DEF RequestCancel, OperatorSetsRoute, TargetExits
<1>25. CASE StartReload \/ FinishReload \/ Admit \/ Bind \/ Release \/ LateEffect
  BY <1>25 DEF StartReload, FinishReload, Admit, Bind, Release, LateEffect
<1> QED BY <1>1, <1>2, <1>3, <1>4, <1>5, <1>6, <1>7, <1>8, <1>9, <1>10, <1>11, <1>12, <1>13,
  <1>14, <1>15, <1>16, <1>17, <1>18, <1>19, <1>20, <1>21, <1>22, <1>23, <1>24, <1>25 DEF
  Next, WorkerStep

-----------------------------------------------------------------------------
(* The types.                                                              *)

\* The typing holds at the start.
LEMMA TypesAtStart == Init => TypeInv
<1> SUFFICES ASSUME Init PROVE TypeInv
  OBVIOUS
<1>1. OperationType
  BY DEF Init, OperationType, Terminal, Marks
<1>2. RowType
  BY DEF Init, RowType, Routes, Deployments
<1>3. GatewayType
  BY DEF Init, GatewayType, Snapshot, Routes, Deployments
<1>4. WorkerType /\ BoundType /\ PhaseOK
  BY DEF Init, WorkerType, BoundType, PhaseOK, Phases
<1> QED BY <1>1, <1>2, <1>3, <1>4 DEF TypeInv, TypeOK

\* Every step preserves it.
LEMMA TypesKept == TypeInv /\ [Next]_vars => TypeInv'
BY OperationTyped, RowTyped, GatewayTyped, WorkerTyped, BoundTyped, PhasesKept
   DEF TypeInv, TypeOK

\* So it holds in every state a run reaches.
LEMMA TypesHold == Spec => []TypeInv
BY TypesAtStart, TypesKept, PTL DEF Spec

\* Every row, container, snapshot and counter holds a value of its kind, and the worker
\* is always in a phase that the step it works at has.
THEOREM Typing == Spec => []TypeOK
<1>1. TypeInv => TypeOK
  BY DEF TypeInv
<1> QED BY <1>1, TypesHold, PTL

-----------------------------------------------------------------------------
(* What a cancellation protects.                                           *)

Boundaries == {"routeBoundary", "stopBoundary"}

\* No step but the two decisions crosses a boundary: not an error, a retry, a crash, a
\* reconciliation nor an operator.
LEMMA OnlyDecisionsCross ==
  ASSUME [Next]_vars, ~DecideRoute, ~DecideStop
  PROVE  marks' \cap Boundaries \subseteq marks
<1> USE DEF Boundaries, operationVars, RowsUnchanged
<1>1. CASE UNCHANGED vars
  BY <1>1 DEF vars
<1>2. CASE Claim \/ RecoverStale \/ CloseJob
  BY <1>2 DEF Claim, RecoverStale, CloseJob
<1>3. CASE Resume \/ ObserveCancel \/ SourceDrained \/ CancelWhileDraining \/ StepFailed \/
  CancelBeforeRoute
  BY <1>3 DEF Resume, ObserveCancel, SourceDrained, CancelWhileDraining, StepFailed,
    CancelBeforeRoute
<1>4. CASE BeginStep \/ Succeed
  BY <1>4 DEF BeginStep, Succeed, Begin
<1>5. CASE CheckPasses
  BY <1>5 DEF CheckPasses
<1>6. CASE CheckFails \/ RouteConflict \/ CallRefused \/ WaitSatisfied \/ WaitTimesOut
  BY <1>6 DEF CheckFails, RouteConflict, CallRefused, WaitSatisfied, WaitTimesOut
<1>7. CASE ActivateTarget
  BY <1>7 DEF ActivateTarget
<1>8. CASE ActivateSource \/ Commit \/ StartWait
  BY <1>8 DEF ActivateSource, Commit, StartWait
<1>9. CASE StartTarget \/ StartProof \/ KeepSource
  BY <1>9 DEF StartTarget, StartProof, KeepSource
<1>10. CASE NothingToStop \/ WantSourceStopped \/ StartSource
  BY <1>10 DEF NothingToStop, WantSourceStopped, StartSource
<1>11. CASE CallSucceeds
  BY <1>11 DEF CallSucceeds
<1>12. CASE Mark
  BY <1>12 DEF Mark
<1>13. CASE RetryableError
  BY <1>13 DEF RetryableError
<1>14. CASE StepError \/ UnexpectedError
  BY <1>14 DEF StepError, UnexpectedError
<1>15. CASE Classify \/ Unobservable \/ CleanupFails
  BY <1>15 DEF Classify, Unobservable, CleanupFails
<1>16. CASE StopOwnedTarget \/ End
  BY <1>16 DEF StopOwnedTarget, End
<1>17. CASE MarkRollingBack \/ EnsureRollback \/ FinishRollback \/ ReopenCreated
  BY <1>17 DEF MarkRollingBack, EnsureRollback, FinishRollback, ReopenCreated
<1>18. CASE Sweep
  BY <1>18 DEF Sweep, Settle, ReconcileSucceeded, ReconcileRolledBack, ReconcileCancelled,
    ResumeForward, ResumeRollback, CreateRollback, Unresolved
<1>19. CASE Crash
  BY <1>19 DEF Crash
<1>20. CASE RequestCancel \/ OperatorSetsRoute \/ TargetExits
  BY <1>20 DEF RequestCancel, OperatorSetsRoute, TargetExits
<1>21. CASE StartReload \/ FinishReload \/ Admit \/ Bind \/ Release \/ LateEffect
  BY <1>21 DEF StartReload, FinishReload, Admit, Bind, Release, LateEffect
<1> QED BY <1>1, <1>2, <1>3, <1>4, <1>5, <1>6, <1>7, <1>8, <1>9, <1>10, <1>11, <1>12, <1>13,
  <1>14, <1>15, <1>16, <1>17, <1>18, <1>19, <1>20, <1>21 DEF Next, WorkerStep

\* A cancellation recorded before the route is moved, or before Source is stopped, keeps
\* the operation from doing it (decide_hot_route_boundary, decide_destructive_boundary):
\* both look for it under the row lock under which they set their mark.
THEOREM CancelWins == Spec => CancelBeatsBoundaries
<1>1. ASSUME [Next]_vars, cancel
      PROVE  marks' \cap Boundaries \subseteq marks
  <2>1. CASE DecideRoute \/ DecideStop
    BY <1>1, <2>1 DEF DecideRoute, DecideStop, Decide, CancelObserved
  <2>2. CASE ~DecideRoute /\ ~DecideStop
    BY <1>1, <2>2, OnlyDecisionsCross
  <2> QED BY <2>1, <2>2
<1> QED BY <1>1, PTL DEF Spec, CancelBeatsBoundaries, Boundaries

-----------------------------------------------------------------------------
(* What moves beside the worker, and what only grows.                      *)

\* The gateway, the node, the operator's routes, commands that come late: what moves beside
\* the worker.
Environment == OperatorSetsRoute \/ TargetExits \/ LateEffect \/ StartReload \/ FinishReload
                 \/ Admit \/ Bind \/ Release

\* What moves beside the worker writes neither the operation's rows nor the worker's state.
LEMMA EnvironmentWaits == Environment => UNCHANGED <<operationVars, workerVars>>
BY DEF Environment, LateEffect, OperatorSetsRoute, TargetExits, StartReload, FinishReload,
  Admit, Bind, Release

\* Marks and requests to cancel are never taken back, and a clean history was clean before.
LEMMA MemoryGrows ==
  ASSUME [Next]_vars
  PROVE  /\ cancel => cancel'
         /\ marks \subseteq marks'
         /\ OnTime' => OnTime
<1> USE DEF OnTime, OthersUnchanged, RowsUnchanged, operationVars
<1>1. CASE UNCHANGED vars
  BY <1>1 DEF vars
<1>2. CASE Environment
  <2>1. anomaly \subseteq anomaly'
    BY <1>2 DEF Environment, LateEffect, OperatorSetsRoute, RoutedBy, TargetExits, StartReload,
      FinishReload, Admit, Bind, Release
  <2> QED BY <1>2, <2>1, EnvironmentWaits
<1>3. CASE Claim \/ RecoverStale \/ CloseJob
  BY <1>3 DEF Claim, RecoverStale, CloseJob
<1>4. CASE Resume \/ ObserveCancel \/ SourceDrained \/ CancelWhileDraining \/ StepFailed \/
  CancelBeforeRoute
  BY <1>4 DEF Resume, ObserveCancel, SourceDrained, CancelWhileDraining, StepFailed,
    CancelBeforeRoute
<1>5. CASE BeginStep \/ Succeed \/ FinishRollback
  <2>1. anomaly \subseteq anomaly'
    BY <1>5 DEF BeginStep, Succeed, FinishRollback, Begin
  <2>2. UNCHANGED <<cancel, marks>>
    BY <1>5 DEF BeginStep, Succeed, FinishRollback
  <2> QED BY <2>1, <2>2
<1>6. CASE CheckPasses
  BY <1>6 DEF CheckPasses
<1>7. CASE CheckFails \/ RouteConflict \/ CallRefused \/ WaitSatisfied \/ WaitTimesOut
  BY <1>7 DEF CheckFails, RouteConflict, CallRefused, WaitSatisfied, WaitTimesOut
<1>8. CASE DecideRoute \/ DecideStop
  BY <1>8 DEF DecideRoute, DecideStop, Decide
<1>9. CASE ActivateTarget \/ ActivateSource \/ Commit \/ StartWait
  BY <1>9 DEF ActivateTarget, ActivateSource, Commit, StartWait
<1>10. CASE StartTarget \/ StartProof \/ KeepSource
  BY <1>10 DEF StartTarget, StartProof, KeepSource
<1>11. CASE NothingToStop \/ WantSourceStopped \/ StartSource
  BY <1>11 DEF NothingToStop, WantSourceStopped, StartSource
<1>12. CASE CallSucceeds \/ Mark
  BY <1>12 DEF CallSucceeds, Mark
<1>13. CASE RetryableError \/ StepError \/ UnexpectedError
  BY <1>13 DEF RetryableError, StepError, UnexpectedError
<1>14. CASE Classify \/ Unobservable \/ CleanupFails
  BY <1>14 DEF Classify, Unobservable, CleanupFails
<1>15. CASE StopOwnedTarget \/ End
  BY <1>15 DEF StopOwnedTarget, End
<1>16. CASE MarkRollingBack \/ EnsureRollback \/ ReopenCreated
  BY <1>16 DEF MarkRollingBack, EnsureRollback, ReopenCreated, StepUnchanged
<1>17. CASE Sweep
  BY <1>17 DEF Sweep, ReconcileSucceeded, ReconcileRolledBack, ReconcileCancelled,
    ResumeForward, ResumeRollback, CreateRollback, Unresolved
<1>18. CASE Crash
  BY <1>18 DEF Crash
<1>19. CASE RequestCancel
  BY <1>19 DEF RequestCancel
<1> QED BY <1>1, <1>2, <1>3, <1>4, <1>5, <1>6, <1>7, <1>8, <1>9, <1>10, <1>11, <1>12, <1>13,
  <1>14, <1>15, <1>16, <1>17, <1>18, <1>19 DEF Next, WorkerStep, Environment

\* A command comes late only if its answer was lost.
LEMMA WhoIsLate ==
  ASSUME [Next]_vars, NEW c \in late', c \notin late
  PROVE  LosesAnswer /\ c \in UnderWay
<1> USE DEF OthersUnchanged, LosesAnswer
<1>1. CASE UNCHANGED vars
  BY <1>1 DEF vars
<1>2. CASE Claim \/ RecoverStale \/ CloseJob
  BY <1>2 DEF Claim, RecoverStale, CloseJob
<1>3. CASE Resume \/ ObserveCancel \/ SourceDrained \/ CancelWhileDraining \/ StepFailed \/
  CancelBeforeRoute
  BY <1>3 DEF Resume, ObserveCancel, SourceDrained, CancelWhileDraining, StepFailed,
    CancelBeforeRoute
<1>4. CASE BeginStep \/ Succeed
  BY <1>4 DEF BeginStep, Succeed
<1>5. CASE CheckPasses
  BY <1>5 DEF CheckPasses
<1>6. CASE CheckFails \/ RouteConflict \/ CallRefused \/ WaitSatisfied \/ WaitTimesOut
  BY <1>6 DEF CheckFails, RouteConflict, CallRefused, WaitSatisfied, WaitTimesOut
<1>7. CASE DecideRoute \/ DecideStop
  BY <1>7 DEF DecideRoute, DecideStop, Decide
<1>8. CASE ActivateTarget
  BY <1>8 DEF ActivateTarget
<1>9. CASE ActivateSource \/ Commit \/ StartWait
  BY <1>9 DEF ActivateSource, Commit, StartWait
<1>10. CASE StartTarget \/ StartProof \/ KeepSource
  BY <1>10 DEF StartTarget, StartProof, KeepSource
<1>11. CASE NothingToStop \/ WantSourceStopped \/ StartSource
  BY <1>11 DEF NothingToStop, WantSourceStopped, StartSource
<1>12. CASE CallSucceeds \/ Mark
  BY <1>12 DEF CallSucceeds, Mark
<1>13. CASE RetryableError \/ StepError
  BY <1>13 DEF RetryableError, StepError
<1>14. CASE UnexpectedError
  BY <1>14 DEF UnexpectedError
<1>15. CASE Classify \/ Unobservable
  BY <1>15 DEF Classify, Unobservable
<1>16. CASE CleanupFails \/ Crash
  BY <1>16 DEF CleanupFails, Crash
<1>17. CASE StopOwnedTarget \/ End
  BY <1>17 DEF StopOwnedTarget, End
<1>18. CASE MarkRollingBack \/ EnsureRollback \/ FinishRollback \/ ReopenCreated
  BY <1>18 DEF MarkRollingBack, EnsureRollback, FinishRollback, ReopenCreated
<1>19. CASE Sweep
  BY <1>19 DEF Sweep, ReconcileSucceeded, ReconcileRolledBack, ReconcileCancelled,
    ResumeForward, ResumeRollback, CreateRollback, Unresolved
<1>20. CASE RequestCancel \/ OperatorSetsRoute \/ TargetExits
  BY <1>20 DEF RequestCancel, OperatorSetsRoute, TargetExits
<1>21. CASE StartReload \/ FinishReload \/ Admit \/ Bind \/ Release \/ LateEffect
  BY <1>21 DEF StartReload, FinishReload, Admit, Bind, Release, LateEffect
<1> QED BY <1>1, <1>2, <1>3, <1>4, <1>5, <1>6, <1>7, <1>8, <1>9, <1>10, <1>11, <1>12, <1>13,
  <1>14, <1>15, <1>16, <1>17, <1>18, <1>19, <1>20, <1>21 DEF Next, WorkerStep

-----------------------------------------------------------------------------
(* Who moves containers.                                                   *)

\* A lost answer moves a container by the command it belongs to.
LEMMA LossMoves ==
  ASSUME LosesAnswer, cont' # cont
  PROVE  \/ pc = "call" /\ cont' = Commanded
         \/ pc \in DOMAIN Cleanup /\ "owned" \in marks /\ cont' = TargetDown
<1>1. PICK c \in UnderWay : cont' = Effect(c)
  BY DEF LosesAnswer
<1>2. CASE pc = "call" /\ c = CommandOf[cur]
  BY <1>1, <1>2 DEF Commanded
<1>3. CASE pc \in DOMAIN Cleanup /\ TargetOwned /\ c = StopTarget
  BY <1>1, <1>3 DEF TargetDown, TargetOwned
<1> QED BY <1>1, <1>2, <1>3 DEF UnderWay

ContainerMoved ==
  \/ pc = "call" /\ cur \in DOMAIN CommandOf /\ cont' = Commanded
  \/ pc \in DOMAIN Cleanup /\ "owned" \in marks /\ cont' = TargetDown
     /\ (pc' = Cleanup[pc] \/ Crash)
  \/ LateEffect
  \/ TargetExits
  \/ cont["target"] = "absent" /\ cont' = [cont EXCEPT !["target"] = "stopped"]

\* A container changes by a command of its step, by a cleanup, in time or late, or on its own.
LEMMA WhoMovesContainers == ASSUME TypeInv, [Next]_vars, cont' # cont PROVE ContainerMoved
<1>0. PhaseOK
  BY DEF TypeInv
<1> USE <1>0 DEF RowsUnchanged
<1>1. CASE UNCHANGED vars
  BY <1>1 DEF vars
<1>2. CASE Environment
  BY <1>2 DEF Environment, LateEffect, OperatorSetsRoute, StartReload, FinishReload, Admit,
    Bind, Release, ContainerMoved
<1>3. CASE Claim \/ RecoverStale \/ CloseJob
  BY <1>3 DEF Claim, RecoverStale, CloseJob
<1>4. CASE Resume \/ ObserveCancel \/ SourceDrained \/ CancelWhileDraining \/ StepFailed \/
  CancelBeforeRoute
  BY <1>4 DEF Resume, ObserveCancel, SourceDrained, CancelWhileDraining, StepFailed,
    CancelBeforeRoute
<1>5. CASE BeginStep \/ Succeed
  BY <1>5 DEF BeginStep, Succeed
<1>6. CASE CheckPasses
  BY <1>6 DEF CheckPasses, ContainerMoved
<1>7. CASE CheckFails \/ RouteConflict \/ CallRefused \/ WaitSatisfied \/ WaitTimesOut
  BY <1>7 DEF CheckFails, RouteConflict, CallRefused, WaitSatisfied, WaitTimesOut
<1>8. CASE DecideRoute \/ DecideStop
  BY <1>8 DEF DecideRoute, DecideStop, Decide
<1>9. CASE ActivateTarget \/ ActivateSource \/ Commit \/ StartWait
  BY <1>9 DEF ActivateTarget, ActivateSource, Commit, StartWait
<1>10. CASE StartTarget \/ StartProof \/ KeepSource
  BY <1>10 DEF StartTarget, StartProof, KeepSource
<1>11. CASE NothingToStop \/ WantSourceStopped \/ StartSource
  BY <1>11 DEF NothingToStop, WantSourceStopped, StartSource
<1>12. CASE CallSucceeds
  BY <1>12 DEF CallSucceeds, ContainerMoved, PhaseOK
<1>13. CASE Mark
  BY <1>13 DEF Mark
<1>14. CASE RetryableError \/ StepError
  <2>1. pc = "call" /\ cont' = Commanded
    BY <1>14, LossMoves DEF RetryableError, StepError, Calling, Cleanup
  <2> QED BY <2>1 DEF PhaseOK, ContainerMoved
<1>15. CASE UnexpectedError
  BY <1>15 DEF UnexpectedError
<1>16. CASE Classify \/ Unobservable
  BY <1>16 DEF Classify, Unobservable
<1>17. CASE CleanupFails \/ StopOwnedTarget
  BY <1>17, LossMoves DEF CleanupFails, StopOwnedTarget, TargetOwned, ContainerMoved, At,
    Cleanup
<1>18. CASE End
  BY <1>18 DEF End
<1>19. CASE MarkRollingBack \/ EnsureRollback \/ FinishRollback \/ ReopenCreated
  BY <1>19 DEF MarkRollingBack, EnsureRollback, FinishRollback, ReopenCreated
<1>20. CASE Sweep
  BY <1>20 DEF Sweep, ReconcileSucceeded, ReconcileRolledBack, ReconcileCancelled, ResumeForward,
    ResumeRollback, CreateRollback, Unresolved
<1>21. CASE Crash
  <2>1. \/ pc = "call" /\ cont' = Commanded
        \/ pc \in DOMAIN Cleanup /\ "owned" \in marks /\ cont' = TargetDown
    BY <1>21, LossMoves DEF Crash
  <2> QED BY <1>21, <2>1 DEF PhaseOK, ContainerMoved
<1>22. CASE RequestCancel
  BY <1>22 DEF RequestCancel
<1> QED BY <1>1, <1>2, <1>3, <1>4, <1>5, <1>6, <1>7, <1>8, <1>9, <1>10, <1>11, <1>12, <1>13,
  <1>14, <1>15, <1>16, <1>17, <1>18, <1>19, <1>20, <1>21, <1>22 DEF Next, WorkerStep, Environment

\* A stop that comes late is remembered, and stops what it was ordered to stop.
LateStop(d) == LateEffect /\ [dep |-> d, to |-> "stopped"] \in late /\ ~OnTime'

LEMMA LateStops ==
  ASSUME RowType, LateEffect, NEW d \in Deployments, Runs(d), ~Runs(d)'
  PROVE  LateStop(d)
<1>1. PICK c \in late : /\ cont' = Effect(c)
                        /\ anomaly' = IF c.to = "stopped" /\ cont' # cont
                                        THEN anomaly \cup {"late stop"} ELSE anomaly
  BY DEF LateEffect
<1>2. c \in Commands /\ cont \in Containers
  BY DEF RowType, Commands, Containers
<1>3. c.dep = d /\ c.to = "stopped" /\ cont' # cont
  BY <1>1, <1>2 DEF Effect, Runs, Commands, Containers
<1>4. c = [dep |-> d, to |-> "stopped"]
  BY <1>2, <1>3 DEF Commands
<1> QED BY <1>1, <1>3, <1>4 DEF LateStop, OnTime

\* Source goes down by STOP_SOURCE's call, Target by a cleanup or by itself.
LEMMA SourceStops ==
  ASSUME TypeInv, [Next]_vars, Runs("source"), ~Runs("source")'
  PROVE  (pc = "call" /\ cur = "STOP_SOURCE") \/ LateStop("source")
<1>1. cont \in Containers /\ RowType /\ "source" \in Deployments
  BY DEF TypeInv, TypeOK, RowType, Containers, Deployments
<1>2. ContainerMoved
  BY WhoMovesContainers DEF Runs
<1>3. CASE pc = "call" /\ cur \in DOMAIN CommandOf /\ cont' = Commanded
  BY <1>1, <1>3 DEF Commanded, CommandOf, Effect, Runs, Containers, Deployments
<1>4. CASE cont' = TargetDown
  BY <1>1, <1>4 DEF TargetDown, Effect, StopTarget, Runs, Containers, Deployments
<1>5. CASE cont' = [cont EXCEPT !["target"] = "stopped"]
  BY <1>1, <1>5 DEF Runs, Containers, Deployments
<1>6. CASE LateEffect
  BY <1>1, <1>6, LateStops
<1> QED BY <1>2, <1>3, <1>4, <1>5, <1>6 DEF ContainerMoved, TargetExits

\* The ways Target goes down.
LEMMA TargetStops ==
  ASSUME TypeInv, [Next]_vars, Runs("target"), ~Runs("target")'
  PROVE  \/ TargetExits
         \/ pc \in DOMAIN Cleanup /\ "owned" \in marks /\ (pc' = Cleanup[pc] \/ Crash)
         \/ LateStop("target")
<1>1. RowType /\ "target" \in Deployments
  BY DEF TypeInv, TypeOK, Deployments
<1>2. ContainerMoved
  BY WhoMovesContainers DEF Runs
<1>3. CASE pc = "call" /\ cur \in DOMAIN CommandOf /\ cont' = Commanded
  BY <1>1, <1>3, CommandsSpareTarget DEF Runs
<1>4. CASE LateEffect
  BY <1>1, <1>4, LateStops
<1> QED BY <1>2, <1>3, <1>4 DEF ContainerMoved, Runs

-----------------------------------------------------------------------------
(* What a Target that is not the operation's own is protected from.        *)

\* A stop of Target that comes late was ordered by a cleanup of a Target of the operation's.
LateOwned == StopTarget \in late => "owned" \in marks

\* Every step keeps it: marks are never taken back.
LEMMA LateOwnedKept == ASSUME PhaseOK, LateOwned, [Next]_vars PROVE LateOwned'
<1> SUFFICES ASSUME StopTarget \in late' PROVE "owned" \in marks'
  BY DEF LateOwned, StopTarget
<1>1. CASE StopTarget \in late
  BY <1>1, MemoryGrows DEF LateOwned
<1>2. CASE StopTarget \notin late
  <2>1. StopTarget \in UnderWay
    BY <1>2, WhoIsLate
  <2>2. pc = "call" => CommandOf[cur] # StopTarget
    BY DEF PhaseOK, CommandOf, StopTarget
  <2> QED BY <2>1, <2>2, MemoryGrows DEF UnderWay, TargetOwned
<1> QED BY <1>1, <1>2

\* So it was in every state a run reaches.
LEMMA LateOnesOwned == Spec => []LateOwned
<1>1. Init => LateOwned
  BY DEF Init, LateOwned
<1>2. TypeInv /\ LateOwned /\ [Next]_vars => LateOwned'
  BY LateOwnedKept DEF TypeInv
<1> QED BY <1>1, <1>2, TypesHold, PTL DEF Spec

\* A Target that was running before this operation started it is stopped by no cleanup
\* and by no reconciliation (_best_effort_stop_target_if_started and
\* _maybe_cleanup_owned_target ask for the operation's ownership), in time or late: it may
\* serve somebody.
THEOREM RetainedTarget == Spec => RetainedTargetKept
<1>1. ASSUME TypeInv, LateOwned, [Next]_vars, Runs("target"), ~Runs("target")'
      PROVE  "owned" \in marks \/ TargetExits
  BY <1>1, TargetStops DEF LateOwned, LateStop, StopTarget
<1> QED BY <1>1, TypesHold, LateOnesOwned, PTL DEF Spec, RetainedTargetKept

-----------------------------------------------------------------------------
(****************** phases, directions and the worker **********************)

\* The phases in which the worker is at a step, by direction.
BodyPhases == {"body", "route", "wait", "drain", "proof", "decide", "desire", "call", "mark",
               "commit"}
InForward == pc = "next" \/ (pc \in BodyPhases /\ cur \in ForwardSteps)
InBack    == pc = "backnext" \/ (pc \in BodyPhases /\ cur \in BackSteps)
Endings   == {"failed", "classify", "failcleanup", "fail", "cancel", "cancelcleanup",
              "cancelend", "rollback"}

\* A phase is one of its step's ...
PhaseCur ==
  /\ pc \in BodyPhases \cup {"failed"} => cur \in Steps
  /\ pc = "route" => cur = "ACTIVATE_TARGET_ROUTE"
  /\ pc = "wait" => cur \in DOMAIN WaitsFor
  /\ pc = "drain" => cur = "WAIT_SOURCE_DRAIN"
  /\ pc = "failed" => cur \in ForwardSteps
  /\ pc = "commit" => cur \in {"ACTIVATE_TARGET_ROUTE", "HOT_ROLLBACK_ACTIVATE_SOURCE_ROUTE",
                               "WAIT_SOURCE_DRAIN", "STOP_SOURCE", "HOT_ROLLBACK_START_SOURCE"}
\* ... and belongs to a direction, which the operation's status tells.
PhaseStatus ==
  /\ (pc \in Endings \/ InForward) => status = "RUNNING"
  /\ (pc = "block" \/ InBack) => status = "ROLLING_BACK"
  /\ pc = "manual" => status \in {"RUNNING", "ROLLING_BACK"}
  /\ pc \in {"reopen", "sweepcleanup", "sweepend"} => status = "MANUAL_INTERVENTION_REQUIRED"
  /\ pc = "entry" => status # "QUEUED"
  /\ pc = "jobdone" => status = "SUCCEEDED"
  /\ status = "QUEUED" => pc = "idle"
PhaseInv == TypeInv /\ PhaseCur /\ PhaseStatus

-----------------------------------------------------------------------------
(* The phases.                                                             *)

\* The two directions have no step in common, and no other step exists.
LEMMA StepNames == ForwardSteps \cap BackSteps = {} /\ ForwardSteps \cup BackSteps = Steps
BY DEF ForwardSteps, BackSteps, Forward, Back, Steps

\* Every step leaves the worker in a phase that the step it works at has.
LEMMA PhaseCurKept == ASSUME TypeInv, PhaseCur, [Next]_vars PROVE PhaseCur'
<1>0. PhaseCur /\ PhaseOK
  BY DEF TypeInv
<1> USE <1>0 DEF PhaseCur, PhaseOK, BodyPhases, OthersUnchanged, Forget, At, FailStep,
  AfterFailure, AfterCancel, Onward
<1>1. CASE UNCHANGED vars
  BY <1>1 DEF vars, workerVars
<1>2. CASE Environment
  BY <1>2, EnvironmentWaits DEF workerVars
<1>3. CASE Claim \/ RecoverStale \/ CloseJob
  BY <1>3 DEF Claim, RecoverStale, CloseJob, workerVars
<1>4. CASE Resume \/ ObserveCancel \/ SourceDrained \/ CancelWhileDraining
  BY <1>4 DEF Resume, ObserveCancel, SourceDrained, CancelWhileDraining
<1>5. CASE StepFailed \/ CancelBeforeRoute
  BY <1>5 DEF StepFailed, CancelBeforeRoute
<1>6. CASE BeginStep
  <2>1. pc' = "body"
    BY <1>6 DEF BeginStep, Begin
  <2>2. cur' \in Steps
    BY <1>6 DEF BeginStep, Begin, Steps, ForwardSteps, BackSteps
  <2> QED BY <2>1, <2>2
<1>7. CASE Succeed
  BY <1>7 DEF Succeed
<1>8. CASE CheckPasses
  BY <1>8 DEF CheckPasses
<1>9. CASE CheckFails \/ RouteConflict \/ CallRefused \/ WaitSatisfied \/ WaitTimesOut
  BY <1>9, StepNames DEF CheckFails, RouteConflict, CallRefused, WaitSatisfied, WaitTimesOut
<1>10. CASE DecideRoute \/ DecideStop
  BY <1>10 DEF DecideRoute, DecideStop, Decide
<1>11. CASE ActivateTarget
  BY <1>11, StepNames DEF ActivateTarget
<1>12. CASE ActivateSource
  BY <1>12, StepNames DEF ActivateSource
<1>13. CASE Commit \/ StartWait
  BY <1>13, StepNames DEF Commit, StartWait
<1>14. CASE StartTarget \/ StartProof \/ KeepSource
  BY <1>14, StepNames DEF StartTarget, StartProof, KeepSource, Inspecting
<1>15. CASE NothingToStop \/ WantSourceStopped \/ StartSource
  BY <1>15, StepNames DEF NothingToStop, WantSourceStopped, StartSource
<1>16. CASE CallSucceeds \/ Mark
  BY <1>16 DEF CallSucceeds, Mark, CommandOf
<1>17. CASE RetryableError \/ StepError \/ UnexpectedError
  BY <1>17, StepNames DEF RetryableError, StepError, UnexpectedError, Calling
<1>18. CASE Classify \/ Unobservable \/ CleanupFails
  BY <1>18 DEF Classify, Unobservable, CleanupFails, Cleanup
<1>19. CASE StopOwnedTarget \/ End
  BY <1>19 DEF StopOwnedTarget, End, Cleanup
<1>20. CASE MarkRollingBack \/ EnsureRollback \/ FinishRollback \/ ReopenCreated
  BY <1>20 DEF MarkRollingBack, EnsureRollback, FinishRollback, ReopenCreated
<1>21. CASE Sweep
  BY <1>21 DEF Sweep, ReconcileSucceeded, ReconcileRolledBack, ReconcileCancelled,
    ResumeForward, ResumeRollback, CreateRollback, Unresolved, Sweeping, workerVars
<1>22. CASE Crash
  BY <1>22 DEF Crash
<1>23. CASE RequestCancel
  BY <1>23 DEF RequestCancel, workerVars
<1> QED BY <1>1, <1>2, <1>3, <1>4, <1>5, <1>6, <1>7, <1>8, <1>9, <1>10, <1>11, <1>12, <1>13,
  <1>14, <1>15, <1>16, <1>17, <1>18, <1>19, <1>20, <1>21, <1>22, <1>23 DEF Next, WorkerStep,
  Environment

\* Every step leaves the worker in a phase that the operation's status admits.
LEMMA PhaseStatusKept == ASSUME PhaseInv, [Next]_vars PROVE PhaseStatus'
<1>0. PhaseCur /\ PhaseOK /\ PhaseStatus
         /\ status \in Terminal \cup {"QUEUED", "RUNNING", "ROLLING_BACK"}
  BY DEF PhaseInv, TypeInv, TypeOK, OperationType
<1> USE <1>0 DEF PhaseCur, PhaseOK, PhaseStatus, InForward, InBack, Endings, BodyPhases,
  OthersUnchanged, StepUnchanged, RowsUnchanged, Forget, At, FailStep, AfterFailure,
  AfterCancel, Onward, operationVars
<1>1. CASE UNCHANGED vars
  BY <1>1 DEF vars, workerVars
<1>2. CASE Environment
  BY <1>2, EnvironmentWaits DEF workerVars
<1>3. CASE Claim \/ RecoverStale \/ CloseJob
  BY <1>3 DEF Claim, RecoverStale, CloseJob, workerVars, OperationOver, Terminal
<1>4. CASE Resume \/ ObserveCancel
  BY <1>4 DEF Resume, ObserveCancel, Terminal
<1>5. CASE SourceDrained \/ CancelWhileDraining
  BY <1>5, StepNames DEF SourceDrained, CancelWhileDraining, ForwardSteps, Forward
<1>6. CASE StepFailed \/ CancelBeforeRoute
  BY <1>6 DEF StepFailed, CancelBeforeRoute
<1>7. CASE BeginStep
  <2>1. CASE pc = "next"
    <3>1. cur' \in ForwardSteps /\ pc' = "body" /\ status' = status
      BY <1>7, <2>1 DEF BeginStep, Begin, ForwardSteps
    <3> QED BY <2>1, <3>1, StepNames
  <2>2. CASE pc = "backnext"
    <3>1. cur' \in BackSteps /\ pc' = "body" /\ status' = status
      BY <1>7, <2>2 DEF BeginStep, Begin, BackSteps
    <3> QED BY <2>2, <3>1, StepNames
  <2> QED BY <1>7, <2>1, <2>2 DEF BeginStep
<1>8. CASE Succeed
  BY <1>8 DEF Succeed
<1>9. CASE CheckPasses
  BY <1>9, StepNames DEF CheckPasses
<1>10. CASE CheckFails \/ RouteConflict \/ CallRefused \/ WaitSatisfied \/ WaitTimesOut
  BY <1>10, StepNames DEF CheckFails, RouteConflict, CallRefused, WaitSatisfied, WaitTimesOut
<1>11. CASE DecideRoute \/ DecideStop
  BY <1>11, StepNames DEF DecideRoute, DecideStop, Decide, ForwardSteps, Forward
<1>12. CASE ActivateTarget
  BY <1>12, StepNames DEF ActivateTarget
<1>13. CASE ActivateSource
  BY <1>13, StepNames DEF ActivateSource
<1>14. CASE Commit \/ StartWait
  BY <1>14, StepNames DEF Commit, StartWait
<1>15. CASE StartTarget \/ StartProof \/ KeepSource
  BY <1>15, StepNames DEF StartTarget, StartProof, KeepSource, Inspecting
<1>16. CASE NothingToStop \/ WantSourceStopped \/ StartSource
  BY <1>16, StepNames DEF NothingToStop, WantSourceStopped, StartSource
<1>17. CASE CallSucceeds \/ Mark
  BY <1>17, StepNames DEF CallSucceeds, Mark
<1>18. CASE RetryableError \/ StepError
  BY <1>18, StepNames DEF RetryableError, StepError, Calling
<1>19. CASE UnexpectedError
  BY <1>19 DEF UnexpectedError
<1>20. CASE Classify \/ Unobservable \/ CleanupFails
  BY <1>20 DEF Classify, Unobservable, CleanupFails, Cleanup
<1>21. CASE StopOwnedTarget
  BY <1>21 DEF StopOwnedTarget, Cleanup
<1>22. CASE End
  BY <1>22 DEF End, Ending
<1>23. CASE MarkRollingBack \/ EnsureRollback \/ FinishRollback
  BY <1>23 DEF MarkRollingBack, EnsureRollback, FinishRollback
<1>24. CASE ReopenCreated
  BY <1>24 DEF ReopenCreated, Reopen
<1>25. CASE Sweep
  <2>1. pc = "idle" /\ status = "MANUAL_INTERVENTION_REQUIRED" /\ status' # "QUEUED"
    BY <1>25 DEF Sweep, ReconcileSucceeded, ReconcileRolledBack, ReconcileCancelled,
      ResumeForward, ResumeRollback, CreateRollback, Unresolved, Sweeping, Settle, Reopen
  <2>2. \/ pc' = "idle"
        \/ pc' \in {"sweepcleanup", "reopen"} /\ status' = status
    BY <1>25, <2>1 DEF Sweep, ReconcileSucceeded, ReconcileRolledBack, ReconcileCancelled,
      ResumeForward, ResumeRollback, CreateRollback, Unresolved, workerVars
  <2> QED BY <2>1, <2>2
<1>26. CASE Crash
  BY <1>26 DEF Crash
<1>27. CASE RequestCancel
  BY <1>27 DEF RequestCancel, workerVars, Terminal
<1> QED BY <1>1, <1>2, <1>3, <1>4, <1>5, <1>6, <1>7, <1>8, <1>9, <1>10, <1>11, <1>12, <1>13,
  <1>14, <1>15, <1>16, <1>17, <1>18, <1>19, <1>20, <1>21, <1>22, <1>23, <1>24, <1>25, <1>26,
  <1>27 DEF Next, WorkerStep, Environment

\* So both hold in every state a run reaches.
LEMMA PhasesKnown == Spec => []PhaseInv
<1>1. Init => PhaseCur /\ PhaseStatus
  BY DEF Init, PhaseCur, PhaseStatus, BodyPhases, InForward, InBack, Endings
<1>2. PhaseInv /\ [Next]_vars => PhaseInv'
  BY PhaseCurKept, PhaseStatusKept, TypesKept DEF PhaseInv
<1> QED BY <1>1, <1>2, TypesAtStart, PTL DEF Spec, PhaseInv

-----------------------------------------------------------------------------
(* Who writes the rows of the steps, and with what.                        *)

AtStep(s) ==
  /\ cur = s /\ pc \in BodyPhases /\ step'[s] \in {"SUCCEEDED", "FAILED", "PENDING"}
  /\ (step'[s] = "SUCCEEDED" /\ s \in CheckSteps) => CheckPasses
Begun(s) ==
  /\ step[s] \in {"PENDING", "RUNNING"} /\ step'[s] = "RUNNING"
  /\ pc = (IF s \in ForwardSteps THEN "next" ELSE "backnext")
Skipped(s) ==
  /\ step[s] \in {"PENDING", "RUNNING"} /\ step'[s] = "SKIPPED"
  /\ \/ status' = "CANCELLED"
     \/ /\ s \in ForwardSteps /\ status' = status /\ status \notin {"QUEUED", "RUNNING"}
        /\ EnsureRollback \/ CreateRollback
SettledAs(s) == s \in PostRoute /\ step'[s] = "SUCCEEDED" /\ status' = "SUCCEEDED"
Created(s) ==
  s \in BackSteps /\ step[s] = "ABSENT" /\ step'[s] = "PENDING"
     /\ (EnsureRollback \/ CreateRollback)
Reopened(s) ==
  /\ step[s] \in {"FAILED", "RUNNING", "PENDING"} /\ step'[s] = "PENDING"
  /\ pc \in {"idle", "reopen"} /\ pc' = "idle"
  /\ ResumeForward \/ ResumeRollback \/ ReopenCreated
StepWritten(s) == AtStep(s) \/ Begun(s) \/ Skipped(s) \/ SettledAs(s) \/ Created(s) \/ Reopened(s)

\* Who writes a step's row, and what: the worker at its step, a skip, a reopening, a rollback.
LEMMA WhoWritesSteps ==
  ASSUME PhaseInv, [Next]_vars, NEW s \in Steps, step'[s] # step[s]
  PROVE  StepWritten(s)
<1>0. /\ step \in [Steps -> {"ABSENT", "PENDING", "RUNNING", "SUCCEEDED", "FAILED", "SKIPPED"}]
      /\ PhaseCur /\ PhaseOK /\ PhaseStatus
  BY DEF PhaseInv, TypeInv, TypeOK, OperationType
<1>a. step' # step
  OBVIOUS
<1> USE <1>0, <1>a DEF OthersUnchanged, RowsUnchanged, FailStep, Done, operationVars
<1>1. CASE UNCHANGED vars
  BY <1>1 DEF vars
<1>2. CASE Environment
  BY <1>2, EnvironmentWaits
<1>3. CASE Claim \/ RecoverStale \/ CloseJob
  BY <1>3 DEF Claim, RecoverStale, CloseJob
<1>4. CASE Resume \/ ObserveCancel \/ SourceDrained \/ CancelWhileDraining \/ StepFailed \/
  CancelBeforeRoute
  BY <1>4 DEF Resume, ObserveCancel, SourceDrained, CancelWhileDraining, StepFailed,
    CancelBeforeRoute
<1>5. CASE BeginStep
  <2>1. CASE pc = "next" /\ \E i \in DOMAIN Forward : Begin(Forward, i)
    <3>1. PICK i \in DOMAIN Forward : Begin(Forward, i)
      BY <2>1
    <3>2. s = Forward[i] /\ step'[s] = "RUNNING" /\ step[s] \in {"PENDING", "RUNNING"}
      BY <3>1 DEF Begin
    <3> QED BY <2>1, <3>2 DEF StepWritten, Begun, ForwardSteps
  <2>2. CASE pc = "backnext" /\ \E i \in DOMAIN Back : Begin(Back, i)
    <3>1. PICK i \in DOMAIN Back : Begin(Back, i)
      BY <2>2
    <3>2. s = Back[i] /\ step'[s] = "RUNNING" /\ step[s] \in {"PENDING", "RUNNING"}
      BY <3>1 DEF Begin
    <3>3. s \in BackSteps
      BY <3>2 DEF BackSteps
    <3> QED BY <2>2, <3>2, <3>3, StepNames DEF StepWritten, Begun
  <2> QED BY <1>5, <2>1, <2>2 DEF BeginStep
<1>6. CASE Succeed
  BY <1>6 DEF Succeed
<1>7. CASE CheckPasses
  <2>1. cur = s /\ step'[s] = "SUCCEEDED" /\ pc = "body"
    BY <1>7 DEF CheckPasses
  <2> QED BY <1>7, <2>1 DEF StepWritten, AtStep, BodyPhases
<1>8. CASE CheckFails \/ RouteConflict \/ CallRefused \/ WaitTimesOut
  <2>1. cur = s /\ step'[s] = "FAILED" /\ pc \in BodyPhases
    BY <1>8 DEF CheckFails, RouteConflict, CallRefused, WaitTimesOut, BodyPhases
  <2> QED BY <2>1 DEF StepWritten, AtStep
<1>9. CASE WaitSatisfied
  <2>1. cur = s /\ step'[s] = "SUCCEEDED" /\ pc \in BodyPhases /\ s \notin CheckSteps
    BY <1>9 DEF WaitSatisfied, BodyPhases, PhaseCur, WaitsFor, CheckSteps,
      RemoteChecks, HealthOf
  <2> QED BY <2>1 DEF StepWritten, AtStep
<1>10. CASE DecideRoute \/ DecideStop
  BY <1>10 DEF DecideRoute, DecideStop, Decide
<1>11. CASE ActivateTarget \/ ActivateSource \/ StartWait
  <2>1. cur = s /\ step'[s] = "FAILED" /\ pc \in BodyPhases
    BY <1>11 DEF ActivateTarget, ActivateSource, StartWait, BodyPhases
  <2> QED BY <2>1 DEF StepWritten, AtStep
<1>12. CASE Commit
  <2>1. cur = s /\ step'[s] = "SUCCEEDED" /\ pc \in BodyPhases /\ s \notin CheckSteps
    BY <1>12 DEF Commit, BodyPhases, PhaseCur, CheckSteps, RemoteChecks, HealthOf
  <2> QED BY <2>1 DEF StepWritten, AtStep
<1>13. CASE StartTarget \/ NothingToStop \/ StartSource
  <2>1. /\ cur = s /\ step'[s] \in {"SUCCEEDED", "FAILED"} /\ pc \in BodyPhases
        /\ s \notin CheckSteps
    BY <1>13 DEF StartTarget, NothingToStop, StartSource, BodyPhases, CheckSteps,
      RemoteChecks, HealthOf
  <2> QED BY <2>1 DEF StepWritten, AtStep
<1>14. CASE StartProof \/ KeepSource \/ WantSourceStopped
  BY <1>14 DEF StartProof, KeepSource, WantSourceStopped
<1>15. CASE CallSucceeds
  BY <1>15 DEF CallSucceeds
<1>16. CASE Mark
  <2>1. cur = s /\ step'[s] = "SUCCEEDED" /\ pc \in BodyPhases /\ s \notin CheckSteps
    BY <1>16 DEF Mark, BodyPhases, CommandOf, CheckSteps, RemoteChecks, HealthOf
  <2> QED BY <2>1 DEF StepWritten, AtStep
<1>17. CASE RetryableError \/ StepError
  <2>1. cur = s /\ step'[s] \in {"PENDING", "FAILED"} /\ pc \in BodyPhases
    BY <1>17 DEF RetryableError, StepError, BodyPhases, Calling
  <2> QED BY <2>1 DEF StepWritten, AtStep
<1>18. CASE UnexpectedError
  BY <1>18 DEF UnexpectedError
<1>19. CASE Classify
  <2>1. s \in PostRoute /\ step'[s] = "SUCCEEDED" /\ status' = "SUCCEEDED"
    BY <1>19 DEF Classify, AllPostRouteDone
  <2> QED BY <2>1 DEF StepWritten, SettledAs
<1>20. CASE Unobservable \/ CleanupFails \/ StopOwnedTarget
  BY <1>20 DEF Unobservable, CleanupFails, StopOwnedTarget
<1>21. CASE End
  <2>1. status' = "CANCELLED" /\ step' = SkipOpen(Steps)
    BY <1>21 DEF End
  <2>2. step[s] \in {"PENDING", "RUNNING"} /\ step'[s] = "SKIPPED"
    BY <2>1 DEF SkipOpen, Open
  <2> QED BY <2>1, <2>2 DEF StepWritten, Skipped
<1>22. CASE MarkRollingBack \/ FinishRollback
  BY <1>22 DEF MarkRollingBack, FinishRollback
<1>23. CASE EnsureRollback \/ CreateRollback
  <2>1. /\ step' = WithBackSteps /\ status' = status
        /\ status \in {"ROLLING_BACK", "MANUAL_INTERVENTION_REQUIRED"}
    BY <1>23 DEF EnsureRollback, CreateRollback, Sweeping, StepUnchanged, PhaseStatus
  <2>2. CASE s \in BackSteps
    <3>1. step[s] = "ABSENT" /\ step'[s] = "PENDING"
      BY <2>1, <2>2, StepNames DEF WithBackSteps, ForwardClosed, SkipOpen, Open
    <3> QED BY <1>23, <2>2, <3>1 DEF StepWritten, Created
  <2>3. CASE s \in ForwardSteps
    <3>1. step[s] \in {"PENDING", "RUNNING"} /\ step'[s] = "SKIPPED"
      BY <2>1, <2>3, StepNames DEF WithBackSteps, ForwardClosed, SkipOpen, Open
    <3> QED BY <1>23, <2>1, <2>3, <3>1 DEF StepWritten, Skipped
  <2> QED BY <2>2, <2>3, StepNames
<1>24. CASE ReopenCreated \/ ResumeForward \/ ResumeRollback
  <2>1. PICK x : step' = [step EXCEPT ![x] = "PENDING"]
           /\ step[x] \in {"FAILED", "RUNNING", "PENDING"}
    BY <1>24 DEF ReopenCreated, ResumeForward, ResumeRollback, Reopen
  <2>2. s = x /\ step'[s] = "PENDING"
    BY <2>1
  <2>3. pc \in {"idle", "reopen"} /\ pc' = "idle"
    BY <1>24 DEF ReopenCreated, ResumeForward, ResumeRollback, Sweeping, Forget, workerVars
  <2> QED BY <1>24, <2>1, <2>2, <2>3 DEF StepWritten, Reopened
<1>25. CASE ReconcileSucceeded
  <2>1. s \in PostRoute /\ step'[s] = "SUCCEEDED" /\ status' = "SUCCEEDED"
    BY <1>25 DEF ReconcileSucceeded, AllPostRouteDone, Settle
  <2> QED BY <2>1 DEF StepWritten, SettledAs
<1>26. CASE ReconcileRolledBack \/ ReconcileCancelled \/ Unresolved
  BY <1>26 DEF ReconcileRolledBack, ReconcileCancelled, Unresolved
<1>27. CASE Crash
  BY <1>27 DEF Crash
<1>28. CASE RequestCancel
  <2>1. status' = "CANCELLED" /\ step' = SkipOpen(Steps)
    BY <1>28 DEF RequestCancel
  <2>2. step[s] \in {"PENDING", "RUNNING"} /\ step'[s] = "SKIPPED"
    BY <2>1 DEF SkipOpen, Open
  <2> QED BY <2>1, <2>2 DEF StepWritten, Skipped
<1> QED BY <1>1, <1>2, <1>3, <1>4, <1>5, <1>6, <1>7, <1>8, <1>9, <1>10, <1>11, <1>12, <1>13,
  <1>14, <1>15, <1>16, <1>17, <1>18, <1>19, <1>20, <1>21, <1>22, <1>23, <1>24, <1>25, <1>26,
  <1>27, <1>28 DEF Next, WorkerStep, Environment, Sweep

-----------------------------------------------------------------------------
(* What a rollback rests on.                                               *)

\* Nothing but a cancellation begins a rollback, and none of its steps exists before it.
CancelPhases == {"cancel", "cancelcleanup", "cancelend", "rollback", "block", "backnext",
                 "sweepcleanup", "sweepend", "reopen"}
BackNeedsCancel ==
  /\ \A s \in BackSteps : step[s] # "ABSENT" => cancel
  /\ (status = "ROLLING_BACK" \/ pc \in CancelPhases) => cancel
\* So a worker that goes forward finds no step of a rollback.
ForwardFirst == InForward => \A s \in BackSteps : step[s] = "ABSENT"
\* What a loop passes over is never a step that does not exist, nor, until the operation
\* is over, one that was skipped.
NotSkipped ==
  /\ \A s \in BackSteps : step[s] = "SKIPPED" => status = "CANCELLED"
  /\ status \in {"QUEUED", "RUNNING"} => step["PROBE_TARGET"] \notin {"SKIPPED", "ABSENT"}
  /\ InBack => \A s \in BackSteps : step[s] # "ABSENT"
\* Once the rollback has probed Source, Source runs, unless a late stop takes it down.
SourceUp == OnTime /\ step["HOT_ROLLBACK_PROBE_SOURCE"] = "SUCCEEDED" => Runs("source")
RollbackInv == BackNeedsCancel /\ ForwardFirst /\ NotSkipped /\ SourceUp

\* A rollback, or a cancellation, has been asked for.
LEMMA RollbackAsked ==
  ASSUME PhaseInv, BackNeedsCancel, [Next]_vars
  PROVE  (status' = "ROLLING_BACK" \/ pc' \in CancelPhases) => cancel'
<1>0. /\ (status = "ROLLING_BACK" \/ pc \in CancelPhases) => cancel
      /\ cancel => cancel'
      /\ PhaseStatus /\ PhaseCur
  BY MemoryGrows DEF BackNeedsCancel, PhaseInv
<1> USE <1>0 DEF CancelPhases, OthersUnchanged, StepUnchanged, RowsUnchanged, Forget, At, FailStep,
  AfterFailure, operationVars
<1>1. CASE UNCHANGED vars
  BY <1>1 DEF vars, workerVars
<1>2. CASE Environment
  BY <1>2, EnvironmentWaits DEF workerVars
<1>3. CASE Claim \/ RecoverStale \/ CloseJob
  BY <1>3 DEF Claim, RecoverStale, CloseJob, workerVars
<1>4. CASE Resume \/ ObserveCancel \/ SourceDrained \/ CancelWhileDraining \/ StepFailed \/
  CancelBeforeRoute
  BY <1>4 DEF Resume, ObserveCancel, SourceDrained, CancelWhileDraining, StepFailed,
    CancelBeforeRoute
<1>5. CASE BeginStep
  BY <1>5 DEF BeginStep, Begin
<1>6. CASE Succeed
  BY <1>6 DEF Succeed
<1>7. CASE pc \in BodyPhases /\ cur \in BackSteps
  BY <1>7 DEF PhaseStatus, InBack
<1>8. CASE CheckPasses /\ cur \in ForwardSteps
  BY <1>8 DEF CheckPasses, Onward
<1>9. CASE (CheckFails \/ RouteConflict \/ CallRefused \/ WaitSatisfied \/ WaitTimesOut)
         /\ cur \in ForwardSteps
  BY <1>9, StepNames DEF CheckFails, RouteConflict, CallRefused, WaitSatisfied, WaitTimesOut, Onward
<1>10. CASE DecideRoute \/ DecideStop
  BY <1>10 DEF DecideRoute, DecideStop, Decide, AfterCancel, CancelObserved
<1>11. CASE ActivateTarget
  BY <1>11, StepNames DEF ActivateTarget
<1>12. CASE ActivateSource
  BY <1>12 DEF ActivateSource
<1>13. CASE (Commit \/ StartWait) /\ cur \in ForwardSteps
  BY <1>13 DEF Commit, StartWait, Onward
<1>14. CASE (StartTarget \/ StartProof \/ KeepSource) /\ cur \in ForwardSteps
  BY <1>14 DEF StartTarget, StartProof, KeepSource, Onward
<1>15. CASE (NothingToStop \/ WantSourceStopped \/ StartSource) /\ cur \in ForwardSteps
  BY <1>15 DEF NothingToStop, WantSourceStopped, StartSource, Onward
<1>16. CASE (CallSucceeds \/ Mark) /\ cur \in ForwardSteps
  BY <1>16 DEF CallSucceeds, Mark, Onward
<1>17. CASE RetryableError \/ StepError
  BY <1>17 DEF RetryableError, StepError
<1>18. CASE UnexpectedError
  BY <1>18 DEF UnexpectedError
<1>19. CASE Classify \/ Unobservable \/ CleanupFails
  BY <1>19 DEF Classify, Unobservable, CleanupFails, Cleanup
<1>20. CASE StopOwnedTarget
  BY <1>20 DEF StopOwnedTarget, Cleanup
<1>21. CASE End
  BY <1>21 DEF End, Ending
<1>22. CASE MarkRollingBack \/ EnsureRollback \/ FinishRollback
  BY <1>22 DEF MarkRollingBack, EnsureRollback, FinishRollback
<1>23. CASE ReopenCreated
  BY <1>23 DEF ReopenCreated
<1>24. CASE ResumeRollback \/ CreateRollback
  <2>1. OpenBack # {} => cancel
    BY DEF OpenBack, BackNeedsCancel
  <2>2. cancel
    BY <1>24, <2>1 DEF ResumeRollback, CreateRollback, Undoable
  <2> QED BY <2>2
<1>25. CASE Sweep /\ ~ResumeRollback /\ ~CreateRollback
  BY <1>25 DEF Sweep, ReconcileSucceeded, ReconcileRolledBack, ReconcileCancelled, ResumeForward,
    Unresolved, Settle, Reopen, Cancellable, Sweeping, workerVars
<1>26. CASE Crash
  BY <1>26 DEF Crash
<1>27. CASE RequestCancel
  BY <1>27 DEF RequestCancel
<1>28. ASSUME pc \in BodyPhases, cur \notin BackSteps PROVE cur \in ForwardSteps
  BY <1>28, StepNames DEF PhaseCur
<1>29. \/ pc \in BodyPhases
       \/ ~(CheckPasses \/ CheckFails \/ RouteConflict \/ CallRefused \/ WaitSatisfied
          \/ WaitTimesOut
            \/ Commit \/ StartWait \/ StartTarget \/ StartProof \/ KeepSource \/ NothingToStop
            \/ WantSourceStopped \/ StartSource \/ CallSucceeds \/ Mark)
  BY DEF BodyPhases, CheckPasses, CheckFails, RouteConflict, CallRefused, WaitSatisfied,
    WaitTimesOut, Commit, StartWait, StartTarget, StartProof, KeepSource, NothingToStop,
    WantSourceStopped, StartSource, CallSucceeds, Mark
<1> QED BY <1>1, <1>2, <1>3, <1>4, <1>5, <1>6, <1>7, <1>8, <1>9, <1>10, <1>11, <1>12, <1>13,
  <1>14, <1>15, <1>16, <1>17, <1>18, <1>19, <1>20, <1>21, <1>22, <1>23, <1>24, <1>25, <1>26,
  <1>27, <1>28, <1>29 DEF Next, WorkerStep, Environment

-----------------------------------------------------------------------------
(* Who moves routes.                                                       *)

\* Only the two activating steps and the operator move routes.
LEMMA WhoMovesRoutes ==
  ASSUME [Next]_vars, ~ActivateTarget, ~ActivateSource, ~OperatorSetsRoute
  PROVE  UNCHANGED <<routingVars, routeVer>>
<1> USE DEF RowsUnchanged, StepUnchanged, operationVars
<1>1. CASE UNCHANGED vars
  BY <1>1 DEF vars
<1>2. CASE Environment
  BY <1>2 DEF Environment, LateEffect, TargetExits, StartReload, FinishReload, Admit, Bind, Release
<1>3. CASE Claim \/ RecoverStale \/ CloseJob
  BY <1>3 DEF Claim, RecoverStale, CloseJob
<1>4. CASE Resume \/ ObserveCancel \/ SourceDrained \/ CancelWhileDraining \/ StepFailed \/
  CancelBeforeRoute
  BY <1>4 DEF Resume, ObserveCancel, SourceDrained, CancelWhileDraining, StepFailed,
    CancelBeforeRoute
<1>5. CASE BeginStep \/ Succeed
  BY <1>5 DEF BeginStep, Succeed
<1>6. CASE CheckPasses
  BY <1>6 DEF CheckPasses
<1>7. CASE CheckFails \/ RouteConflict \/ CallRefused \/ WaitSatisfied \/ WaitTimesOut
  BY <1>7 DEF CheckFails, RouteConflict, CallRefused, WaitSatisfied, WaitTimesOut
<1>8. CASE DecideRoute \/ DecideStop
  BY <1>8 DEF DecideRoute, DecideStop, Decide
<1>9. CASE Commit \/ StartWait
  BY <1>9 DEF Commit, StartWait
<1>10. CASE StartTarget \/ StartProof \/ KeepSource
  BY <1>10 DEF StartTarget, StartProof, KeepSource
<1>11. CASE NothingToStop \/ WantSourceStopped \/ StartSource
  BY <1>11 DEF NothingToStop, WantSourceStopped, StartSource
<1>12. CASE CallSucceeds \/ Mark
  BY <1>12 DEF CallSucceeds, Mark
<1>13. CASE RetryableError \/ StepError \/ UnexpectedError
  BY <1>13 DEF RetryableError, StepError, UnexpectedError
<1>14. CASE Classify \/ Unobservable \/ CleanupFails
  BY <1>14 DEF Classify, Unobservable, CleanupFails
<1>15. CASE StopOwnedTarget \/ End
  BY <1>15 DEF StopOwnedTarget, End
<1>16. CASE MarkRollingBack \/ EnsureRollback \/ FinishRollback \/ ReopenCreated
  BY <1>16 DEF MarkRollingBack, EnsureRollback, FinishRollback, ReopenCreated
<1>17. CASE Sweep
  BY <1>17 DEF Sweep, ReconcileSucceeded, ReconcileRolledBack, ReconcileCancelled, ResumeForward,
    ResumeRollback, CreateRollback, Unresolved
<1>18. CASE Crash
  BY <1>18 DEF Crash
<1>19. CASE RequestCancel
  BY <1>19 DEF RequestCancel
<1> QED BY <1>1, <1>2, <1>3, <1>4, <1>5, <1>6, <1>7, <1>8, <1>9, <1>10, <1>11, <1>12, <1>13,
  <1>14, <1>15, <1>16, <1>17, <1>18, <1>19 DEF Next, WorkerStep, Environment

\* The gateway changes by itself.
LEMMA WhoMovesGateway ==
  ASSUME [Next]_vars, ~StartReload, ~FinishReload, ~Admit, ~Bind, ~Release
  PROVE  UNCHANGED gatewayVars
<1> USE DEF OthersUnchanged
<1>1. CASE UNCHANGED vars
  BY <1>1 DEF vars
<1>2. CASE Environment
  BY <1>2 DEF Environment, LateEffect, OperatorSetsRoute, TargetExits
<1>3. CASE Claim \/ RecoverStale \/ CloseJob
  BY <1>3 DEF Claim, RecoverStale, CloseJob
<1>4. CASE Resume \/ ObserveCancel \/ SourceDrained \/ CancelWhileDraining \/ StepFailed \/
  CancelBeforeRoute
  BY <1>4 DEF Resume, ObserveCancel, SourceDrained, CancelWhileDraining, StepFailed,
    CancelBeforeRoute
<1>5. CASE BeginStep \/ Succeed
  BY <1>5 DEF BeginStep, Succeed
<1>6. CASE CheckPasses
  BY <1>6 DEF CheckPasses
<1>7. CASE CheckFails \/ RouteConflict \/ CallRefused \/ WaitSatisfied \/ WaitTimesOut
  BY <1>7 DEF CheckFails, RouteConflict, CallRefused, WaitSatisfied, WaitTimesOut
<1>8. CASE DecideRoute \/ DecideStop
  BY <1>8 DEF DecideRoute, DecideStop, Decide
<1>9. CASE ActivateTarget \/ ActivateSource \/ Commit \/ StartWait
  BY <1>9 DEF ActivateTarget, ActivateSource, Commit, StartWait
<1>10. CASE StartTarget \/ StartProof \/ KeepSource
  BY <1>10 DEF StartTarget, StartProof, KeepSource
<1>11. CASE NothingToStop \/ WantSourceStopped \/ StartSource
  BY <1>11 DEF NothingToStop, WantSourceStopped, StartSource
<1>12. CASE CallSucceeds \/ Mark
  BY <1>12 DEF CallSucceeds, Mark
<1>13. CASE RetryableError \/ StepError \/ UnexpectedError
  BY <1>13 DEF RetryableError, StepError, UnexpectedError
<1>14. CASE Classify \/ Unobservable \/ CleanupFails
  BY <1>14 DEF Classify, Unobservable, CleanupFails
<1>15. CASE StopOwnedTarget \/ End
  BY <1>15 DEF StopOwnedTarget, End
<1>16. CASE MarkRollingBack \/ EnsureRollback \/ FinishRollback \/ ReopenCreated
  BY <1>16 DEF MarkRollingBack, EnsureRollback, FinishRollback, ReopenCreated
<1>17. CASE Sweep
  BY <1>17 DEF Sweep, ReconcileSucceeded, ReconcileRolledBack, ReconcileCancelled, ResumeForward,
    ResumeRollback, CreateRollback, Unresolved
<1>18. CASE Crash
  BY <1>18 DEF Crash
<1>19. CASE RequestCancel
  BY <1>19 DEF RequestCancel
<1> QED BY <1>1, <1>2, <1>3, <1>4, <1>5, <1>6, <1>7, <1>8, <1>9, <1>10, <1>11, <1>12, <1>13,
  <1>14, <1>15, <1>16, <1>17, <1>18, <1>19 DEF Next, WorkerStep, Environment

-----------------------------------------------------------------------------
(* How the worker enters a direction, and how a status is left.            *)

\* The forward loop is entered by an attempt alone, the backward one by the rollback's steps.
LEMMA WhoEntersDirections ==
  ASSUME PhaseInv, [Next]_vars
  PROVE  /\ InForward' => InForward \/ Resume
         /\ InBack' => InBack \/ EnsureRollback
<1>0. PhaseCur /\ PhaseOK
  BY DEF PhaseInv, TypeInv
<1> USE <1>0 DEF PhaseCur, PhaseOK, InForward, InBack, BodyPhases, Forget, At, FailStep,
    AfterFailure, AfterCancel, Onward
<1>1. CASE UNCHANGED vars
  BY <1>1 DEF vars, workerVars
<1>2. CASE Environment
  BY <1>2, EnvironmentWaits DEF workerVars
<1>3. CASE Claim \/ RecoverStale \/ CloseJob
  BY <1>3 DEF Claim, RecoverStale, CloseJob, workerVars
<1>4. CASE ObserveCancel \/ StepFailed \/ CancelBeforeRoute
  BY <1>4 DEF ObserveCancel, StepFailed, CancelBeforeRoute
<1>5. CASE SourceDrained \/ CancelWhileDraining
  BY <1>5 DEF SourceDrained, CancelWhileDraining
<1>6. CASE Resume
  BY <1>6 DEF Resume
<1>7. CASE BeginStep
  <2>1. CASE pc = "next"
    <3>1. cur' \in ForwardSteps /\ pc' = "body"
      BY <1>7, <2>1 DEF BeginStep, Begin, ForwardSteps
    <3> QED BY <2>1, <3>1, StepNames
  <2>2. CASE pc = "backnext"
    <3>1. cur' \in BackSteps /\ pc' = "body"
      BY <1>7, <2>2 DEF BeginStep, Begin, BackSteps
    <3> QED BY <2>2, <3>1, StepNames
  <2> QED BY <1>7, <2>1, <2>2 DEF BeginStep
<1>8. CASE Succeed
  BY <1>8 DEF Succeed
<1>9. CASE CheckPasses
  BY <1>9, StepNames DEF CheckPasses
<1>10. CASE CheckFails \/ RouteConflict \/ CallRefused \/ WaitSatisfied \/ WaitTimesOut
  BY <1>10, StepNames DEF CheckFails, RouteConflict, CallRefused, WaitSatisfied, WaitTimesOut
<1>11. CASE DecideRoute \/ DecideStop
  BY <1>11 DEF DecideRoute, DecideStop, Decide
<1>12. CASE ActivateTarget
  BY <1>12 DEF ActivateTarget
<1>13. CASE ActivateSource
  BY <1>13 DEF ActivateSource
<1>14. CASE Commit \/ StartWait
  BY <1>14, StepNames DEF Commit, StartWait
<1>15. CASE StartTarget \/ StartProof \/ KeepSource
  BY <1>15, StepNames DEF StartTarget, StartProof, KeepSource
<1>16. CASE NothingToStop \/ WantSourceStopped \/ StartSource
  BY <1>16, StepNames DEF NothingToStop, WantSourceStopped, StartSource
<1>17. CASE CallSucceeds \/ Mark
  BY <1>17, StepNames DEF CallSucceeds, Mark
<1>18. CASE RetryableError \/ StepError \/ UnexpectedError
  BY <1>18 DEF RetryableError, StepError, UnexpectedError
<1>19. CASE Classify \/ Unobservable \/ CleanupFails
  BY <1>19 DEF Classify, Unobservable, CleanupFails, Cleanup
<1>20. CASE StopOwnedTarget \/ End
  BY <1>20 DEF StopOwnedTarget, End, Cleanup
<1>21. CASE MarkRollingBack \/ EnsureRollback \/ FinishRollback \/ ReopenCreated
  BY <1>21 DEF MarkRollingBack, EnsureRollback, FinishRollback, ReopenCreated
<1>22. CASE Sweep
  BY <1>22 DEF Sweep, ReconcileSucceeded, ReconcileRolledBack, ReconcileCancelled, ResumeForward,
    ResumeRollback, CreateRollback, Unresolved, Sweeping, workerVars
<1>23. CASE Crash
  BY <1>23 DEF Crash
<1>24. CASE RequestCancel
  BY <1>24 DEF RequestCancel, workerVars
<1> QED BY <1>1, <1>2, <1>3, <1>4, <1>5, <1>6, <1>7, <1>8, <1>9, <1>10, <1>11, <1>12, <1>13,
  <1>14, <1>15, <1>16, <1>17, <1>18, <1>19, <1>20, <1>21, <1>22, <1>23, <1>24 DEF Next, WorkerStep,
  Environment

\* An ending other than the operator's is for good, and only a claim and a sweep make an
\* operation RUNNING.
LEMMA WhoMovesStatus ==
  ASSUME PhaseInv, [Next]_vars, status' # status
  PROVE  /\ status \in {"QUEUED", "RUNNING", "ROLLING_BACK", "MANUAL_INTERVENTION_REQUIRED"}
         /\ status' \in {"QUEUED", "RUNNING"} => (Claim /\ status = "QUEUED") \/ ResumeForward
<1>0. PhaseStatus /\ status \in Terminal \cup {"QUEUED", "RUNNING", "ROLLING_BACK"}
  BY DEF PhaseInv, TypeInv, TypeOK, OperationType
<1> USE <1>0 DEF PhaseStatus, Endings, InForward, InBack, StepUnchanged, RowsUnchanged,
    operationVars
<1>1. CASE UNCHANGED vars
  BY <1>1 DEF vars
<1>2. CASE Environment
  BY <1>2, EnvironmentWaits
<1>3. CASE Claim \/ RecoverStale \/ CloseJob
  BY <1>3 DEF Claim, RecoverStale, CloseJob
<1>4. CASE Resume \/ ObserveCancel \/ SourceDrained \/ CancelWhileDraining \/ StepFailed \/
  CancelBeforeRoute
  BY <1>4 DEF Resume, ObserveCancel, SourceDrained, CancelWhileDraining, StepFailed,
    CancelBeforeRoute
<1>5. CASE BeginStep
  BY <1>5 DEF BeginStep
<1>6. CASE Succeed
  BY <1>6 DEF Succeed
<1>7. CASE CheckPasses
  BY <1>7 DEF CheckPasses
<1>8. CASE CheckFails \/ RouteConflict \/ CallRefused \/ WaitSatisfied \/ WaitTimesOut
  BY <1>8 DEF CheckFails, RouteConflict, CallRefused, WaitSatisfied, WaitTimesOut
<1>9. CASE DecideRoute \/ DecideStop
  BY <1>9 DEF DecideRoute, DecideStop, Decide
<1>10. CASE ActivateTarget \/ ActivateSource \/ Commit \/ StartWait
  BY <1>10 DEF ActivateTarget, ActivateSource, Commit, StartWait
<1>11. CASE StartTarget \/ StartProof \/ KeepSource
  BY <1>11 DEF StartTarget, StartProof, KeepSource
<1>12. CASE NothingToStop \/ WantSourceStopped \/ StartSource
  BY <1>12 DEF NothingToStop, WantSourceStopped, StartSource
<1>13. CASE CallSucceeds \/ Mark
  BY <1>13 DEF CallSucceeds, Mark
<1>14. CASE RetryableError \/ StepError \/ UnexpectedError
  BY <1>14 DEF RetryableError, StepError, UnexpectedError
<1>15. CASE Classify
  BY <1>15 DEF Classify
<1>16. CASE Unobservable \/ CleanupFails \/ StopOwnedTarget
  BY <1>16 DEF Unobservable, CleanupFails, StopOwnedTarget
<1>17. CASE End
  BY <1>17 DEF End, Ending
<1>18. CASE MarkRollingBack
  BY <1>18 DEF MarkRollingBack
<1>19. CASE EnsureRollback \/ FinishRollback
  BY <1>19 DEF EnsureRollback, FinishRollback
<1>20. CASE ReopenCreated
  BY <1>20 DEF ReopenCreated, Reopen
<1>21. CASE Sweep
  BY <1>21 DEF Sweep, ReconcileSucceeded, ReconcileRolledBack, ReconcileCancelled, ResumeRollback,
    CreateRollback, Unresolved, Sweeping, ResumeForward, Settle, Reopen
<1>22. CASE Crash
  BY <1>22 DEF Crash
<1>23. CASE RequestCancel
  BY <1>23 DEF RequestCancel, Terminal
<1> QED BY <1>1, <1>2, <1>3, <1>4, <1>5, <1>6, <1>7, <1>8, <1>9, <1>10, <1>11, <1>12, <1>13,
  <1>14, <1>15, <1>16, <1>17, <1>18, <1>19, <1>20, <1>21, <1>22, <1>23 DEF Next, WorkerStep,
  Environment

-----------------------------------------------------------------------------
(* The rollback.                                                           *)

\* No step disturbs what a rollback rests on.
LEMMA RollbackKept ==
  ASSUME PhaseInv, RollbackInv, [Next]_vars
  PROVE  RollbackInv'
<1>0. /\ PhaseCur /\ PhaseStatus
      /\ step \in [Steps -> {"ABSENT", "PENDING", "RUNNING", "SUCCEEDED", "FAILED", "SKIPPED"}]
      /\ BackNeedsCancel /\ ForwardFirst /\ NotSkipped /\ SourceUp
  BY DEF PhaseInv, TypeInv, TypeOK, OperationType, RollbackInv
<1>1. ASSUME NEW s \in Steps, step'[s] # step[s]
      PROVE  StepWritten(s)
  BY <1>1, WhoWritesSteps
<1>2. BackNeedsCancel'
  <2>1. ASSUME NEW s \in BackSteps, step'[s] # "ABSENT" PROVE cancel'
    <3>1. CASE step[s] # "ABSENT"
      BY <1>0, <3>1, MemoryGrows DEF BackNeedsCancel
    <3>2. CASE step[s] = "ABSENT"
      <4>1. StepWritten(s)
        BY <1>1, <2>1, <3>2, StepNames
      <4>2. s \notin ForwardSteps /\ s \notin PostRoute
        BY <2>1, StepNames DEF PostRoute, Retirement, ForwardSteps, Forward
      <4>3. CASE AtStep(s)
        BY <1>0, <2>1, <4>3, MemoryGrows DEF AtStep, BackNeedsCancel, PhaseStatus, InBack
      <4>4. CASE EnsureRollback
        BY <1>0, <4>4, MemoryGrows DEF BackNeedsCancel, EnsureRollback, CancelPhases
      <4>5. CASE CreateRollback
        BY <4>5, MemoryGrows DEF CreateRollback, Undoable
      <4> QED BY <3>2, <4>1, <4>2, <4>3, <4>4, <4>5 DEF StepWritten, Begun, Skipped, SettledAs,
          Created, Reopened
    <3> QED BY <3>1, <3>2
  <2>2. (status' = "ROLLING_BACK" \/ pc' \in CancelPhases) => cancel'
    BY <1>0, RollbackAsked
  <2> QED BY <2>1, <2>2 DEF BackNeedsCancel
<1>3. ForwardFirst'
  <2> SUFFICES ASSUME InForward', NEW s \in BackSteps PROVE step'[s] = "ABSENT"
    BY DEF ForwardFirst
  <2>1. CASE Resume
    <3>1. CASE ~cancel
      BY <1>0, <2>1, <3>1 DEF Resume, RowsUnchanged, BackNeedsCancel
    <3>2. CASE status = "ROLLING_BACK"
      BY <2>1, <3>2 DEF Resume, At, InForward, BodyPhases
    <3> QED BY <2>1, <3>1, <3>2 DEF Resume
  <2>2. CASE InForward
    <3>1. step[s] = "ABSENT" /\ s \notin ForwardSteps /\ s \in Steps /\ s \notin PostRoute
      BY <1>0, <2>2, StepNames DEF ForwardFirst, PostRoute, Retirement, ForwardSteps, Forward
    <3>2. ~AtStep(s)
      BY <2>2, <3>1 DEF AtStep, InForward, BodyPhases
    <3>3. ~EnsureRollback /\ ~CreateRollback
      BY <2>2 DEF EnsureRollback, CreateRollback, Sweeping, InForward, BodyPhases
    <3> QED BY <1>1, <3>1, <3>2, <3>3 DEF StepWritten, Begun, Skipped, SettledAs, Created, Reopened
  <2> QED BY <2>1, <2>2, WhoEntersDirections
<1>4. NotSkipped'
  <2>1. ASSUME NEW s \in BackSteps, step'[s] = "SKIPPED" PROVE status' = "CANCELLED"
    <3>1. CASE step[s] = "SKIPPED"
      BY <1>0, <3>1, WhoMovesStatus DEF NotSkipped
    <3>2. CASE step[s] # "SKIPPED"
      BY <1>1, <2>1, <3>2, StepNames DEF StepWritten, AtStep, Begun, Skipped, SettledAs, Created,
        Reopened
    <3> QED BY <3>1, <3>2
  <2>2. ASSUME status' \in {"QUEUED", "RUNNING"}
        PROVE step'["PROBE_TARGET"] \notin {"SKIPPED", "ABSENT"}
    <3>0. "PROBE_TARGET" \in Steps
      BY DEF Steps, ForwardSteps, Forward
    <3>1. CASE status \in {"QUEUED", "RUNNING"}
      <4>1. step["PROBE_TARGET"] \notin {"SKIPPED", "ABSENT"}
        BY <1>0, <3>1 DEF NotSkipped
      <4> QED BY <1>1, <2>2, <3>0, <3>1, <4>1 DEF StepWritten, AtStep, Begun, Skipped, SettledAs,
          Created, Reopened
    <3>2. CASE status \notin {"QUEUED", "RUNNING"}
      <4>1. ResumeForward
        BY <2>2, <3>2, WhoMovesStatus
      <4>2. step["PROBE_TARGET"] = "SUCCEEDED"
        BY <4>1 DEF ResumeForward, Retirable, Finishing, Proven, RouteProven
      <4> QED BY <1>1, <2>2, <3>0, <3>2, <4>2 DEF StepWritten, AtStep, Begun, Skipped, SettledAs,
          Created, Reopened
    <3> QED BY <3>1, <3>2
  <2>3. ASSUME InBack', NEW s \in BackSteps PROVE step'[s] # "ABSENT"
    <3>1. CASE InBack
      <4>1. step[s] # "ABSENT"
        BY <1>0, <3>1 DEF NotSkipped
      <4> QED BY <1>1, <4>1, StepNames DEF StepWritten, AtStep, Begun, Skipped, SettledAs,
          Created, Reopened
    <3>2. CASE EnsureRollback
      <4>1. step' = WithBackSteps
        BY <3>2 DEF EnsureRollback
      <4>2. WithBackSteps[s] # "ABSENT"
        BY <1>0, StepNames DEF WithBackSteps, ForwardClosed, SkipOpen, Open
      <4> QED BY <4>1, <4>2
    <3> QED BY <2>3, <3>1, <3>2, WhoEntersDirections
  <2> QED BY <2>1, <2>2, <2>3 DEF NotSkipped
<1>5. SourceUp'
  <2> DEFINE probe == "HOT_ROLLBACK_PROBE_SOURCE"
  <2> SUFFICES ASSUME OnTime', step'[probe] = "SUCCEEDED" PROVE Runs("source")'
    BY DEF SourceUp
  <2>0. probe \in BackSteps /\ probe \in Steps /\ probe \in DOMAIN HealthOf
           /\ probe \notin PostRoute
        /\ probe \notin ForwardSteps
    BY DEF Steps, BackSteps, Back, ForwardSteps, Forward, HealthOf, PostRoute, Retirement
  <2>1. CASE step[probe] = "SUCCEEDED"
    <3>1. Runs("source")
      BY <1>0, <2>1, MemoryGrows DEF SourceUp
    <3>2. ~(pc = "call" /\ cur = "STOP_SOURCE")
      BY <1>0, <2>0, <2>1 DEF ForwardFirst, InForward, BodyPhases, ForwardSteps, Forward
    <3> QED BY <3>1, <3>2, SourceStops DEF PhaseInv, LateStop
  <2>2. CASE step[probe] # "SUCCEEDED"
    <3>1. CheckPasses /\ cur = probe
      BY <1>1, <2>0, <2>2 DEF StepWritten, AtStep, Begun, Skipped, SettledAs, Created, Reopened,
        CheckSteps, RemoteChecks
    <3>2. Healthy(HealthOf[cur]) /\ HealthOf[cur] = "source"
      BY <2>0, <3>1 DEF CheckPasses, Ready, HealthOf, ForwardSteps, Forward
    <3>3. cont' = cont
      BY <3>1 DEF CheckPasses
    <3> QED BY <3>2, <3>3 DEF Healthy, Runs
  <2> QED BY <2>1, <2>2
<1> QED BY <1>2, <1>3, <1>4, <1>5 DEF RollbackInv

-----------------------------------------------------------------------------
(* How the worker enters the phases that move or stop something.           *)

\* The ways into the phases around a stop and a route.
LEMMA WhoEntersPhases ==
  ASSUME PhaseInv, [Next]_vars, ~UNCHANGED workerVars
  PROVE  /\ pc' = "body" => BeginStep
         /\ pc' \in {"drain", "proof"} => StartProof
         /\ pc' = "decide" => SourceDrained /\ pc = "proof"
         /\ pc' = "desire" => DecideStop /\ marks' = marks \cup {"stopBoundary"}
         /\ (pc' = "call" /\ cur' = "STOP_SOURCE") => WantSourceStopped
         /\ pc' = "route" => DecideRoute /\ ~cancel /\ marks' = marks \cup {"routeBoundary"}
         /\ pc' \in DOMAIN Cleanup => \/ UnexpectedError \/ StepFailed \/ Classify
                                      \/ CancelBeforeRoute \/ ReconcileCancelled
         /\ pc' = "fail" => pc = "failcleanup" /\ (StopOwnedTarget \/ CleanupFails)
<1>0. PhaseCur /\ PhaseOK
  BY DEF PhaseInv, TypeInv
<1> USE <1>0 DEF PhaseCur, PhaseOK, Cleanup, Forget, At, FailStep, AfterFailure, AfterCancel, Onward
<1>1. CASE UNCHANGED vars
  BY <1>1 DEF vars
<1>2. CASE Environment
  BY <1>2, EnvironmentWaits
<1>3. CASE Claim \/ RecoverStale \/ CloseJob
  BY <1>3 DEF Claim, RecoverStale, CloseJob
<1>4. CASE Resume \/ ObserveCancel \/ StepFailed \/ CancelBeforeRoute
  BY <1>4 DEF Resume, ObserveCancel, StepFailed, CancelBeforeRoute
<1>5. CASE SourceDrained \/ CancelWhileDraining
  BY <1>5 DEF SourceDrained, CancelWhileDraining
<1>6. CASE BeginStep
  <2>1. pc' = "body"
    BY <1>6 DEF BeginStep, Begin
  <2> QED BY <1>6, <2>1
<1>7. CASE Succeed
  BY <1>7 DEF Succeed
<1>8. CASE CheckPasses
  BY <1>8 DEF CheckPasses
<1>9. CASE CheckFails \/ RouteConflict \/ CallRefused \/ WaitSatisfied \/ WaitTimesOut
  BY <1>9 DEF CheckFails, RouteConflict, CallRefused, WaitSatisfied, WaitTimesOut
<1>10. CASE DecideRoute \/ DecideStop
  BY <1>10 DEF DecideRoute, DecideStop, Decide, CancelObserved
<1>11. CASE ActivateTarget
  BY <1>11 DEF ActivateTarget
<1>12. CASE ActivateSource
  BY <1>12 DEF ActivateSource
<1>13. CASE Commit \/ StartWait
  BY <1>13 DEF Commit, StartWait
<1>14. CASE StartTarget \/ StartProof \/ KeepSource
  BY <1>14 DEF StartTarget, StartProof, KeepSource
<1>15. CASE NothingToStop \/ WantSourceStopped \/ StartSource
  BY <1>15 DEF NothingToStop, WantSourceStopped, StartSource
<1>16. CASE CallSucceeds \/ Mark
  BY <1>16 DEF CallSucceeds, Mark
<1>17. CASE RetryableError \/ StepError \/ UnexpectedError
  BY <1>17 DEF RetryableError, StepError, UnexpectedError
<1>18. CASE Classify \/ Unobservable \/ CleanupFails
  BY <1>18 DEF Classify, Unobservable, CleanupFails
<1>19. CASE StopOwnedTarget \/ End
  BY <1>19 DEF StopOwnedTarget, End
<1>20. CASE MarkRollingBack \/ EnsureRollback \/ FinishRollback \/ ReopenCreated
  BY <1>20 DEF MarkRollingBack, EnsureRollback, FinishRollback, ReopenCreated
<1>21. CASE Sweep
  BY <1>21 DEF Sweep, ReconcileSucceeded, ReconcileRolledBack, ReconcileCancelled, ResumeForward,
    ResumeRollback, CreateRollback, Unresolved
<1>22. CASE Crash
  BY <1>22 DEF Crash
<1>23. CASE RequestCancel
  BY <1>23 DEF RequestCancel
<1> QED BY <1>1, <1>2, <1>3, <1>4, <1>5, <1>6, <1>7, <1>8, <1>9, <1>10, <1>11, <1>12, <1>13,
  <1>14, <1>15, <1>16, <1>17, <1>18, <1>19, <1>20, <1>21, <1>22, <1>23 DEF Next, WorkerStep,
  Environment

-----------------------------------------------------------------------------
(* Source is stopped when nothing can reach it.                            *)

\* A snapshot is never newer than the rows, and one of their version shows what they say.
SnapshotTrue ==
  /\ gw.ver <= ver /\ load <= ver
  /\ gw.ver = ver => gw.active = route /\ gw.shared = shared
\* While the worker holds the locks, the version that it wants proven is the rows' version.
Proving == pc \in {"drain", "proof"} => want = ver /\ ~SourceRouted
\* From the proof to the call nothing leads to Source, and nobody uses it ...
AtStop == pc \in {"decide", "desire"} \/ (pc = "call" /\ cur = "STOP_SOURCE")
Unreached ==
  /\ route = "target" /\ ~shared
  /\ gw.active = "target" /\ ~gw.shared
  /\ unbound["source"] = 0 /\ infl["source"] = 0
\* ... and the call is made past the boundary.
Crossed == (pc = "desire" \/ (pc = "call" /\ cur = "STOP_SOURCE")) => "stopBoundary" \in marks
\* So was that of a stop which still goes on although its call has failed.
StopSource == [dep |-> "source", to |-> "stopped"]
LateCrossed == StopSource \in late => "stopBoundary" \in marks
StopInv == SnapshotTrue /\ Proving /\ (AtStop => Unreached) /\ Crossed /\ LateCrossed

\* Nobody moves a route while the worker is at a step that does not.
LEMMA RoutesStay ==
  ASSUME [Next]_vars, pc \notin {"idle", "body", "route"}
  PROVE  UNCHANGED routingVars
BY WhoMovesRoutes DEF ActivateTarget, ActivateSource, OperatorSetsRoute

\* Every step keeps snapshots true to the version they claim.
LEMMA SnapshotKept ==
  ASSUME TypeInv, SnapshotTrue, [Next]_vars
  PROVE  SnapshotTrue'
<1>0. /\ ver \in Nat /\ load \in Nat /\ gw.ver \in Nat /\ gw \in Snapshot
      /\ gw.ver <= ver /\ load <= ver
      /\ gw.ver = ver => gw.active = route /\ gw.shared = shared
  BY DEF TypeInv, TypeOK, RowType, GatewayType, Snapshot, SnapshotTrue
<1>1. CASE StartReload
  BY <1>0, <1>1 DEF StartReload, SnapshotTrue, routingVars
<1>2. CASE FinishReload
  <2>1. gw'.ver = load /\ gw'.active = route /\ gw'.shared = shared /\ load' = 0
    BY <1>2 DEF FinishReload
  <2>2. UNCHANGED <<route, shared, ver>>
    BY <1>2 DEF FinishReload, routingVars
  <2> QED BY <1>0, <2>1, <2>2 DEF SnapshotTrue
<1>3. CASE ActivateTarget \/ ActivateSource \/ OperatorSetsRoute
  <2>1. UNCHANGED <<gw, load>>
    BY <1>3 DEF ActivateTarget, ActivateSource, OperatorSetsRoute, OthersUnchanged, gatewayVars
  <2>2. ver' = ver + 1 \/ UNCHANGED <<route, shared, ver>>
    BY <1>3 DEF ActivateTarget, ActivateSource, OperatorSetsRoute, Bumped
  <2> QED BY <1>0, <2>1, <2>2 DEF SnapshotTrue
<1>4. CASE ~(StartReload \/ FinishReload \/ ActivateTarget \/ ActivateSource \/ OperatorSetsRoute)
  <2>1. UNCHANGED <<route, shared, ver>>
    BY <1>4, WhoMovesRoutes DEF routingVars
  <2>2. UNCHANGED <<gw, load>>
    BY <1>4, WhoMovesGateway DEF Admit, Bind, Release, gatewayVars
  <2> QED BY <1>0, <2>1, <2>2 DEF SnapshotTrue
<1> QED BY <1>1, <1>2, <1>3, <1>4

\* Nothing that the gateway does reaches a Source that no route leads to.
LEMMA UnreachedStays ==
  ASSUME TypeInv, Unreached, [Next]_vars, UNCHANGED routingVars
  PROVE  Unreached'
<1>0. /\ unbound \in [Deployments -> Nat] /\ infl \in [Deployments -> Nat] /\ route = "target"
      /\ ~shared
      /\ gw.active = "target" /\ ~gw.shared /\ unbound["source"] = 0 /\ infl["source"] = 0
      /\ UNCHANGED <<route, shared>>
  BY DEF TypeInv, TypeOK, GatewayType, Unreached, routingVars
<1>1. CASE StartReload
  BY <1>0, <1>1 DEF StartReload, Unreached
<1>2. CASE FinishReload
  BY <1>0, <1>2 DEF FinishReload, Unreached
<1>3. CASE Admit
  BY <1>0, <1>3 DEF Admit, Unreached
<1>4. CASE Bind
  BY <1>0, <1>4 DEF Bind, Unreached, Deployments
<1>5. CASE Release
  BY <1>0, <1>5 DEF Release, Unreached, Deployments
<1>6. CASE ~(StartReload \/ FinishReload \/ Admit \/ Bind \/ Release)
  <2>1. UNCHANGED gatewayVars
    BY <1>6, WhoMovesGateway
  <2> QED BY <1>0, <2>1 DEF gatewayVars, Unreached
<1> QED BY <1>1, <1>2, <1>3, <1>4, <1>5, <1>6

\* No step disturbs the proof under which Source is stopped.
LEMMA StopKept ==
  ASSUME PhaseInv, StopInv, [Next]_vars
  PROVE  StopInv'
<1>0. /\ TypeInv /\ PhaseOK /\ PhaseCur /\ SnapshotTrue /\ Proving /\ Crossed /\ LateCrossed
      /\ (AtStop => Unreached)
  BY DEF PhaseInv, TypeInv, StopInv
<1>1. SnapshotTrue'
  BY <1>0, SnapshotKept
<1>2. Proving'
  <2> SUFFICES ASSUME pc' \in {"drain", "proof"} PROVE want' = ver' /\ ~SourceRouted'
    BY DEF Proving
  <2>1. CASE UNCHANGED workerVars
    <3>1. UNCHANGED routingVars
      BY <2>1, RoutesStay DEF workerVars
    <3> QED BY <1>0, <2>1, <3>1 DEF Proving, SourceRouted, routingVars, workerVars
  <2>2. CASE StartProof
    BY <2>2 DEF StartProof, At, MustKeepSource, SourceRouted, routingVars
  <2> QED BY <2>1, <2>2, WhoEntersPhases
<1>3. AtStop' => Unreached'
  <2> SUFFICES ASSUME AtStop' PROVE Unreached'
    OBVIOUS
  <2>1. CASE AtStop
    <3>1. UNCHANGED routingVars
      BY <2>1, RoutesStay DEF AtStop
    <3> QED BY <1>0, <2>1, <3>1, UnreachedStays
  <2>2. CASE ~AtStop
    <3>1. SourceDrained /\ pc = "proof"
      BY <2>2, WhoEntersPhases DEF AtStop, DecideStop, WantSourceStopped, workerVars
    <3>2. Unreached
      <4>1. /\ want = ver /\ route # "source" /\ ~shared /\ gw.ver <= ver /\ ver \in Nat
            /\ gw.ver \in Nat
            /\ gw.ver = ver => gw.active = route /\ gw.shared = shared
        BY <1>0, <3>1 DEF Proving, SourceRouted, SnapshotTrue, TypeInv, TypeOK, RowType,
          GatewayType, Snapshot
      <4>2. /\ gw.ver >= want /\ gw.active = "target" /\ infl["source"] = 0
            /\ unbound["source"] = 0
        BY <3>1 DEF SourceDrained, DrainProven, Deployments
      <4>3. gw.ver = ver
        BY <4>1, <4>2
      <4> QED BY <4>1, <4>2, <4>3 DEF Unreached
    <3>3. UNCHANGED routingVars
      BY <3>1, RoutesStay
    <3> QED BY <1>0, <3>2, <3>3, UnreachedStays
  <2> QED BY <2>1, <2>2
<1>4. Crossed'
  <2>1. "stopBoundary" \in marks => "stopBoundary" \in marks'
    BY MemoryGrows
  <2>2. CASE UNCHANGED workerVars
    BY <1>0, <2>1, <2>2 DEF Crossed, workerVars
  <2>3. CASE ~UNCHANGED workerVars
    BY <1>0, <2>1, <2>3, WhoEntersPhases DEF Crossed, WantSourceStopped
  <2> QED BY <2>2, <2>3
<1>5. LateCrossed'
  <2> SUFFICES ASSUME StopSource \in late' PROVE "stopBoundary" \in marks'
    BY DEF LateCrossed, StopSource
  <2>1. CASE StopSource \in late
    BY <1>0, <2>1, MemoryGrows DEF LateCrossed
  <2>2. CASE StopSource \notin late
    <3>1. StopSource \in UnderWay
      BY <2>2, WhoIsLate
    <3>2. StopSource # StopTarget
      BY DEF StopSource, StopTarget
    <3>3. pc = "call" /\ StopSource = CommandOf[cur]
      BY <3>1, <3>2 DEF UnderWay
    <3>4. cur = "STOP_SOURCE"
      BY <1>0, <3>3 DEF PhaseOK, CommandOf, StopSource
    <3> QED BY <1>0, <3>3, <3>4, MemoryGrows DEF Crossed
  <2> QED BY <2>1, <2>2
<1> QED BY <1>1, <1>2, <1>3, <1>4, <1>5 DEF StopInv

\* So the proof holds in every state a run reaches.
LEMMA StopsProven == Spec => []StopInv
<1>1. Init => StopInv
  BY DEF Init, StopInv, SnapshotTrue, Proving, AtStop, Crossed, LateCrossed
<1>2. PhaseInv /\ StopInv /\ [Next]_vars => StopInv'
  BY StopKept
<1> QED BY <1>1, <1>2, PhasesKnown, PTL DEF Spec

\* Source goes down by STOP_SOURCE alone, past the committed boundary, and unless the stop
\* outlives the call that ordered it, when no alias, no snapshot and no request, bound or
\* not, can reach it any more (_step_stop_source and _evaluate_source_drain_observation):
\* the gateway has shown the version read under the locks, and until the call is answered
\* or given up nobody can move a route back.
THEOREM SourceStop == Spec => SourceStopProven
<1>1. ASSUME PhaseInv, StopInv, [Next]_vars, Runs("source"), ~Runs("source")'
      PROVE  /\ "stopBoundary" \in marks
             /\ ~LateEffect => /\ infl["source"] = 0 /\ unbound["source"] = 0
                               /\ ~shared /\ route # "source"
                               /\ ~gw.shared /\ gw.active # "source"
  <2>1. (pc = "call" /\ cur = "STOP_SOURCE") \/ LateStop("source")
    BY <1>1, SourceStops DEF PhaseInv
  <2>2. CASE pc = "call" /\ cur = "STOP_SOURCE"
    BY <1>1, <2>2 DEF StopInv, AtStop, Crossed, Unreached
  <2>3. CASE LateStop("source")
    BY <1>1, <2>3 DEF StopInv, LateCrossed, StopSource, LateStop
  <2> QED BY <2>1, <2>2, <2>3
<1> QED BY <1>1, PhasesKnown, StopsProven, PTL DEF Spec, SourceStopProven

-----------------------------------------------------------------------------
(* No alias leads to a model that does not run.                            *)

\* A step that moves the route comes after a probe that was passed ...
ProbedBefore ==
  /\ (pc \in {"body", "route"} /\ cur = "ACTIVATE_TARGET_ROUTE")
     => step["PROBE_TARGET"] = "SUCCEEDED"
  /\ (pc = "body" /\ cur = "HOT_ROLLBACK_ACTIVATE_SOURCE_ROUTE")
       => step["HOT_ROLLBACK_PROBE_SOURCE"] = "SUCCEEDED"
\* ... and until it is given up, what was probed runs.
TargetUp ==
  /\ (/\ status \in {"QUEUED", "RUNNING"} /\ ~cancel /\ step["PROBE_TARGET"] = "SUCCEEDED"
      /\ ~(pc = "fail" /\ "owned" \in marks))
       => Runs("target")
  /\ pc = "route" => Runs("target")
\* Before the boundary mark the switch has moved no route, and before that nobody else
\* has brought the alias to Target; so a cleanup stops no Target that somebody is led to.
BoundaryFirst == (routeVer # 0 \/ pc = "route") => "routeBoundary" \in marks
TargetUnrouted == route # "target" /\ gw.active # "target"
NotEarly    == (routeVer = 0 /\ status \in {"QUEUED", "RUNNING"}) => TargetUnrouted
CleanupSafe == pc \in DOMAIN Cleanup => TargetUnrouted
SharedRuns  == shared => Runs("source")
RoutedRuns  == route \in Deployments => Runs(route)
AppliedRuns ==
  /\ gw.active \in Deployments => Runs(gw.active)
  /\ gw.shared => Runs("source")
ServeInv == OnTime => /\ ProbedBefore /\ TargetUp /\ NotEarly /\ CleanupSafe
                     /\ SharedRuns /\ RoutedRuns /\ AppliedRuns

\* A route that was moved has its boundary committed.
LEMMA BoundaryKept == ASSUME PhaseInv, BoundaryFirst, [Next]_vars PROVE BoundaryFirst'
<1>0. marks \subseteq marks'
  BY MemoryGrows
<1>1. ASSUME pc' = "route" PROVE "routeBoundary" \in marks'
  BY <1>0, <1>1, WhoEntersPhases DEF BoundaryFirst, workerVars
<1>2. ASSUME routeVer' # 0 PROVE "routeBoundary" \in marks'
  <2>1. CASE routeVer' = routeVer
    BY <1>0, <1>2, <2>1 DEF BoundaryFirst
  <2>2. CASE routeVer' # routeVer
    <3>1. ActivateTarget
      BY <2>2, WhoMovesRoutes DEF ActivateSource, OperatorSetsRoute, StepUnchanged, operationVars
    <3> QED BY <1>0, <3>1 DEF ActivateTarget, BoundaryFirst
  <2> QED BY <2>1, <2>2
<1> QED BY <1>1, <1>2 DEF BoundaryFirst

\* Where the probes stand in their sequences.
LEMMA ProbePlaces ==
  /\ \A i \in DOMAIN Forward : /\ Forward[i] \in ForwardSteps
                               /\ Forward[i] = "ACTIVATE_TARGET_ROUTE" => i = 7
  /\ \A i \in DOMAIN Back : /\ Back[i] \in BackSteps
                            /\ Back[i] = "HOT_ROLLBACK_ACTIVATE_SOURCE_ROUTE" => i = 5
  /\ Forward[6] = "PROBE_TARGET" /\ Back[4] = "HOT_ROLLBACK_PROBE_SOURCE"
  /\ "PROBE_TARGET" \in (ForwardSteps \cap Steps) \ PostRoute
  /\ "HOT_ROLLBACK_PROBE_SOURCE" \in BackSteps \ PostRoute
  /\ "ACTIVATE_TARGET_ROUTE" \in ForwardSteps /\ "HOT_ROLLBACK_ACTIVATE_SOURCE_ROUTE" \in BackSteps
<1>1. DOMAIN Forward = 1 .. 12 /\ DOMAIN Back = 1 .. 7
  BY DEF Forward, Back
<1>2. ASSUME NEW i \in 1 .. 12 PROVE Forward[i] = "ACTIVATE_TARGET_ROUTE" => i = 7
  BY DEF Forward
<1>3. ASSUME NEW i \in 1 .. 7 PROVE Back[i] = "HOT_ROLLBACK_ACTIVATE_SOURCE_ROUTE" => i = 5
  BY DEF Back
<1>4. Forward[6] = "PROBE_TARGET" /\ Back[4] = "HOT_ROLLBACK_PROBE_SOURCE"
  BY DEF Forward, Back
<1>5. /\ "PROBE_TARGET" \in (ForwardSteps \cap Steps) \ PostRoute
      /\ "HOT_ROLLBACK_PROBE_SOURCE" \in BackSteps \ PostRoute
      /\ "ACTIVATE_TARGET_ROUTE" \in ForwardSteps
      /\ "HOT_ROLLBACK_ACTIVATE_SOURCE_ROUTE" \in BackSteps
  BY DEF Steps, ForwardSteps, Forward, BackSteps, Back, PostRoute, Retirement
<1> QED BY <1>1, <1>2, <1>3, <1>4, <1>5 DEF ForwardSteps, BackSteps

\* What precedes the step that a loop takes was left behind, and by no failure that the
\* history does not name.
LEMMA LeftBehind ==
  ASSUME NEW sequence, NEW i, NEW k \in 1 .. i - 1, Begin(sequence, i), OnTime'
  PROVE  step[sequence[k]] \notin {"PENDING", "RUNNING"} /\ ~PassedOver(sequence[k])
<1>1. "failed step skipped" \notin anomaly'
  BY DEF OnTime
<1>2. (\E j \in 1 .. i - 1 : PassedOver(sequence[j])) => "failed step skipped" \in anomaly'
  BY DEF Begin
<1> QED BY <1>1, <1>2 DEF Begin

\* A step row that its loop has passed is SUCCEEDED, or the history remembers it.
LEMMA ProbedKept ==
  ASSUME PhaseInv, RollbackInv, ProbedBefore, OnTime', [Next]_vars
  PROVE  ProbedBefore'
<1>0. /\ PhaseCur /\ PhaseStatus /\ NotSkipped
      /\ step \in [Steps -> {"ABSENT", "PENDING", "RUNNING", "SUCCEEDED", "FAILED", "SKIPPED"}]
  BY DEF PhaseInv, TypeInv, TypeOK, OperationType, RollbackInv
<1>1. CASE UNCHANGED workerVars /\ pc \in {"body", "route"} /\ cur \in Steps
  <2>1. ASSUME NEW s \in Steps \ PostRoute, step[s] = "SUCCEEDED", cur # s
        PROVE  step'[s] = "SUCCEEDED"
    BY <2>1, WhoWritesSteps DEF StepWritten, AtStep, Begun, Skipped, SettledAs, Created, Reopened
  <2> QED BY <1>1, <2>1, ProbePlaces, StepNames DEF ProbedBefore, workerVars
<1>2. CASE BeginStep
  <2>1. pc' = "body"
    BY <1>2 DEF BeginStep, Begin
  <2>2. ASSUME cur' = "ACTIVATE_TARGET_ROUTE" PROVE step'["PROBE_TARGET"] = "SUCCEEDED"
    <3>1. pc = "next" /\ \E i \in DOMAIN Forward : Begin(Forward, i)
      BY <1>2, <2>2, ProbePlaces, StepNames DEF BeginStep, Begin
    <3>2. PICK i \in DOMAIN Forward : Begin(Forward, i)
      BY <3>1
    <3>3. i = 7 /\ Forward[6] = "PROBE_TARGET" /\ 6 \in 1 .. i - 1
      <4>1. Forward[i] = cur'
        BY <3>2 DEF Begin
      <4>2. i = 7
        BY <2>2, <3>2, <4>1, ProbePlaces
      <4> QED BY <4>2, ProbePlaces
    <3>4. step["PROBE_TARGET"] \notin {"PENDING", "RUNNING"} /\ ~PassedOver("PROBE_TARGET")
      BY <3>2, <3>3, LeftBehind
    <3>5. step["PROBE_TARGET"] \notin {"SKIPPED", "ABSENT", "FAILED"}
      BY <1>0, <3>1, <3>4, ProbePlaces DEF PhaseStatus, InForward, NotSkipped, PassedOver
    <3>6. "PROBE_TARGET" \in Steps /\ step'["PROBE_TARGET"] = step["PROBE_TARGET"]
      BY <1>0, <2>2, <3>2, ProbePlaces DEF Begin
    <3> QED BY <1>0, <3>4, <3>5, <3>6
  <2>3. ASSUME cur' = "HOT_ROLLBACK_ACTIVATE_SOURCE_ROUTE"
        PROVE  step'["HOT_ROLLBACK_PROBE_SOURCE"] = "SUCCEEDED"
    <3>1. pc = "backnext" /\ \E i \in DOMAIN Back : Begin(Back, i)
      BY <1>2, <2>3, ProbePlaces, StepNames DEF BeginStep, Begin
    <3>2. PICK i \in DOMAIN Back : Begin(Back, i)
      BY <3>1
    <3>3. i = 5 /\ Back[4] = "HOT_ROLLBACK_PROBE_SOURCE" /\ 4 \in 1 .. i - 1
      <4>1. Back[i] = cur'
        BY <3>2 DEF Begin
      <4>2. i = 5
        BY <2>3, <3>2, <4>1, ProbePlaces
      <4> QED BY <4>2, ProbePlaces
    <3>4. /\ step["HOT_ROLLBACK_PROBE_SOURCE"] \notin {"PENDING", "RUNNING"}
          /\ ~PassedOver("HOT_ROLLBACK_PROBE_SOURCE")
      BY <3>2, <3>3, LeftBehind
    <3>5. "HOT_ROLLBACK_PROBE_SOURCE" \in BackSteps
      BY ProbePlaces
    <3>6. step["HOT_ROLLBACK_PROBE_SOURCE"] \notin {"SKIPPED", "ABSENT", "FAILED"}
      BY <1>0, <3>1, <3>4, <3>5, ProbePlaces DEF PhaseStatus, InBack, NotSkipped, PassedOver
    <3>7. /\ "HOT_ROLLBACK_PROBE_SOURCE" \in Steps
          /\ step'["HOT_ROLLBACK_PROBE_SOURCE"] = step["HOT_ROLLBACK_PROBE_SOURCE"]
      BY <1>0, <2>3, <3>2, <3>5, StepNames DEF Begin
    <3> QED BY <1>0, <3>4, <3>6, <3>7
  <2> QED BY <2>1, <2>2, <2>3 DEF ProbedBefore
<1>3. CASE DecideRoute
  <2>1. cur = "ACTIVATE_TARGET_ROUTE" /\ pc = "body" /\ pc' # "body" /\ cur' = cur /\ step' = step
    BY <1>3 DEF DecideRoute, Decide, At, AfterCancel
  <2> QED BY <2>1 DEF ProbedBefore
<1>4. ASSUME pc' \in {"body", "route"} PROVE BeginStep \/ DecideRoute \/ UNCHANGED workerVars
  BY <1>4, WhoEntersPhases
<1>5. CASE pc' \notin {"body", "route"}
  BY <1>5 DEF ProbedBefore
<1>6. ASSUME UNCHANGED workerVars, pc' \in {"body", "route"}
      PROVE pc \in {"body", "route"} /\ cur \in Steps
  BY <1>0, <1>6 DEF workerVars, PhaseCur, BodyPhases
<1> QED BY <1>1, <1>2, <1>3, <1>4, <1>5, <1>6

\* The snapshot changes by a reload alone.
LEMMA WhoAppliesRoutes == ASSUME [Next]_vars, ~FinishReload PROVE gw' = gw
<1>1. CASE StartReload \/ Admit \/ Bind \/ Release
  BY <1>1 DEF StartReload, Admit, Bind, Release
<1>2. CASE ~(StartReload \/ Admit \/ Bind \/ Release)
  BY <1>2, WhoMovesGateway DEF gatewayVars
<1> QED BY <1>1, <1>2

\* A failed cleanup is followed by its ending, or by a crash.
LEMMA WhoLeavesFail ==
  ASSUME [Next]_vars, pc = "fail", pc' # "fail"
  PROVE  End \/ Crash
<1>1. CASE UNCHANGED vars \/ Environment
  BY <1>1, EnvironmentWaits DEF vars, workerVars
<1>2. CASE Claim \/ RecoverStale \/ CloseJob \/ RequestCancel
  BY <1>2 DEF Claim, RecoverStale, CloseJob, OperationOver, RequestCancel, workerVars
<1>3. CASE Resume \/ ObserveCancel \/ SourceDrained \/ CancelWhileDraining \/ StepFailed \/
  CancelBeforeRoute \/ BeginStep \/ Succeed
  BY <1>3 DEF Resume, ObserveCancel, SourceDrained, CancelWhileDraining, StepFailed,
    CancelBeforeRoute, BeginStep, Succeed
<1>4. CASE CheckPasses \/ CheckFails \/ RouteConflict \/ CallRefused \/ WaitSatisfied
         \/ WaitTimesOut
           \/ DecideRoute \/ DecideStop
  BY <1>4 DEF CheckPasses, CheckFails, RouteConflict, CallRefused, WaitSatisfied, WaitTimesOut,
    DecideRoute, DecideStop
<1>5. CASE ActivateTarget \/ ActivateSource \/ Commit \/ StartWait \/ StartTarget \/ StartProof
         \/ KeepSource
  BY <1>5 DEF ActivateTarget, ActivateSource, Commit, StartWait, StartTarget, StartProof, KeepSource
<1>6. CASE NothingToStop \/ WantSourceStopped \/ StartSource \/ CallSucceeds \/ Mark
  BY <1>6 DEF NothingToStop, WantSourceStopped, StartSource, CallSucceeds, Mark
<1>7. CASE RetryableError \/ StepError \/ UnexpectedError \/ Classify \/ Unobservable
  BY <1>7 DEF RetryableError, StepError, UnexpectedError, Classify, Unobservable, Calling
<1>8. CASE CleanupFails \/ StopOwnedTarget
  BY <1>8 DEF CleanupFails, StopOwnedTarget, Cleanup
<1>9. CASE MarkRollingBack \/ EnsureRollback \/ FinishRollback \/ ReopenCreated
  BY <1>9 DEF MarkRollingBack, EnsureRollback, FinishRollback, ReopenCreated
<1>10. CASE Sweep
  BY <1>10 DEF Sweep, ReconcileSucceeded, ReconcileRolledBack, ReconcileCancelled, ResumeForward,
    ResumeRollback, CreateRollback, Unresolved, Sweeping
<1> QED BY <1>1, <1>2, <1>3, <1>4, <1>5, <1>6, <1>7, <1>8, <1>9, <1>10 DEF Next, WorkerStep,
    Environment

\* A container that somebody is routed to is stopped by nobody in time.
LEMMA RoutedKeepsRunning ==
  ASSUME TypeInv, StopInv, CleanupSafe, OnTime', [Next]_vars
  PROVE  /\ (Runs("source") /\ (route = "source" \/ shared \/ gw.active = "source" \/ gw.shared))
              => Runs("source")'
         /\ (Runs("target") /\ (route = "target" \/ gw.active = "target")) => Runs("target")'
<1>1. ASSUME Runs("source"), ~Runs("source")' PROVE Unreached
  BY <1>1, SourceStops DEF StopInv, AtStop, LateStop
<1>2. ASSUME Runs("target"), ~Runs("target")' PROVE TargetUnrouted
  BY <1>2, TargetStops DEF TargetExits, CleanupSafe, TargetUnrouted, LateStop
<1> QED BY <1>1, <1>2 DEF Unreached, TargetUnrouted

\* Target stays up from its probe to the route.
LEMMA TargetUpKept ==
  ASSUME PhaseInv, RollbackInv, ProbedBefore, TargetUp, OnTime', [Next]_vars
  PROVE  TargetUp'
<1>0. TypeInv /\ PhaseCur /\ PhaseStatus /\ BackNeedsCancel
  BY DEF PhaseInv, RollbackInv
<1>1. ASSUME status' \in {"QUEUED", "RUNNING"}, ~cancel', step'["PROBE_TARGET"] = "SUCCEEDED",
             ~(pc' = "fail" /\ "owned" \in marks')
      PROVE  Runs("target")'
  <2>0. ~cancel /\ marks \subseteq marks'
    BY <1>1, MemoryGrows
  <2>1. CASE step["PROBE_TARGET"] # "SUCCEEDED"
    <3>1. CheckPasses /\ cur = "PROBE_TARGET"
      BY <1>1, <2>1, ProbePlaces, WhoWritesSteps
         DEF StepWritten, AtStep, Begun, Skipped, SettledAs, Created, Reopened, CheckSteps,
           RemoteChecks, HealthOf
    <3>2. Healthy("target") /\ cont' = cont
      BY <3>1 DEF CheckPasses, Ready, HealthOf, ForwardSteps, Forward
    <3> QED BY <3>2 DEF Healthy, Runs
  <2>2. CASE step["PROBE_TARGET"] = "SUCCEEDED" /\ status \notin {"QUEUED", "RUNNING"}
    <3>1. ResumeForward
      BY <1>1, <2>2, WhoMovesStatus
    <3>2. Runs("target") /\ cont' = cont
      BY <3>1 DEF ResumeForward, Retirable, Finishing, Proven, Deployments
    <3> QED BY <3>2 DEF Runs
  <2>3. CASE step["PROBE_TARGET"] = "SUCCEEDED" /\ status \in {"QUEUED", "RUNNING"}
    <3>1. CASE pc = "fail" /\ "owned" \in marks
      <4>1. End \/ Crash
        BY <1>1, <2>0, <3>1, WhoLeavesFail
      <4>2. ~End
        BY <1>1, <3>1 DEF End, Ending
      <4>3. ~Crash
        BY <3>1 DEF Crash, OnTime
      <4> QED BY <4>1, <4>2, <4>3
    <3>2. CASE ~(pc = "fail" /\ "owned" \in marks)
      <4>1. Runs("target")
        BY <2>0, <2>3, <3>2 DEF TargetUp
      <4> SUFFICES ASSUME ~Runs("target")' PROVE FALSE
        OBVIOUS
      <4>2. ~TargetExits
        BY <2>3 DEF TargetExits
      <4>3. pc \in DOMAIN Cleanup /\ "owned" \in marks /\ (pc' = Cleanup[pc] \/ Crash)
        BY <1>0, <4>1, <4>2, TargetStops DEF LateStop
      <4>4. pc = "failcleanup"
        BY <1>0, <2>0, <4>3 DEF BackNeedsCancel, CancelPhases, Cleanup
      <4>5. ~Crash
        BY <4>3, <4>4 DEF Crash, OnTime
      <4> QED BY <1>1, <2>0, <4>3, <4>4, <4>5 DEF Cleanup
    <3> QED BY <3>1, <3>2
  <2> QED BY <2>1, <2>2, <2>3
<1>2. ASSUME pc' = "route" PROVE Runs("target")'
  <2>1. CASE UNCHANGED workerVars
    <3>1. Runs("target") /\ step["PROBE_TARGET"] = "SUCCEEDED"
      BY <1>0, <1>2, <2>1 DEF TargetUp, ProbedBefore, PhaseCur, workerVars
    <3> QED BY <1>0, <1>2, <2>1, <3>1, TargetStops DEF TargetExits, Cleanup, LateStop, workerVars
  <2>2. CASE ~UNCHANGED workerVars
    <3>1. DecideRoute /\ ~cancel
      BY <1>2, <2>2, WhoEntersPhases
    <3>2. status = "RUNNING" /\ step["PROBE_TARGET"] = "SUCCEEDED" /\ pc = "body"
      BY <1>0, <3>1, ProbePlaces DEF DecideRoute, ProbedBefore, PhaseStatus, InForward, BodyPhases
    <3>3. Runs("target")
      BY <3>1, <3>2 DEF TargetUp
    <3>4. cont' = cont
      BY <3>1 DEF DecideRoute, Decide
    <3> QED BY <3>3, <3>4 DEF Runs
  <2> QED BY <2>1, <2>2
<1> QED BY <1>1, <1>2 DEF TargetUp

\* No route leads to Target before its probe.
LEMMA NotEarlyKept ==
  ASSUME PhaseInv, NotEarly, OnTime', [Next]_vars
  PROVE  NotEarly'
<1> SUFFICES ASSUME routeVer' = 0, status' \in {"QUEUED", "RUNNING"} PROVE TargetUnrouted'
  BY DEF NotEarly
<1>1. routeVer = 0
  <2>1. CASE ActivateTarget
    <3>1. ver + 1 # 0
      BY VersionTyped DEF PhaseInv, TypeInv, TypeOK, RowType
    <3> QED BY <2>1, <3>1 DEF ActivateTarget, Bumped
  <2>2. CASE ~ActivateTarget
    BY <2>2, WhoMovesRoutes DEF ActivateSource, OperatorSetsRoute, StepUnchanged, operationVars
  <2> QED BY <2>1, <2>2
<1>2. status \in {"QUEUED", "RUNNING"}
  <2>1. ~ResumeForward
    BY <1>1 DEF ResumeForward, Retirable, Finishing, Proven, RouteProven
  <2> QED BY <2>1, WhoMovesStatus
<1>3. TargetUnrouted
  BY <1>1, <1>2 DEF NotEarly
<1>4. route' # "target"
  <2>1. CASE ActivateTarget
    <3>1. ver + 1 # 0
      BY DEF PhaseInv, TypeInv, TypeOK, RowType
    <3> QED BY <1>1, <1>3, <2>1, <3>1 DEF ActivateTarget, Bumped, TargetUnrouted
  <2>2. CASE ActivateSource
    BY <1>3, <2>2 DEF ActivateSource, TargetUnrouted
  <2>3. CASE OperatorSetsRoute
    <3>1. ASSUME route' = "target" PROVE FALSE
      <4>1. "target routed early" \in anomaly'
        BY <1>1, <1>2, <1>3, <2>3, <3>1 DEF OperatorSetsRoute, RoutedBy, TargetUnrouted
      <4> QED BY <4>1 DEF OnTime
    <3> QED BY <3>1
  <2>4. CASE ~(ActivateTarget \/ ActivateSource \/ OperatorSetsRoute)
    BY <1>3, <2>4, WhoMovesRoutes DEF TargetUnrouted, routingVars
  <2> QED BY <2>1, <2>2, <2>3, <2>4
<1>5. gw'.active # "target"
  <2>1. CASE FinishReload
    BY <1>3, <2>1 DEF FinishReload, TargetUnrouted
  <2>2. CASE ~FinishReload
    BY <1>3, <2>2, WhoAppliesRoutes DEF TargetUnrouted
  <2> QED BY <2>1, <2>2
<1> QED BY <1>4, <1>5 DEF TargetUnrouted

\* A cleanup finds Target unrouted.
LEMMA CleanupSafeKept ==
  ASSUME PhaseInv, BoundaryFirst, NotEarly, CleanupSafe, [Next]_vars
  PROVE  CleanupSafe'
<1>0. PhaseStatus
  BY DEF PhaseInv
<1> SUFFICES ASSUME pc' \in DOMAIN Cleanup PROVE TargetUnrouted'
  BY DEF CleanupSafe
<1>1. CASE UNCHANGED workerVars
  <2>1. pc \in DOMAIN Cleanup /\ TargetUnrouted
    BY <1>1 DEF workerVars, CleanupSafe
  <2>2. route' = route
    BY <2>1, RoutesStay DEF Cleanup, routingVars
  <2>3. gw' = gw \/ gw'.active = route
    BY WhoAppliesRoutes DEF FinishReload
  <2> QED BY <2>1, <2>2, <2>3 DEF TargetUnrouted
<1>2. CASE ~UNCHANGED workerVars
  <2>1. UnexpectedError \/ StepFailed \/ Classify \/ CancelBeforeRoute \/ ReconcileCancelled
    BY <1>2, WhoEntersPhases
  <2>2. UNCHANGED <<route, gw>>
    BY <2>1 DEF UnexpectedError, StepFailed, Classify, CancelBeforeRoute, ReconcileCancelled,
      RowsUnchanged, OthersUnchanged, routingVars, gatewayVars
  <2>3. TargetUnrouted
    <3>1. CASE UnexpectedError
      <4>1. ~RouteMayHaveMoved
        BY <3>1 DEF UnexpectedError, At, Cleanup
      <4>2. routeVer = 0 /\ status = "RUNNING"
        BY <1>0, <3>1, <4>1 DEF UnexpectedError, RouteMayHaveMoved, RouteMoveRecorded,
          PhaseStatus, InForward
      <4> QED BY <4>2 DEF NotEarly
    <3>2. CASE StepFailed
      <4>1. "routeBoundary" \notin marks
        BY <3>2 DEF StepFailed, At, Cleanup
      <4>2. routeVer = 0 /\ status = "RUNNING"
        BY <1>0, <3>2, <4>1 DEF StepFailed, BoundaryFirst, PhaseStatus, Endings
      <4> QED BY <4>2 DEF NotEarly
    <3>3. CASE Classify \/ CancelBeforeRoute \/ ReconcileCancelled
      <4>1. SourceServes
        BY <3>3 DEF Classify, CancelBeforeRoute, ReconcileCancelled, Cancellable, At, Cleanup
      <4> QED BY <4>1 DEF SourceServes, TargetUnrouted
    <3> QED BY <2>1, <3>1, <3>2, <3>3
  <2> QED BY <2>2, <2>3 DEF TargetUnrouted
<1> QED BY <1>1, <1>2

\* A route is set only to a model that runs, or the history remembers it.
LEMMA OperatorRoutesRunning ==
  ASSUME OperatorSetsRoute, OnTime'
  PROVE  /\ (route' # route /\ route' \in Deployments) => Runs(route')
         /\ (shared' # shared /\ shared') => Runs("source")
         /\ cont' = cont
<1>1. "dead model routed" \notin anomaly'
  BY DEF OnTime
<1>2. CASE \E r \in Routes \ {route} :
             route' = r /\ UNCHANGED shared /\ RoutedBy(r \in Deployments /\ ~Runs(r),
               r = "target" /\ routeVer = 0 /\ status \in {"QUEUED", "RUNNING"})
  <2>1. route' \in Deployments => Runs(route')
    BY <1>1, <1>2 DEF RoutedBy
  <2> QED BY <1>2, <2>1 DEF OperatorSetsRoute
<1>3. CASE UNCHANGED route /\ RoutedBy(shared' /\ ~Runs("source"), FALSE)
  <2>1. shared' => Runs("source")
    BY <1>1, <1>3 DEF RoutedBy
  <2> QED BY <1>3, <2>1 DEF OperatorSetsRoute
<1> QED BY <1>2, <1>3 DEF OperatorSetsRoute

\* What a row or a snapshot leads to keeps running.
LEMMA RoutesRunKept ==
  ASSUME PhaseInv, RollbackInv, StopInv, OnTime', [Next]_vars,
         ProbedBefore, TargetUp, CleanupSafe, SharedRuns, RoutedRuns, AppliedRuns
  PROVE  SharedRuns' /\ RoutedRuns' /\ AppliedRuns'
<1>0. TypeInv /\ PhaseCur /\ SourceUp
  BY DEF PhaseInv, RollbackInv
<1>1. SharedRuns'
  <2> SUFFICES ASSUME shared' PROVE Runs("source")'
    BY DEF SharedRuns
  <2>1. CASE shared' = shared
    BY <1>0, <2>1, RoutedKeepsRunning DEF SharedRuns
  <2>2. CASE shared' # shared
    <3>1. OperatorSetsRoute
      BY <2>2, WhoMovesRoutes DEF ActivateTarget, ActivateSource, routingVars
    <3> QED BY <2>2, <3>1, OperatorRoutesRunning DEF Runs
  <2> QED BY <2>1, <2>2
<1>2. RoutedRuns'
  <2> SUFFICES ASSUME route' \in Deployments PROVE cont'[route'] = "running"
    BY DEF RoutedRuns, Runs
  <2>1. CASE route' = route
    BY <1>0, <2>1, RoutedKeepsRunning DEF RoutedRuns, Deployments, Runs
  <2>2. CASE route' # route
    <3>1. CASE ActivateTarget
      BY <2>2, <3>1 DEF ActivateTarget, TargetUp, Runs
    <3>2. CASE ActivateSource
      <4>1. route' = "source" /\ cont' = cont /\ Runs("source")
        BY <1>0, <2>2, <3>2, MemoryGrows DEF ActivateSource, ProbedBefore, SourceUp
      <4> QED BY <4>1 DEF Runs
    <3>3. CASE OperatorSetsRoute
      BY <2>2, <3>3, OperatorRoutesRunning DEF Runs
    <3> QED BY <2>2, <3>1, <3>2, <3>3, WhoMovesRoutes DEF routingVars
  <2> QED BY <2>1, <2>2
<1>3. AppliedRuns'
  <2>1. CASE FinishReload
    <3>1. gw'.active = route /\ gw'.shared = shared /\ cont' = cont
      BY <2>1 DEF FinishReload
    <3> QED BY <3>1 DEF AppliedRuns, RoutedRuns, SharedRuns, Runs
  <2>2. CASE ~FinishReload
    <3>1. gw' = gw
      BY <2>2, WhoAppliesRoutes
    <3> QED BY <1>0, <3>1, RoutedKeepsRunning DEF AppliedRuns, Deployments, Runs
  <2> QED BY <2>1, <2>2
<1> QED BY <1>1, <1>2, <1>3

\* The three invariants together, in every state a run reaches.
LEMMA ServingHolds == Spec => [](RollbackInv /\ BoundaryFirst /\ ServeInv)
<1>1. Init => RollbackInv /\ BoundaryFirst /\ ServeInv
  <2> SUFFICES ASSUME Init PROVE RollbackInv /\ BoundaryFirst /\ ServeInv
    OBVIOUS
  <2>1. /\ step["PROBE_TARGET"] = "PENDING"
        /\ \A s \in BackSteps : step[s] = "ABSENT"
    BY StepNames, ProbePlaces DEF Init
  <2>2. RollbackInv
    BY <2>1, ProbePlaces DEF Init, RollbackInv, BackNeedsCancel, CancelPhases, ForwardFirst,
      NotSkipped, InBack, BodyPhases, SourceUp
  <2>3. BoundaryFirst
    BY DEF Init, BoundaryFirst
  <2>4. /\ ProbedBefore /\ TargetUp /\ NotEarly /\ CleanupSafe
        /\ SharedRuns /\ RoutedRuns /\ AppliedRuns
    BY <2>1 DEF Init, ProbedBefore, TargetUp, NotEarly, TargetUnrouted, CleanupSafe, Cleanup,
      SharedRuns, RoutedRuns, AppliedRuns, Runs
  <2> QED BY <2>2, <2>3, <2>4 DEF ServeInv
<1>2. PhaseInv /\ StopInv /\ RollbackInv /\ BoundaryFirst /\ ServeInv /\ [Next]_vars
        => (RollbackInv /\ BoundaryFirst /\ ServeInv)'
  <2> SUFFICES ASSUME PhaseInv, StopInv, RollbackInv, BoundaryFirst, ServeInv, [Next]_vars
               PROVE  RollbackInv' /\ BoundaryFirst' /\ ServeInv'
    OBVIOUS
  <2>1. RollbackInv' /\ BoundaryFirst'
    BY RollbackKept, BoundaryKept
  <2>2. ASSUME OnTime'
        PROVE  /\ ProbedBefore' /\ TargetUp' /\ NotEarly' /\ CleanupSafe'
               /\ SharedRuns' /\ RoutedRuns' /\ AppliedRuns'
    <3>1. OnTime
      BY <2>2, MemoryGrows
    <3>2. /\ ProbedBefore /\ TargetUp /\ NotEarly /\ CleanupSafe
          /\ SharedRuns /\ RoutedRuns /\ AppliedRuns
      BY <3>1 DEF ServeInv
    <3>3. ProbedBefore' /\ TargetUp'
      BY <2>2, <3>2, ProbedKept, TargetUpKept
    <3>4. NotEarly' /\ CleanupSafe'
      BY <2>2, <3>2, NotEarlyKept, CleanupSafeKept
    <3>5. SharedRuns' /\ RoutedRuns' /\ AppliedRuns'
      BY <2>2, <3>2, RoutesRunKept
    <3> QED BY <3>3, <3>4, <3>5
  <2> QED BY <2>1, <2>2 DEF ServeInv
<1> QED BY <1>1, <1>2, PhasesKnown, StopsProven, PTL DEF Spec

\* No alias, in the rows or in the gateway's snapshot, leads to a container that does not
\* run: the route goes to Target after a probe that nothing has undone, back to Source
\* after its own probe, Source is stopped once nothing leads to it, and a cleanup stops a
\* Target that nothing leads to, whatever retries, crashes and sweeps come between; a start
\* that comes late breaks none of it, and a stop that does is excepted (OnTime).
THEOREM ServedRun == Spec => []ServedModelsRun
<1>1. ServeInv => ServedModelsRun
  BY DEF ServeInv, ServedModelsRun, SharedRuns, RoutedRuns, AppliedRuns
<1> QED BY <1>1, ServingHolds, PTL

-----------------------------------------------------------------------------
(* What each ending leaves behind: who writes the wishes, marks and rows.  *)

\* Who says which deployment is wanted.
LEMMA WhoWants ==
  ASSUME [Next]_vars, desired' # desired
  PROVE  \/ Succeed \/ CheckPasses \/ NothingToStop \/ WantSourceStopped \/ StartSource
         \/ Mark \/ Classify \/ ReconcileSucceeded \/ ReconcileRolledBack
         \/ (RetryableError \/ StepError) /\ cur = "HOT_ROLLBACK_START_SOURCE"
<1> USE DEF deployVars, RowsUnchanged
<1>1. CASE UNCHANGED vars
  BY <1>1 DEF vars
<1>2. CASE Environment
  BY <1>2 DEF Environment, LateEffect, OperatorSetsRoute, TargetExits, StartReload, FinishReload,
    Admit, Bind, Release
<1>3. CASE Claim \/ RecoverStale \/ CloseJob
  BY <1>3 DEF Claim, RecoverStale, CloseJob
<1>4. CASE Resume \/ ObserveCancel \/ StepFailed \/ CancelBeforeRoute
  BY <1>4 DEF Resume, ObserveCancel, StepFailed, CancelBeforeRoute
<1>5. CASE SourceDrained \/ CancelWhileDraining
  BY <1>5 DEF SourceDrained, CancelWhileDraining
<1>6. CASE BeginStep
  BY <1>6 DEF BeginStep
<1>7. CASE Succeed
  BY <1>7 DEF Succeed
<1>8. CASE CheckPasses
  BY <1>8 DEF CheckPasses
<1>9. CASE CheckFails \/ RouteConflict \/ CallRefused \/ WaitSatisfied \/ WaitTimesOut
  BY <1>9 DEF CheckFails, RouteConflict, CallRefused, WaitSatisfied, WaitTimesOut
<1>10. CASE DecideRoute \/ DecideStop
  BY <1>10 DEF DecideRoute, DecideStop, Decide
<1>11. CASE ActivateTarget \/ ActivateSource
  BY <1>11 DEF ActivateTarget, ActivateSource
<1>12. CASE Commit \/ StartWait
  BY <1>12 DEF Commit, StartWait
<1>13. CASE StartTarget \/ StartProof \/ KeepSource
  BY <1>13 DEF StartTarget, StartProof, KeepSource
<1>14. CASE NothingToStop \/ WantSourceStopped \/ StartSource
  BY <1>14 DEF NothingToStop, WantSourceStopped, StartSource
<1>15. CASE CallSucceeds \/ Mark
  BY <1>15 DEF CallSucceeds, Mark
<1>16. CASE RetryableError \/ StepError \/ UnexpectedError
  BY <1>16 DEF RetryableError, StepError, UnexpectedError, WantedByCall
<1>17. CASE Classify \/ Unobservable \/ CleanupFails
  BY <1>17 DEF Classify, Unobservable, CleanupFails
<1>18. CASE StopOwnedTarget \/ End
  BY <1>18 DEF StopOwnedTarget, End
<1>19. CASE MarkRollingBack \/ EnsureRollback \/ FinishRollback \/ ReopenCreated
  BY <1>19 DEF MarkRollingBack, EnsureRollback, FinishRollback, ReopenCreated
<1>20. CASE Sweep
  BY <1>20 DEF Sweep, ReconcileSucceeded, ReconcileRolledBack, ReconcileCancelled,
    ResumeForward, ResumeRollback, CreateRollback, Unresolved
<1>21. CASE Crash
  BY <1>21 DEF Crash
<1>22. CASE RequestCancel
  BY <1>22 DEF RequestCancel
<1> QED BY <1>1, <1>2, <1>3, <1>4, <1>5, <1>6, <1>7, <1>8, <1>9, <1>10, <1>11, <1>12, <1>13,
  <1>14, <1>15, <1>16, <1>17, <1>18, <1>19, <1>20, <1>21, <1>22
  DEF Next, WorkerStep, Environment

\* The marks but those of START_TARGET and PREFLIGHT, each by its step.
Marked ==
  \/ DecideRoute /\ ~cancel /\ marks' = marks \cup {"routeBoundary"}
  \/ DecideStop /\ marks' = marks \cup {"stopBoundary"}
  \/ CheckPasses /\ Verified /\ marks' = marks \cup {"verified"}
  \/ (StartProof \/ KeepSource) /\ marks' = marks \cup {"skipped"}
  \/ (CheckPasses \/ StartTarget) /\ marks' \in {marks \cup {"retained"}, marks \cup {"owned"}}
\* No other step marks the operation.
LEMMA WhoMarks == ASSUME [Next]_vars, marks' # marks PROVE Marked
<1> USE DEF Marked, operationVars, RowsUnchanged
<1>1. CASE UNCHANGED vars
  BY <1>1 DEF vars
<1>2. CASE Environment
  BY <1>2, EnvironmentWaits
<1>3. CASE Claim \/ RecoverStale \/ CloseJob
  BY <1>3 DEF Claim, RecoverStale, CloseJob
<1>4. CASE Resume \/ ObserveCancel \/ StepFailed \/ CancelBeforeRoute
  BY <1>4 DEF Resume, ObserveCancel, StepFailed, CancelBeforeRoute
<1>5. CASE SourceDrained \/ CancelWhileDraining
  BY <1>5 DEF SourceDrained, CancelWhileDraining
<1>6. CASE BeginStep
  BY <1>6 DEF BeginStep
<1>7. CASE Succeed
  BY <1>7 DEF Succeed
<1>8. CASE CheckPasses
  BY <1>8 DEF CheckPasses
<1>9. CASE CheckFails \/ RouteConflict \/ CallRefused \/ WaitSatisfied \/ WaitTimesOut
  BY <1>9 DEF CheckFails, RouteConflict, CallRefused, WaitSatisfied, WaitTimesOut
<1>10. CASE DecideRoute \/ DecideStop
  BY <1>10 DEF DecideRoute, DecideStop, Decide, CancelObserved
<1>11. CASE ActivateTarget \/ ActivateSource
  BY <1>11 DEF ActivateTarget, ActivateSource
<1>12. CASE Commit \/ StartWait
  BY <1>12 DEF Commit, StartWait
<1>13. CASE StartTarget \/ StartProof \/ KeepSource
  BY <1>13 DEF StartTarget, StartProof, KeepSource
<1>14. CASE NothingToStop \/ WantSourceStopped \/ StartSource
  BY <1>14 DEF NothingToStop, WantSourceStopped, StartSource
<1>15. CASE CallSucceeds \/ Mark
  BY <1>15 DEF CallSucceeds, Mark
<1>16. CASE RetryableError \/ StepError \/ UnexpectedError
  BY <1>16 DEF RetryableError, StepError, UnexpectedError
<1>17. CASE Classify \/ Unobservable \/ CleanupFails
  BY <1>17 DEF Classify, Unobservable, CleanupFails
<1>18. CASE StopOwnedTarget \/ End
  BY <1>18 DEF StopOwnedTarget, End
<1>19. CASE MarkRollingBack \/ EnsureRollback \/ FinishRollback \/ ReopenCreated
  BY <1>19 DEF MarkRollingBack, EnsureRollback, FinishRollback, ReopenCreated
<1>20. CASE Sweep
  BY <1>20 DEF Sweep, ReconcileSucceeded, ReconcileRolledBack, ReconcileCancelled,
    ResumeForward, ResumeRollback, CreateRollback, Unresolved
<1>21. CASE Crash
  BY <1>21 DEF Crash
<1>22. CASE RequestCancel
  BY <1>22 DEF RequestCancel
<1> QED BY <1>1, <1>2, <1>3, <1>4, <1>5, <1>6, <1>7, <1>8, <1>9, <1>10, <1>11, <1>12, <1>13,
  <1>14, <1>15, <1>16, <1>17, <1>18, <1>19, <1>20, <1>21, <1>22
  DEF Next, WorkerStep, Environment

\* Who writes the runtime state of a deployment's row.
LEMMA WhoRecords ==
  ASSUME [Next]_vars, rt' # rt
  PROVE  \/ CheckPasses \/ CheckFails \/ StartTarget \/ NothingToStop \/ StartSource \/ Mark
         \/ StopOwnedTarget
<1> USE DEF deployVars, RowsUnchanged
<1>1. CASE UNCHANGED vars
  BY <1>1 DEF vars
<1>2. CASE Environment
  BY <1>2 DEF Environment, LateEffect, OperatorSetsRoute, TargetExits, StartReload, FinishReload,
    Admit, Bind, Release
<1>3. CASE Claim \/ RecoverStale \/ CloseJob
  BY <1>3 DEF Claim, RecoverStale, CloseJob
<1>4. CASE Resume \/ ObserveCancel \/ StepFailed \/ CancelBeforeRoute
  BY <1>4 DEF Resume, ObserveCancel, StepFailed, CancelBeforeRoute
<1>5. CASE SourceDrained \/ CancelWhileDraining
  BY <1>5 DEF SourceDrained, CancelWhileDraining
<1>6. CASE BeginStep
  BY <1>6 DEF BeginStep
<1>7. CASE Succeed
  BY <1>7 DEF Succeed
<1>8. CASE CheckPasses
  BY <1>8 DEF CheckPasses
<1>9. CASE CheckFails \/ RouteConflict \/ CallRefused \/ WaitSatisfied \/ WaitTimesOut
  BY <1>9 DEF CheckFails, RouteConflict, CallRefused, WaitSatisfied, WaitTimesOut
<1>10. CASE DecideRoute \/ DecideStop
  BY <1>10 DEF DecideRoute, DecideStop, Decide
<1>11. CASE ActivateTarget \/ ActivateSource
  BY <1>11 DEF ActivateTarget, ActivateSource
<1>12. CASE Commit \/ StartWait
  BY <1>12 DEF Commit, StartWait
<1>13. CASE StartTarget \/ StartProof \/ KeepSource
  BY <1>13 DEF StartTarget, StartProof, KeepSource
<1>14. CASE NothingToStop \/ WantSourceStopped \/ StartSource
  BY <1>14 DEF NothingToStop, WantSourceStopped, StartSource
<1>15. CASE CallSucceeds \/ Mark
  BY <1>15 DEF CallSucceeds, Mark
<1>16. CASE RetryableError \/ StepError \/ UnexpectedError
  BY <1>16 DEF RetryableError, StepError, UnexpectedError
<1>17. CASE Classify \/ Unobservable \/ CleanupFails
  BY <1>17 DEF Classify, Unobservable, CleanupFails
<1>18. CASE StopOwnedTarget \/ End
  BY <1>18 DEF StopOwnedTarget, End
<1>19. CASE MarkRollingBack \/ EnsureRollback \/ FinishRollback \/ ReopenCreated
  BY <1>19 DEF MarkRollingBack, EnsureRollback, FinishRollback, ReopenCreated
<1>20. CASE Sweep
  BY <1>20 DEF Sweep, ReconcileSucceeded, ReconcileRolledBack, ReconcileCancelled,
    ResumeForward, ResumeRollback, CreateRollback, Unresolved
<1>21. CASE Crash
  BY <1>21 DEF Crash
<1>22. CASE RequestCancel
  BY <1>22 DEF RequestCancel
<1> QED BY <1>1, <1>2, <1>3, <1>4, <1>5, <1>6, <1>7, <1>8, <1>9, <1>10, <1>11, <1>12, <1>13,
  <1>14, <1>15, <1>16, <1>17, <1>18, <1>19, <1>20, <1>21, <1>22
  DEF Next, WorkerStep, Environment

\* Between two beginnings the worker stays at its step, and nobody else writes a step.
LEMMA WhoStaysAtStep ==
  ASSUME PhaseInv, [Next]_vars, pc' \in BodyPhases, ~BeginStep
  PROVE  pc \in BodyPhases /\ UNCHANGED <<cur, step>>
<1>0. PhaseCur /\ PhaseOK /\ PhaseStatus
  BY DEF PhaseInv, TypeInv
<1> USE <1>0 DEF PhaseCur, PhaseOK, BodyPhases, Forget, At, FailStep, AfterFailure, AfterCancel,
  Onward, RowsUnchanged, operationVars, workerVars
<1>1. CASE UNCHANGED vars
  BY <1>1 DEF vars
<1>2. CASE Environment
  BY <1>2, EnvironmentWaits
<1>3. CASE Claim \/ RecoverStale \/ CloseJob
  BY <1>3 DEF Claim, RecoverStale, CloseJob
<1>4. CASE Resume \/ ObserveCancel \/ StepFailed \/ CancelBeforeRoute
  BY <1>4 DEF Resume, ObserveCancel, StepFailed, CancelBeforeRoute
<1>5. CASE SourceDrained \/ CancelWhileDraining
  BY <1>5 DEF SourceDrained, CancelWhileDraining
<1>6. CASE BeginStep
  BY <1>6
<1>7. CASE Succeed
  BY <1>7 DEF Succeed
<1>8. CASE CheckPasses
  BY <1>8 DEF CheckPasses
<1>9. CASE CheckFails \/ RouteConflict \/ CallRefused \/ WaitSatisfied \/ WaitTimesOut
  BY <1>9 DEF CheckFails, RouteConflict, CallRefused, WaitSatisfied, WaitTimesOut
<1>10. CASE DecideRoute \/ DecideStop
  BY <1>10 DEF DecideRoute, DecideStop, Decide, CancelObserved
<1>11. CASE ActivateTarget \/ ActivateSource
  BY <1>11 DEF ActivateTarget, ActivateSource
<1>12. CASE Commit \/ StartWait
  BY <1>12 DEF Commit, StartWait
<1>13. CASE StartTarget \/ StartProof \/ KeepSource
  BY <1>13 DEF StartTarget, StartProof, KeepSource
<1>14. CASE NothingToStop \/ WantSourceStopped \/ StartSource
  BY <1>14 DEF NothingToStop, WantSourceStopped, StartSource
<1>15. CASE CallSucceeds \/ Mark
  BY <1>15 DEF CallSucceeds, Mark
<1>16. CASE RetryableError \/ StepError \/ UnexpectedError
  BY <1>16 DEF RetryableError, StepError, UnexpectedError
<1>17. CASE Classify \/ Unobservable \/ CleanupFails
  BY <1>17 DEF Classify, Unobservable, CleanupFails, Cleanup
<1>18. CASE StopOwnedTarget \/ End
  BY <1>18 DEF StopOwnedTarget, End, Cleanup
<1>19. CASE MarkRollingBack \/ EnsureRollback \/ FinishRollback \/ ReopenCreated
  BY <1>19 DEF MarkRollingBack, EnsureRollback, FinishRollback, ReopenCreated
<1>20. CASE Sweep
  BY <1>20 DEF Sweep, ReconcileSucceeded, ReconcileRolledBack, ReconcileCancelled,
    ResumeForward, ResumeRollback, CreateRollback, Unresolved, Sweeping
<1>21. CASE Crash
  BY <1>21 DEF Crash
<1>22. CASE RequestCancel
  BY <1>22 DEF RequestCancel, PhaseStatus
<1> QED BY <1>1, <1>2, <1>3, <1>4, <1>5, <1>6, <1>7, <1>8, <1>9, <1>10, <1>11, <1>12, <1>13,
  <1>14, <1>15, <1>16, <1>17, <1>18, <1>19, <1>20, <1>21, <1>22
  DEF Next, WorkerStep, Environment

\* The ways into a cancellation's phases, and into what follows a stop.
LEMMA WhoEntersEndings ==
  ASSUME PhaseInv, [Next]_vars, pc' # pc
  PROVE  /\ pc' = "mark" => CallSucceeds
         /\ pc' = "cancel" => "routeBoundary" \notin marks /\ marks' = marks
         /\ pc' = "cancelcleanup" => pc = "cancel" /\ marks' = marks
         /\ pc' = "cancelend" => pc = "cancelcleanup" /\ marks' = marks
         /\ pc' = "sweepcleanup" => ReconcileCancelled
         /\ pc' = "sweepend" => pc = "sweepcleanup" /\ marks' = marks
<1>0. PhaseCur /\ PhaseOK
  BY DEF PhaseInv, TypeInv
<1> USE <1>0 DEF PhaseCur, PhaseOK, Forget, At, FailStep, AfterFailure, AfterCancel, Onward,
  RowsUnchanged, operationVars
<1>1. CASE UNCHANGED vars
  BY <1>1 DEF vars, workerVars
<1>2. CASE Environment
  BY <1>2, EnvironmentWaits DEF workerVars
<1>3. CASE Claim \/ RecoverStale \/ CloseJob
  BY <1>3 DEF Claim, RecoverStale, CloseJob, workerVars
<1>4. CASE Resume \/ ObserveCancel \/ StepFailed \/ CancelBeforeRoute
  BY <1>4 DEF Resume, ObserveCancel, StepFailed, CancelBeforeRoute
<1>5. CASE SourceDrained \/ CancelWhileDraining
  BY <1>5 DEF SourceDrained, CancelWhileDraining
<1>6. CASE BeginStep
  BY <1>6 DEF BeginStep, Begin
<1>7. CASE Succeed
  BY <1>7 DEF Succeed
<1>8. CASE CheckPasses
  BY <1>8 DEF CheckPasses
<1>9. CASE CheckFails \/ RouteConflict \/ CallRefused \/ WaitSatisfied \/ WaitTimesOut
  BY <1>9 DEF CheckFails, RouteConflict, CallRefused, WaitSatisfied, WaitTimesOut
<1>10. CASE DecideRoute \/ DecideStop
  BY <1>10 DEF DecideRoute, DecideStop, Decide, CancelObserved
<1>11. CASE ActivateTarget \/ ActivateSource
  BY <1>11 DEF ActivateTarget, ActivateSource
<1>12. CASE Commit \/ StartWait
  BY <1>12 DEF Commit, StartWait
<1>13. CASE StartTarget \/ StartProof \/ KeepSource
  BY <1>13 DEF StartTarget, StartProof, KeepSource
<1>14. CASE NothingToStop \/ WantSourceStopped \/ StartSource
  BY <1>14 DEF NothingToStop, WantSourceStopped, StartSource
<1>15. CASE CallSucceeds \/ Mark
  BY <1>15 DEF CallSucceeds, Mark
<1>16. CASE RetryableError \/ StepError \/ UnexpectedError
  BY <1>16 DEF RetryableError, StepError, UnexpectedError
<1>17. CASE Classify \/ Unobservable \/ CleanupFails
  BY <1>17 DEF Classify, Unobservable, CleanupFails, Cleanup
<1>18. CASE StopOwnedTarget \/ End
  BY <1>18 DEF StopOwnedTarget, End, Cleanup
<1>19. CASE MarkRollingBack \/ EnsureRollback \/ FinishRollback \/ ReopenCreated
  BY <1>19 DEF MarkRollingBack, EnsureRollback, FinishRollback, ReopenCreated
<1>20. CASE Sweep
  BY <1>20 DEF Sweep, ReconcileSucceeded, ReconcileRolledBack, ReconcileCancelled,
    ResumeForward, ResumeRollback, CreateRollback, Unresolved, Sweeping, workerVars
<1>21. CASE Crash
  BY <1>21 DEF Crash
<1>22. CASE RequestCancel
  BY <1>22 DEF RequestCancel, workerVars
<1> QED BY <1>1, <1>2, <1>3, <1>4, <1>5, <1>6, <1>7, <1>8, <1>9, <1>10, <1>11, <1>12, <1>13,
  <1>14, <1>15, <1>16, <1>17, <1>18, <1>19, <1>20, <1>21, <1>22
  DEF Next, WorkerStep, Environment

\* Route edits are counted; without one no operator has moved a route.
LEMMA EditsGrow ==
  ASSUME TypeInv, [Next]_vars
  PROVE  edits' \in {edits, edits + 1}
<1> USE DEF OthersUnchanged, RowsUnchanged, Fault, Swept, boundVars
<1>1. CASE UNCHANGED vars
  BY <1>1 DEF vars
<1>2. CASE Environment
  BY <1>2 DEF Environment, LateEffect, OperatorSetsRoute, TargetExits, StartReload, FinishReload,
    Admit, Bind, Release
<1>3. CASE Claim \/ RecoverStale \/ CloseJob
  BY <1>3 DEF Claim, RecoverStale, CloseJob
<1>4. CASE Resume \/ ObserveCancel \/ StepFailed \/ CancelBeforeRoute
  BY <1>4 DEF Resume, ObserveCancel, StepFailed, CancelBeforeRoute
<1>5. CASE SourceDrained \/ CancelWhileDraining
  BY <1>5 DEF SourceDrained, CancelWhileDraining
<1>6. CASE BeginStep
  BY <1>6 DEF BeginStep
<1>7. CASE Succeed
  BY <1>7 DEF Succeed
<1>8. CASE CheckPasses
  BY <1>8 DEF CheckPasses
<1>9. CASE CheckFails \/ RouteConflict \/ CallRefused \/ WaitSatisfied \/ WaitTimesOut
  BY <1>9 DEF CheckFails, RouteConflict, CallRefused, WaitSatisfied, WaitTimesOut
<1>10. CASE DecideRoute \/ DecideStop
  BY <1>10 DEF DecideRoute, DecideStop, Decide
<1>11. CASE ActivateTarget \/ ActivateSource
  BY <1>11 DEF ActivateTarget, ActivateSource
<1>12. CASE Commit \/ StartWait
  BY <1>12 DEF Commit, StartWait
<1>13. CASE StartTarget \/ StartProof \/ KeepSource
  BY <1>13 DEF StartTarget, StartProof, KeepSource
<1>14. CASE NothingToStop \/ WantSourceStopped \/ StartSource
  BY <1>14 DEF NothingToStop, WantSourceStopped, StartSource
<1>15. CASE CallSucceeds \/ Mark
  BY <1>15 DEF CallSucceeds, Mark
<1>16. CASE RetryableError \/ StepError \/ UnexpectedError
  BY <1>16 DEF RetryableError, StepError, UnexpectedError
<1>17. CASE Classify \/ Unobservable \/ CleanupFails
  BY <1>17 DEF Classify, Unobservable, CleanupFails
<1>18. CASE StopOwnedTarget \/ End
  BY <1>18 DEF StopOwnedTarget, End
<1>19. CASE MarkRollingBack \/ EnsureRollback \/ FinishRollback \/ ReopenCreated
  BY <1>19 DEF MarkRollingBack, EnsureRollback, FinishRollback, ReopenCreated
<1>20. CASE Sweep
  BY <1>20 DEF Sweep, ReconcileSucceeded, ReconcileRolledBack, ReconcileCancelled,
    ResumeForward, ResumeRollback, CreateRollback, Unresolved
<1>21. CASE Crash
  BY <1>21 DEF Crash
<1>22. CASE RequestCancel
  BY <1>22 DEF RequestCancel
<1> QED BY <1>1, <1>2, <1>3, <1>4, <1>5, <1>6, <1>7, <1>8, <1>9, <1>10, <1>11, <1>12, <1>13,
  <1>14, <1>15, <1>16, <1>17, <1>18, <1>19, <1>20, <1>21, <1>22
  DEF Next, WorkerStep, Environment

\* If no operator has edited the route after a step, none had before it.
LEMMA Unedited == ASSUME TypeInv, [Next]_vars, edits' = 0 PROVE edits = 0 /\ ~OperatorSetsRoute
<1>1. edits \in Nat
  BY DEF TypeInv, TypeOK, BoundType
<1>2. OperatorSetsRoute => edits' = edits + 1
  BY DEF OperatorSetsRoute
<1>3. edits' \in {edits, edits + 1}
  BY EditsGrow
<1> QED BY <1>1, <1>2, <1>3

\* Who gives an operation its ending.
LEMMA WhoEnds ==
  ASSUME PhaseInv, [Next]_vars, status' # status
  PROVE  /\ status' = "FAILED"
              => End /\ pc = "fail" /\ marks \cap {"routeBoundary", "stopBoundary"} = {}
         /\ status' = "CANCELLED" => \/ End /\ pc \in {"cancelend", "sweepend"}
                                     \/ RequestCancel /\ status = "QUEUED"
         /\ status' = "ROLLED_BACK" => FinishRollback \/ ReconcileRolledBack
         /\ status' = "SUCCEEDED" => Succeed \/ Classify \/ ReconcileSucceeded
<1> USE DEF StepUnchanged, RowsUnchanged, operationVars
<1>1. CASE UNCHANGED vars
  BY <1>1 DEF vars
<1>2. CASE Environment
  BY <1>2, EnvironmentWaits
<1>3. CASE Claim \/ RecoverStale \/ CloseJob
  BY <1>3 DEF Claim, RecoverStale, CloseJob
<1>4. CASE Resume \/ ObserveCancel \/ StepFailed \/ CancelBeforeRoute
  BY <1>4 DEF Resume, ObserveCancel, StepFailed, CancelBeforeRoute
<1>5. CASE SourceDrained \/ CancelWhileDraining
  BY <1>5 DEF SourceDrained, CancelWhileDraining
<1>6. CASE BeginStep
  BY <1>6 DEF BeginStep
<1>7. CASE Succeed
  BY <1>7 DEF Succeed
<1>8. CASE CheckPasses
  BY <1>8 DEF CheckPasses
<1>9. CASE CheckFails \/ RouteConflict \/ CallRefused \/ WaitSatisfied \/ WaitTimesOut
  BY <1>9 DEF CheckFails, RouteConflict, CallRefused, WaitSatisfied, WaitTimesOut
<1>10. CASE DecideRoute \/ DecideStop
  BY <1>10 DEF DecideRoute, DecideStop, Decide
<1>11. CASE ActivateTarget \/ ActivateSource
  BY <1>11 DEF ActivateTarget, ActivateSource
<1>12. CASE Commit \/ StartWait
  BY <1>12 DEF Commit, StartWait
<1>13. CASE StartTarget \/ StartProof \/ KeepSource
  BY <1>13 DEF StartTarget, StartProof, KeepSource
<1>14. CASE NothingToStop \/ WantSourceStopped \/ StartSource
  BY <1>14 DEF NothingToStop, WantSourceStopped, StartSource
<1>15. CASE CallSucceeds \/ Mark
  BY <1>15 DEF CallSucceeds, Mark
<1>16. CASE RetryableError \/ StepError \/ UnexpectedError
  BY <1>16 DEF RetryableError, StepError, UnexpectedError
<1>17. CASE Classify \/ Unobservable \/ CleanupFails
  BY <1>17 DEF Classify, Unobservable, CleanupFails
<1>18. CASE StopOwnedTarget \/ End
  BY <1>18 DEF StopOwnedTarget, End, Ending
<1>19. CASE MarkRollingBack \/ EnsureRollback \/ FinishRollback \/ ReopenCreated
  BY <1>19 DEF MarkRollingBack, EnsureRollback, FinishRollback, ReopenCreated, Reopen
<1>20. CASE Sweep
  BY <1>20 DEF Sweep, ReconcileSucceeded, ReconcileRolledBack, ReconcileCancelled,
    ResumeForward, ResumeRollback, CreateRollback, Unresolved, Settle, Reopen
<1>21. CASE Crash
  BY <1>21 DEF Crash
<1>22. CASE RequestCancel
  BY <1>22 DEF RequestCancel
<1> QED BY <1>1, <1>2, <1>3, <1>4, <1>5, <1>6, <1>7, <1>8, <1>9, <1>10, <1>11, <1>12, <1>13,
  <1>14, <1>15, <1>16, <1>17, <1>18, <1>19, <1>20, <1>21, <1>22
  DEF Next, WorkerStep, Environment

\* While no operator edits the route, it leads to one of the two, and to Source until the
\* switch itself has moved it; so the boundary of the stop lies behind that of the route.
RouteOwn == edits = 0 => /\ route \in Deployments /\ gw.active \in Deployments
                         /\ (routeVer = 0 => route = "source")
StopLate == edits = 0 /\ "stopBoundary" \in marks => "routeBoundary" \in marks
\* Before its boundary nothing of a retirement has happened.
NotRetired ==
  /\ "stopBoundary" \notin marks
       => Runs("source") /\ desired["source"] = "RUNNING" /\ "verified" \notin marks
  /\ pc = "mark" /\ cur = "STOP_SOURCE" => "stopBoundary" \in marks
\* What ends CANCELLED has not crossed the boundary of the route,
CancelPath  == {"cancel", "cancelcleanup", "cancelend", "sweepcleanup", "sweepend"}
CancelEarly == pc \in CancelPath \/ status = "QUEUED" => "routeBoundary" \notin marks
\* what ends ROLLED_BACK has been found serving from Source, by the last of its steps.
NoBack   == status \in {"QUEUED", "RUNNING"} => \A s \in BackSteps : step[s] = "ABSENT"
BackDone == edits = 0 /\ step["HOT_ROLLBACK_FINALIZE"] = "SUCCEEDED"
              => route = "source" /\ desired["source"] = "RUNNING"
Harmless == OnTime /\ edits = 0 /\ status \in {"FAILED", "CANCELLED", "ROLLED_BACK"}
              => route = "source" /\ desired["source"] = "RUNNING"
EndInv == /\ RouteOwn /\ StopLate /\ NotRetired /\ CancelEarly /\ NoBack /\ BackDone
          /\ Harmless

\* A route nobody else edits is moved by the two activations alone, and applied as it is.
LEMMA RouteOwnKept == ASSUME TypeInv, RouteOwn, [Next]_vars PROVE RouteOwn'
<1> SUFFICES ASSUME edits' = 0
             PROVE  /\ route' \in Deployments /\ gw'.active \in Deployments
                    /\ routeVer' = 0 => route' = "source"
  BY DEF RouteOwn
<1>1. edits = 0 /\ ~OperatorSetsRoute
  BY Unedited
<1>2. route \in Deployments /\ gw.active \in Deployments /\ (routeVer = 0 => route = "source")
  BY <1>1 DEF RouteOwn
<1>3. route' \in Deployments /\ (routeVer' = 0 => route' = "source")
  <2>1. CASE ActivateTarget
    <3>1. ver + 1 # 0
      BY VersionTyped DEF TypeInv, TypeOK, RowType
    <3> QED BY <1>2, <2>1, <3>1 DEF ActivateTarget, Bumped, Deployments
  <2>2. CASE ActivateSource
    BY <1>2, <2>2 DEF ActivateSource, Deployments
  <2>3. CASE ~ActivateTarget /\ ~ActivateSource
    BY <1>1, <1>2, <2>3, WhoMovesRoutes DEF routingVars
  <2> QED BY <2>1, <2>2, <2>3
<1>4. gw'.active \in Deployments
  <2>1. CASE FinishReload
    BY <1>2, <2>1 DEF FinishReload
  <2>2. CASE ~FinishReload
    BY <1>2, <2>2, WhoAppliesRoutes
  <2> QED BY <2>1, <2>2
<1> QED BY <1>3, <1>4

\* DecideStop is reached behind a moved route, whose boundary came first.
LEMMA StopLateKept ==
  ASSUME PhaseInv, StopInv, BoundaryFirst, RouteOwn, StopLate, [Next]_vars
  PROVE  StopLate'
<1> SUFFICES ASSUME edits' = 0, "stopBoundary" \in marks' PROVE "routeBoundary" \in marks'
  BY DEF StopLate
<1>1. edits = 0 /\ marks \subseteq marks'
  BY Unedited, MemoryGrows DEF PhaseInv
<1>2. CASE "stopBoundary" \in marks
  BY <1>1, <1>2 DEF StopLate
<1>3. CASE "stopBoundary" \notin marks
  <2>1. pc = "decide"
    BY <1>3, WhoMarks DEF Marked, DecideStop
  <2>2. routeVer # 0
    BY <1>1, <2>1 DEF StopInv, AtStop, Unreached, RouteOwn
  <2> QED BY <1>1, <2>2 DEF BoundaryFirst
<1> QED BY <1>2, <1>3

\* Source is stopped, unwanted and verified gone only behind the boundary of its stop.
LEMMA NotRetiredKept == ASSUME PhaseInv, StopInv, NotRetired, [Next]_vars PROVE NotRetired'
<1>0. TypeInv /\ PhaseOK /\ Crossed /\ LateCrossed /\ marks \subseteq marks'
      /\ desired \in [Deployments -> {"RUNNING", "STOPPED"}]
  BY MemoryGrows DEF PhaseInv, TypeInv, TypeOK, RowType, StopInv
<1>1. ASSUME "stopBoundary" \notin marks'
      PROVE  Runs("source")' /\ desired'["source"] = "RUNNING" /\ "verified" \notin marks'
  <2>1. /\ "stopBoundary" \notin marks /\ Runs("source") /\ desired["source"] = "RUNNING"
        /\ "verified" \notin marks
    BY <1>0, <1>1 DEF NotRetired
  <2>2. ~(pc = "call" /\ cur = "STOP_SOURCE") /\ ~(pc = "mark" /\ cur = "STOP_SOURCE")
        /\ pc # "desire"
    BY <1>0, <2>1 DEF Crossed, NotRetired
  <2>3. Runs("source")'
    BY <1>0, <2>1, <2>2, SourceStops DEF LateStop, LateCrossed, StopSource
  <2>4. desired'["source"] = "RUNNING"
    <3>1. CASE desired' = desired
      BY <2>1, <3>1
    <3>2. CASE Succeed
      BY <1>0, <2>1, <3>2 DEF Succeed, SourceDesired, Deployments
    <3>3. CASE CheckPasses
      <4>1. ~Verified
        BY <2>1, <3>3 DEF CheckPasses, Ready, Verified, Runs, HealthOf
      <4>2. cur = "FINALIZE" => "skipped" \in marks
        BY <2>1, <3>3 DEF CheckPasses, Ready, Finalizable, HealthOf
      <4> QED BY <1>0, <2>1, <3>3, <4>1, <4>2 DEF CheckPasses, Deployments
    <3>4. CASE NothingToStop
      BY <2>1, <3>4 DEF NothingToStop, Runs
    <3>5. CASE WantSourceStopped
      BY <2>2, <3>5 DEF WantSourceStopped
    <3>6. CASE StartSource
      BY <1>0, <2>1, <3>6 DEF StartSource, Deployments
    <3>7. CASE Mark
      <4>1. cur \in {"START_TARGET", "HOT_ROLLBACK_START_SOURCE"}
        BY <1>0, <2>2, <3>7 DEF Mark, PhaseOK, CommandOf
      <4> QED BY <1>0, <2>1, <3>7, <4>1 DEF Mark, CommandOf, Deployments
    <3>8. CASE Classify
      BY <2>1, <3>8 DEF Classify
    <3>9. CASE ReconcileSucceeded \/ ReconcileRolledBack
      BY <1>0, <2>1, <3>9 DEF ReconcileSucceeded, ReconcileRolledBack, Deployments
    <3>10. CASE RetryableError \/ StepError
      BY <1>0, <2>1, <3>10 DEF RetryableError, StepError, WantedByCall, Deployments
    <3> QED BY <3>1, <3>2, <3>3, <3>4, <3>5, <3>6, <3>7, <3>8, <3>9, <3>10, WhoWants
  <2>5. "verified" \notin marks'
    <3>1. ASSUME CheckPasses, Verified PROVE FALSE
      BY <2>1, <3>1 DEF CheckPasses, Ready, Verified, Runs, HealthOf
    <3> QED BY <2>1, <3>1, WhoMarks DEF Marked
  <2> QED BY <2>3, <2>4, <2>5
<1>2. ASSUME pc' = "mark", cur' = "STOP_SOURCE" PROVE "stopBoundary" \in marks'
  <2>1. cur = "STOP_SOURCE"
    <3>1. ~BeginStep
      BY <1>2 DEF BeginStep, Begin
    <3> QED BY <1>2, <3>1, WhoStaysAtStep DEF BodyPhases
  <2>2. CASE pc = "mark"
    BY <1>0, <2>1, <2>2 DEF NotRetired
  <2>3. CASE pc # "mark"
    <3>1. pc = "call"
      BY <1>2, <2>3, WhoEntersEndings DEF CallSucceeds
    <3> QED BY <1>0, <2>1, <3>1 DEF Crossed
  <2> QED BY <2>2, <2>3
<1> QED BY <1>1, <1>2 DEF NotRetired

\* A cancellation begins before the route's boundary, and nobody crosses that meanwhile.
LEMMA CancelEarlyKept == ASSUME PhaseInv, CancelEarly, [Next]_vars PROVE CancelEarly'
<1>1. ASSUME "routeBoundary" \notin marks, pc # "body" PROVE "routeBoundary" \notin marks'
  BY <1>1, WhoMarks DEF Marked, DecideRoute
<1>2. ASSUME pc' \in CancelPath PROVE "routeBoundary" \notin marks'
  <2>1. CASE pc' = pc
    BY <1>1, <1>2, <2>1 DEF CancelEarly, CancelPath
  <2>2. CASE pc' # pc /\ pc' = "sweepcleanup"
    BY <2>2, WhoEntersEndings DEF ReconcileCancelled, Cancellable, Boundary, operationVars
  <2>3. CASE pc' # pc /\ pc' # "sweepcleanup"
    BY <1>2, <2>3, WhoEntersEndings DEF CancelEarly, CancelPath
  <2> QED BY <2>1, <2>2, <2>3
<1>3. ASSUME status' = "QUEUED" PROVE "routeBoundary" \notin marks'
  <2>1. status = "QUEUED"
    BY <1>3, WhoMovesStatus DEF Claim, ResumeForward, Reopen
  <2> QED BY <1>1, <2>1 DEF CancelEarly, PhaseInv, PhaseStatus
<1> QED BY <1>2, <1>3 DEF CancelEarly

\* Rollback steps are created only as the operation leaves for its rollback.
LEMMA NoBackKept ==
  ASSUME PhaseInv, BackNeedsCancel, NoBack, [Next]_vars
  PROVE  NoBack'
<1> SUFFICES ASSUME status' \in {"QUEUED", "RUNNING"}, NEW s \in BackSteps
             PROVE  step'[s] = "ABSENT"
  BY DEF NoBack
<1>0. s \in Steps /\ s \notin ForwardSteps /\ s \notin PostRoute /\ PhaseStatus
  BY StepNames DEF PhaseInv, PostRoute, Retirement, ForwardSteps, Forward
<1>1. CASE status \in {"QUEUED", "RUNNING"}
  <2>1. step[s] = "ABSENT"
    BY <1>1 DEF NoBack
  <2>2. ~AtStep(s)
    BY <1>0, <1>1 DEF AtStep, PhaseStatus, InBack
  <2>3. ~EnsureRollback /\ ~CreateRollback
    BY <1>0, <1>1 DEF EnsureRollback, CreateRollback, Sweeping, PhaseStatus
  <2> QED BY <1>0, <2>1, <2>2, <2>3, WhoWritesSteps
          DEF StepWritten, Begun, Skipped, SettledAs, Created, Reopened
<1>2. CASE status \notin {"QUEUED", "RUNNING"}
  <2>1. ResumeForward
    BY <1>2, WhoMovesStatus
  <2>2. step[s] = "ABSENT" /\ pc = "idle" /\ status' # status
    BY <1>2, <2>1 DEF ResumeForward, Retirable, Finishing, BackNeedsCancel, Sweeping
  <2>3. ~AtStep(s) /\ ~EnsureRollback /\ ~CreateRollback
    BY <2>2 DEF AtStep, BodyPhases, EnsureRollback, CreateRollback, StepUnchanged
  <2> QED BY <1>0, <2>2, <2>3, WhoWritesSteps
          DEF StepWritten, Begun, Skipped, SettledAs, Created, Reopened
<1> QED BY <1>1, <1>2

\* Once the rollback has its last step behind it, it only goes on to serve from Source.
LEMMA BackDoneKept ==
  ASSUME PhaseInv, RollbackInv, NoBack, BackDone, [Next]_vars
  PROVE  BackDone'
<1> DEFINE last == "HOT_ROLLBACK_FINALIZE"
<1> SUFFICES ASSUME edits' = 0, step'[last] = "SUCCEEDED"
             PROVE  route' = "source" /\ desired'["source"] = "RUNNING"
  BY DEF BackDone
<1>0. /\ PhaseCur /\ PhaseOK /\ PhaseStatus /\ edits = 0 /\ ~OperatorSetsRoute
      /\ desired \in [Deployments -> {"RUNNING", "STOPPED"}]
  BY Unedited DEF PhaseInv, TypeInv, TypeOK, RowType
<1>1. last \in BackSteps /\ last \in Steps /\ last \notin PostRoute /\ last \in CheckSteps
  BY DEF BackSteps, Back, Steps, PostRoute, Retirement, CheckSteps
<1>2. CASE step[last] = "SUCCEEDED"
  <2>1. route = "source" /\ desired["source"] = "RUNNING"
    BY <1>0, <1>2 DEF BackDone
  <2>2. cancel /\ ~InForward /\ pc \notin Endings
    <3>1. status \notin {"QUEUED", "RUNNING"}
      BY <1>1, <1>2 DEF NoBack
    <3> QED BY <1>0, <1>1, <1>2, <3>1 DEF PhaseStatus, RollbackInv, BackNeedsCancel
  <2>3. pc \in BodyPhases => cur \in BackSteps
    BY <1>0, <2>2, StepNames DEF PhaseCur, InForward
  <2>4. route' = "source"
    <3>1. ~ActivateTarget
      BY <2>3 DEF ActivateTarget, BodyPhases, BackSteps, Back
    <3> QED BY <1>0, <2>1, <3>1, WhoMovesRoutes DEF ActivateSource, routingVars
  <2>5. desired'["source"] = "RUNNING"
    <3>1. CASE desired' = desired
      BY <2>1, <3>1
    <3>2. ~Succeed /\ ~Classify
      BY <2>2 DEF Succeed, Classify, InForward, Endings
    <3>3. ~NothingToStop /\ ~WantSourceStopped
      BY <1>0, <2>3 DEF NothingToStop, WantSourceStopped, PhaseOK, BodyPhases, BackSteps, Back
    <3>4. CASE CheckPasses
      <4>1. cur \notin {"VERIFY_SOURCE_STOPPED", "FINALIZE"}
        BY <2>3, <3>4 DEF CheckPasses, BodyPhases, BackSteps, Back
      <4> QED BY <1>0, <2>1, <3>4, <4>1 DEF CheckPasses, Verified, Deployments
    <3>5. CASE StartSource
      BY <1>0, <2>1, <3>5 DEF StartSource, Deployments
    <3>6. CASE Mark
      <4>1. cur = "HOT_ROLLBACK_START_SOURCE"
        BY <1>0, <2>3, <3>6 DEF Mark, PhaseOK, CommandOf, BodyPhases, BackSteps, Back
      <4> QED BY <1>0, <2>1, <3>6, <4>1 DEF Mark, CommandOf, Deployments
    <3>7. CASE ReconcileSucceeded \/ ReconcileRolledBack
      BY <1>0, <2>1, <2>2, <3>7 DEF ReconcileSucceeded, ReconcileRolledBack, RetiredByUs,
        Retained, Deployments
    <3>8. CASE RetryableError \/ StepError
      BY <1>0, <2>1, <3>8 DEF RetryableError, StepError, WantedByCall, Deployments
    <3> QED BY <3>1, <3>2, <3>3, <3>4, <3>5, <3>6, <3>7, <3>8, WhoWants
  <2> QED BY <2>4, <2>5
<1>3. CASE step[last] # "SUCCEEDED"
  <2>1. CheckPasses /\ cur = last
    BY <1>1, <1>3, WhoWritesSteps DEF StepWritten, AtStep, Begun, Skipped, SettledAs, Created,
      Reopened
  <2>2. route = "source" /\ desired' = [desired EXCEPT !["source"] = "RUNNING"]
    BY <2>1 DEF CheckPasses, Ready, SourceIsBack, SourceIsUp, HealthOf, Verified
  <2>3. route' = route
    BY <2>1 DEF CheckPasses, routingVars
  <2> QED BY <1>0, <2>2, <2>3 DEF Deployments
<1> QED BY <1>2, <1>3

\* A rollback that has run out of steps has them all behind it.
LEMMA RolledBackFully ==
  ASSUME PhaseInv, RollbackInv, FinishRollback, OnTime'
  PROVE  step["HOT_ROLLBACK_FINALIZE"] = "SUCCEEDED"
<1> DEFINE last == "HOT_ROLLBACK_FINALIZE"
<1>0. /\ last \in BackSteps /\ last \in Steps /\ last \notin PostRoute
      /\ step \in [Steps -> {"ABSENT", "PENDING", "RUNNING", "SUCCEEDED", "FAILED", "SKIPPED"}]
  BY DEF BackSteps, Back, Steps, PostRoute, Retirement, PhaseInv, TypeInv, TypeOK,
    OperationType
<1>1. pc = "backnext" /\ InBack /\ status = "ROLLING_BACK"
  BY DEF FinishRollback, InBack, PhaseInv, PhaseStatus
<1>2. step[last] \notin {"ABSENT", "SKIPPED"}
  BY <1>0, <1>1 DEF RollbackInv, NotSkipped
<1>3. step[last] \notin {"PENDING", "RUNNING"}
  BY <1>0 DEF FinishRollback, Open
<1>4. step[last] # "FAILED"
  BY <1>0 DEF FinishRollback, PassedOver, OnTime
<1> QED BY <1>0, <1>2, <1>3, <1>4

\* Each way of ending FAILED, CANCELLED or ROLLED_BACK leaves Source routed and wanted.
LEMMA HarmlessKept ==
  ASSUME PhaseInv, StopInv, RollbackInv, BoundaryFirst, EndInv, [Next]_vars
  PROVE  Harmless'
<1> SUFFICES ASSUME OnTime', edits' = 0, status' \in {"FAILED", "CANCELLED", "ROLLED_BACK"}
             PROVE  route' = "source" /\ desired'["source"] = "RUNNING"
  BY DEF Harmless
<1>0. /\ OnTime /\ edits = 0 /\ ~OperatorSetsRoute /\ PhaseStatus /\ PhaseCur
      /\ desired \in [Deployments -> {"RUNNING", "STOPPED"}]
      /\ RouteOwn /\ StopLate /\ NotRetired /\ CancelEarly /\ NoBack /\ BackDone /\ Harmless
  BY Unedited, MemoryGrows DEF PhaseInv, TypeInv, TypeOK, RowType, EndInv
<1>1. CASE status' = status
  <2>1. route = "source" /\ desired["source"] = "RUNNING"
    BY <1>0, <1>1 DEF Harmless
  <2>2. pc \in {"idle", "entry"}
    BY <1>0, <1>1, StepNames DEF PhaseStatus, PhaseCur, InForward, InBack, Endings, BodyPhases,
      PhaseInv, TypeInv, TypeOK, WorkerType, Phases
  <2>3. route' = route
    BY <1>0, <2>2, WhoMovesRoutes DEF ActivateTarget, ActivateSource, routingVars
  <2>4. desired' = desired
    BY <1>1, <2>2, WhoWants DEF Succeed, CheckPasses, NothingToStop, WantSourceStopped,
      StartSource, Mark, Classify, ReconcileSucceeded, ReconcileRolledBack, Sweeping,
      RetryableError, StepError, Calling
  <2> QED BY <2>1, <2>3, <2>4
<1>2. CASE status' # status
  <2>1. ASSUME "routeBoundary" \notin marks PROVE route = "source" /\ desired["source"] = "RUNNING"
    BY <1>0, <2>1 DEF StopLate, BoundaryFirst, RouteOwn, NotRetired
  <2>2. CASE End \/ RequestCancel
    <3>1. "routeBoundary" \notin marks
      BY <1>0, <1>2, <2>2, WhoEnds DEF CancelEarly, CancelPath, FinishRollback, End, Ending,
        ReconcileRolledBack, RequestCancel, Sweeping
    <3>2. route' = route /\ desired' = desired
      BY <2>2 DEF End, RequestCancel, routingVars, deployVars
    <3> QED BY <2>1, <3>1, <3>2
  <2>3. CASE FinishRollback
    <3>1. step["HOT_ROLLBACK_FINALIZE"] = "SUCCEEDED"
      BY <2>3, RolledBackFully
    <3> QED BY <1>0, <2>3, <3>1 DEF FinishRollback, BackDone, routingVars, deployVars
  <2>4. CASE ReconcileRolledBack
    BY <1>0, <2>4 DEF ReconcileRolledBack, Restored, SourceServes, routingVars, Deployments
  <2> QED BY <1>2, <2>2, <2>3, <2>4, WhoEnds
<1> QED BY <1>1, <1>2

\* The parts of EndInv hold together, in every state a run reaches.
LEMMA EndsHold == Spec => []EndInv
<1>1. Init => EndInv
  <2> SUFFICES ASSUME Init PROVE EndInv
    OBVIOUS
  <2>1. \A s \in BackSteps : step[s] = "ABSENT"
    BY StepNames DEF Init
  <2>2. "HOT_ROLLBACK_FINALIZE" \in BackSteps
    BY DEF BackSteps, Back
  <2> QED BY <2>1, <2>2 DEF Init, EndInv, RouteOwn, StopLate, NotRetired, CancelEarly,
    CancelPath, NoBack, BackDone, Harmless, Runs, Deployments
<1>2. PhaseInv /\ StopInv /\ RollbackInv /\ BoundaryFirst /\ EndInv /\ [Next]_vars => EndInv'
  <2> SUFFICES ASSUME PhaseInv, StopInv, RollbackInv, BoundaryFirst, EndInv, [Next]_vars
               PROVE  EndInv'
    OBVIOUS
  <2>1. /\ RouteOwn /\ StopLate /\ NotRetired /\ CancelEarly /\ NoBack /\ BackDone
        /\ TypeInv /\ BackNeedsCancel
    BY DEF EndInv, PhaseInv, RollbackInv
  <2> QED BY <2>1, RouteOwnKept, StopLateKept, NotRetiredKept, CancelEarlyKept, NoBackKept,
        BackDoneKept, HarmlessKept DEF EndInv
<1> QED BY <1>1, <1>2, PhasesKnown, StopsProven, ServingHolds, PTL DEF Spec

\* FAILED, CANCELLED and ROLLED_BACK leave Source serving: whoever writes one of them, the
\* worker's classification, a cancellation, the end of a rollback or a sweep, finds Source
\* routed, running and wanted, at whatever step the attempts before it failed or crashed;
\* nothing that comes later takes that away but a stop that outlives its lost call
\* (hot_switch.py, hot_switch_reconcile.py).
THEOREM EndingsAreHarmless == Spec => []HarmlessEndings
<1>1. EndInv /\ ServeInv => HarmlessEndings
  BY DEF EndInv, Harmless, ServeInv, RoutedRuns, HarmlessEndings, Deployments
<1> QED BY <1>1, EndsHold, ServingHolds, PTL

-----------------------------------------------------------------------------
(* SUCCEEDED means that Target serves.                                     *)

\* While the operation may still go forward:
Moving == \/ status \in {"QUEUED", "RUNNING"}
          \/ status = "MANUAL_INTERVENTION_REQUIRED" /\ ~cancel
\* the worker's step is open, those before a retirement's are not,
OpenAt  == pc \in BodyPhases => step[cur] = "RUNNING"
Onwards ==
  /\ pc \in BodyPhases /\ cur = "STOP_SOURCE" => "WAIT_SOURCE_DRAIN" \notin Open(ForwardSteps)
  /\ pc \in BodyPhases /\ cur = "FINALIZE" => Open(ForwardSteps) \subseteq {"FINALIZE"}
\* a Source that is being stopped was not to be kept,
AtRetire ==
  /\ pc = "mark" /\ cur = "STOP_SOURCE" => ~Runs("source")
  /\ OnTime /\ pc = "proof" => Runs("source")
  /\ pc \in {"proof", "decide", "desire", "call"} /\ cur = "STOP_SOURCE"
       => "skipped" \notin marks
\* Source is down if its row says so, and up if it was kept or is still to be drained,
SourceKept ==
  OnTime /\ Moving => /\ rt["source"] = "STOPPED" => ~Runs("source")
                      /\ "WAIT_SOURCE_DRAIN" \in Open(ForwardSteps) => Runs("source")
                      /\ "skipped" \in marks => Runs("source")
\* and once FINALIZE has passed, what it found stays.
FinalStep == Moving => step["FINALIZE"] \notin {"ABSENT", "SKIPPED"}
Final ==
  OnTime /\ edits = 0 /\ Moving /\ step["FINALIZE"] = "SUCCEEDED"
    => /\ route = "target"
       /\ "skipped" \in marks <=> desired["source"] = "RUNNING"
       /\ "skipped" \in marks <=> Runs("source")
       /\ Open(ForwardSteps) \subseteq {"WAIT_ROUTE_APPLY"}
Won ==
  OnTime /\ edits = 0 /\ status = "SUCCEEDED"
    => /\ route = "target" /\ desired["target"] = "RUNNING"
       /\ Runs("source") <=> desired["source"] = "RUNNING"
\* A start of Source that comes late was ordered by a rollback: there is none behind
\* what moves or has succeeded.
SourceStart == [dep |-> "source", to |-> "running"]
LateStarts == SourceStart \in late => ~Moving /\ status # "SUCCEEDED"
WinInv == /\ OpenAt /\ Onwards /\ AtRetire /\ SourceKept /\ FinalStep /\ Final /\ Won
          /\ LateStarts

\* Source is started by the rollback alone, in time or late.
LEMMA SourceStarts ==
  ASSUME TypeInv, [Next]_vars, ~Runs("source"), Runs("source")'
  PROVE  (pc = "call" /\ cur = "HOT_ROLLBACK_START_SOURCE") \/ (LateEffect /\ SourceStart \in late)
<1>1. cont \in Containers /\ late \in SUBSET Commands
  BY DEF TypeInv, TypeOK, RowType, Containers, Commands
<1>2. ContainerMoved
  BY WhoMovesContainers DEF Runs
<1> USE <1>1 DEF Runs, Containers, Deployments
<1>3. CASE pc = "call" /\ cur \in DOMAIN CommandOf /\ cont' = Commanded
  BY <1>3 DEF Commanded, CommandOf, Effect
<1>4. CASE cont' = TargetDown
  BY <1>4 DEF TargetDown, Effect, StopTarget
<1>5. CASE cont' = [cont EXCEPT !["target"] = "stopped"]
  BY <1>5
<1>6. CASE LateEffect
  <2>1. PICK c \in late : cont' = Effect(c)
    BY <1>6 DEF LateEffect
  <2>2. c.dep = "source" /\ c.to = "running" /\ c \in Commands
    BY <2>1 DEF Effect, Commands
  <2>3. c = SourceStart
    BY <2>2 DEF Commands, SourceStart
  <2> QED BY <1>6, <2>3
<1> QED BY <1>2, <1>3, <1>4, <1>5, <1>6 DEF ContainerMoved, TargetExits

\* An operation that moves has moved so far, and knows no rollback.
LEMMA MovingStays ==
  ASSUME PhaseInv, BackNeedsCancel, NoBack, [Next]_vars, Moving'
  PROVE  /\ Moving /\ pc # "block"
         /\ pc \in BodyPhases => cur \in ForwardSteps
<1>0. PhaseStatus /\ PhaseCur
  BY DEF PhaseInv
<1>1. Moving
  <2>1. CASE status' = status
    BY <2>1, MemoryGrows DEF Moving
  <2>2. CASE status' # status
    BY <2>2, WhoMovesStatus, MemoryGrows DEF Moving, ResumeForward, Retirable, Finishing,
      Sweeping, BackNeedsCancel
  <2> QED BY <2>1, <2>2
<1>2. status # "ROLLING_BACK"
  BY <1>1 DEF Moving
<1> QED BY <1>0, <1>1, <1>2, StepNames DEF PhaseStatus, PhaseCur, InBack

\* Where the last steps stand.
LEMMA RetirementPlaces ==
  /\ \A i \in DOMAIN Forward : /\ Forward[i] = "STOP_SOURCE" => 9 \in 1 .. i - 1
                               /\ Forward[i] = "FINALIZE" => i = 12
  /\ \A i \in DOMAIN Back : Back[i] \notin {"STOP_SOURCE", "FINALIZE"}
  /\ Forward[9] = "WAIT_SOURCE_DRAIN" /\ DOMAIN Forward = 1 .. 12
  /\ {"WAIT_SOURCE_DRAIN", "STOP_SOURCE", "FINALIZE"} \subseteq ForwardSteps \cap Steps
<1>1. DOMAIN Forward = 1 .. 12 /\ DOMAIN Back = 1 .. 7
  BY DEF Forward, Back
<1>2. ASSUME NEW i \in 1 .. 12
      PROVE  /\ Forward[i] = "STOP_SOURCE" => i = 10
             /\ Forward[i] = "FINALIZE" => i = 12
  BY DEF Forward
<1>3. ASSUME NEW i \in 1 .. 7 PROVE Back[i] \notin {"STOP_SOURCE", "FINALIZE"}
  BY DEF Back
<1>4. Forward[9] = "WAIT_SOURCE_DRAIN"
      /\ {"WAIT_SOURCE_DRAIN", "STOP_SOURCE", "FINALIZE"} \subseteq ForwardSteps \cap Steps
  BY DEF Forward, ForwardSteps, Steps
<1> QED BY <1>1, <1>2, <1>3, <1>4

\* The worker opens a step only behind those before it.
LEMMA OnwardsKept ==
  ASSUME PhaseInv, OpenAt, Onwards, [Next]_vars
  PROVE  OpenAt' /\ Onwards'
<1>1. CASE pc' \in BodyPhases /\ ~BeginStep
  <2>1. pc \in BodyPhases /\ UNCHANGED <<cur, step>>
    BY <1>1, WhoStaysAtStep
  <2> QED BY <2>1 DEF OpenAt, Onwards, Open
<1>2. CASE BeginStep
  <2>0. step \in [Steps -> {"ABSENT", "PENDING", "RUNNING", "SUCCEEDED", "FAILED", "SKIPPED"}]
    BY DEF PhaseInv, TypeInv, TypeOK, OperationType
  <2>1. PICK sequence \in {Forward, Back} : \E i \in DOMAIN sequence : Begin(sequence, i)
    BY <1>2 DEF BeginStep
  <2>2. PICK i \in DOMAIN sequence : Begin(sequence, i)
    BY <2>1
  <2>3. /\ cur' = sequence[i] /\ step' = [step EXCEPT ![sequence[i]] = "RUNNING"]
        /\ \A k \in 1 .. i - 1 : step[sequence[k]] \notin {"PENDING", "RUNNING"}
        /\ sequence[i] \in Steps
    BY <2>1, <2>2 DEF Begin, Steps, ForwardSteps, BackSteps
  <2>4. OpenAt'
    BY <2>0, <2>3 DEF OpenAt
  <2>5. ASSUME cur' = "STOP_SOURCE" PROVE "WAIT_SOURCE_DRAIN" \notin Open(ForwardSteps)'
    BY <2>0, <2>1, <2>3, <2>5, RetirementPlaces DEF Open
  <2>6. ASSUME cur' = "FINALIZE", NEW s \in Open(ForwardSteps)' PROVE s = "FINALIZE"
    <3>1. sequence = Forward /\ i = 12
      BY <2>1, <2>3, <2>6, RetirementPlaces
    <3>2. PICK k \in 1 .. 12 : s = Forward[k]
      BY <2>6, RetirementPlaces DEF Open, ForwardSteps
    <3>3. CASE k = 12
      BY <2>3, <2>6, <3>1, <3>2, <3>3
    <3>4. CASE k # 12
      <4>1. k \in 1 .. i - 1
        BY <3>1, <3>4
      <4>2. step[s] \notin {"PENDING", "RUNNING"}
        BY <2>3, <3>1, <3>2, <4>1
      <4>3. step'[s] \in {"PENDING", "RUNNING"} /\ s \in Steps
        BY <2>6 DEF Open, Steps
      <4> QED BY <2>0, <2>3, <2>6, <4>2, <4>3
    <3> QED BY <3>3, <3>4
  <2> QED BY <2>4, <2>5, <2>6 DEF Onwards
<1>3. CASE pc' \notin BodyPhases
  BY <1>3 DEF OpenAt, Onwards
<1> QED BY <1>1, <1>2, <1>3

\* STOP_SOURCE is at work on a Source that was not to be kept, and marks what it has stopped.
LEMMA AtRetireKept == ASSUME PhaseInv, LateStarts, AtRetire, [Next]_vars PROVE AtRetire'
<1>0. TypeInv /\ PhaseOK /\ PhaseStatus /\ cont \in Containers
  BY DEF PhaseInv, TypeInv, TypeOK, RowType, Containers
<1>1. ASSUME pc' = "mark", cur' = "STOP_SOURCE" PROVE ~Runs("source")'
  <2>1. cur = "STOP_SOURCE"
    <3>1. ~BeginStep
      BY <1>1 DEF BeginStep, Begin
    <3> QED BY <1>1, <3>1, WhoStaysAtStep DEF BodyPhases
  <2>2. CASE pc = "mark"
    <3>1. Moving
      BY <1>0, <2>1, <2>2, RetirementPlaces DEF PhaseStatus, InForward, BodyPhases, Moving
    <3> QED BY <1>0, <2>1, <2>2, <3>1, SourceStarts DEF AtRetire, LateStarts
  <2>3. CASE pc # "mark"
    <3>1. CallSucceeds
      BY <1>1, <2>3, WhoEntersEndings
    <3> QED BY <1>0, <2>1, <3>1 DEF CallSucceeds, Commanded, CommandOf, Effect, Runs, Containers,
          Deployments
  <2> QED BY <2>2, <2>3
<1>2. ASSUME OnTime', pc' = "proof" PROVE Runs("source")'
  <2>1. CASE UNCHANGED workerVars
    BY <1>0, <1>2, <2>1, SourceStops, MemoryGrows DEF AtRetire, LateStop, workerVars
  <2>2. CASE ~UNCHANGED workerVars
    <3>1. StartProof
      BY <1>2, <2>2, WhoEntersPhases
    <3> QED BY <1>2, <3>1 DEF StartProof, Inspecting, At, Runs
  <2> QED BY <2>1, <2>2
<1>3. ASSUME pc' \in {"proof", "decide", "desire", "call"}, cur' = "STOP_SOURCE"
      PROVE  "skipped" \notin marks'
  <2>1. CASE UNCHANGED workerVars
    <3>1. ~StartProof /\ ~KeepSource
      BY <1>3, <2>1 DEF StartProof, KeepSource, At, workerVars
    <3>2. "skipped" \notin marks
      BY <1>3, <2>1 DEF AtRetire, workerVars
    <3> QED BY <3>1, <3>2, WhoMarks DEF Marked
  <2>2. CASE ~UNCHANGED workerVars
    <3>1. CASE pc' = "proof"
      <4>1. StartProof
        BY <2>2, <3>1, WhoEntersPhases
      <4> QED BY <3>1, <4>1 DEF StartProof, Inspecting, At
    <3>2. CASE pc' = "decide"
      <4>1. SourceDrained /\ pc = "proof"
        BY <2>2, <3>2, WhoEntersPhases
      <4> QED BY <1>0, <4>1 DEF SourceDrained, RowsUnchanged, AtRetire, PhaseOK
    <3>3. CASE pc' = "desire"
      <4>1. DecideStop /\ marks' = marks \cup {"stopBoundary"}
        BY <2>2, <3>3, WhoEntersPhases
      <4> QED BY <1>0, <4>1 DEF DecideStop, AtRetire, PhaseOK
    <3>4. CASE pc' = "call"
      <4>1. WantSourceStopped
        BY <1>3, <2>2, <3>4, WhoEntersPhases
      <4> QED BY <1>0, <4>1 DEF WantSourceStopped, AtRetire, PhaseOK
    <3> QED BY <1>3, <3>1, <3>2, <3>3, <3>4
  <2> QED BY <2>1, <2>2
<1> QED BY <1>1, <1>2, <1>3 DEF AtRetire

\* Who opens a forward step again while the operation moves.
LEMMA WhoOpens ==
  ASSUME PhaseInv, BackNeedsCancel, NoBack, OpenAt, [Next]_vars, Moving',
         NEW s \in ForwardSteps, s \in Open(ForwardSteps)'
  PROVE  s \in Open(ForwardSteps) \/ ResumeForward
<1>1. s \in Steps /\ s \notin BackSteps
  BY StepNames
<1>2. CASE step'[s] = step[s]
  BY <1>2 DEF Open
<1>3. CASE step'[s] # step[s]
  <2>1. StepWritten(s)
    BY <1>1, <1>3, WhoWritesSteps
  <2>2. step'[s] \in {"PENDING", "RUNNING"}
    BY DEF Open
  <2>3. ~ResumeRollback /\ ~ReopenCreated
    BY DEF ResumeRollback, ReopenCreated, Reopen, Moving
  <2> QED BY <1>1, <2>1, <2>2, <2>3 DEF StepWritten, AtStep, Begun, Skipped, SettledAs, Created,
        Reopened, Open, OpenAt
<1> QED BY <1>2, <1>3

\* A moving operation stops Source once, after its drain, and never starts it again.
LEMMA SourceKeptKept ==
  ASSUME PhaseInv, BackNeedsCancel, NoBack, OpenAt, Onwards, AtRetire, SourceKept, LateStarts,
         [Next]_vars
  PROVE  SourceKept'
<1> SUFFICES ASSUME OnTime', Moving'
             PROVE  /\ rt'["source"] = "STOPPED" => ~Runs("source")'
                    /\ "WAIT_SOURCE_DRAIN" \in Open(ForwardSteps)' => Runs("source")'
                    /\ "skipped" \in marks' => Runs("source")'
  BY DEF SourceKept
<1>0. /\ OnTime /\ Moving /\ (pc \in BodyPhases => cur \in ForwardSteps)
      /\ TypeInv /\ PhaseCur /\ PhaseOK
      /\ rt \in [Deployments -> {"CREATED", "RUNNING", "STOPPED"}]
  BY MovingStays, MemoryGrows DEF PhaseInv, TypeInv, TypeOK, RowType
<1>1. /\ rt["source"] = "STOPPED" => ~Runs("source")
      /\ "WAIT_SOURCE_DRAIN" \in Open(ForwardSteps) => Runs("source")
      /\ "skipped" \in marks => Runs("source")
  BY <1>0 DEF SourceKept
<1>2. Runs("source")' => Runs("source")
  BY <1>0, SourceStarts DEF BodyPhases, ForwardSteps, Forward, LateStarts
<1>3. /\ "WAIT_SOURCE_DRAIN" \in Open(ForwardSteps) => Runs("source")'
      /\ "skipped" \in marks => Runs("source")'
  BY <1>0, <1>1, SourceStops DEF Onwards, AtRetire, BodyPhases, LateStop
<1>4. ASSUME rt'["source"] = "STOPPED" PROVE ~Runs("source")'
  <2>1. CASE rt["source"] = "STOPPED"
    BY <1>1, <1>2, <2>1
  <2>2. CASE rt["source"] # "STOPPED"
    <3>1. CASE CheckPasses
      <4>1. Verified
        BY <1>0, <1>4, <2>2, <3>1 DEF CheckPasses, Deployments
      <4>2. ~Runs("source")
        BY <3>1, <4>1 DEF CheckPasses, Verified, Ready, HealthOf, Runs
      <4> QED BY <1>2, <4>2
    <3>2. CASE CheckFails
      BY <1>0, <1>4, <2>2, <3>2 DEF CheckFails, BodyPhases, ForwardSteps, Forward
    <3>3. CASE NothingToStop
      <4>1. ~Runs("source")
        BY <1>4, <2>2, <3>3 DEF NothingToStop, Runs
      <4> QED BY <1>2, <4>1
    <3>4. CASE StartTarget \/ StartSource \/ StopOwnedTarget
      BY <1>0, <1>4, <2>2, <3>4 DEF StartTarget, StartSource, StopOwnedTarget, Deployments
    <3>5. CASE Mark
      <4>1. cur = "STOP_SOURCE"
        BY <1>0, <1>4, <2>2, <3>5 DEF Mark, CommandOf, PhaseOK, Deployments
      <4> QED BY <1>2, <3>5, <4>1 DEF Mark, AtRetire
    <3> QED BY <1>4, <2>2, <3>1, <3>2, <3>3, <3>4, <3>5, WhoRecords
  <2> QED BY <2>1, <2>2
<1>5. ASSUME "WAIT_SOURCE_DRAIN" \in Open(ForwardSteps)' PROVE Runs("source")'
  <2>1. CASE ResumeForward
    <3>1. Runs("source") /\ cont' = cont
      BY <2>1 DEF ResumeForward, Retirable, Finishing, Deployments
    <3> QED BY <3>1 DEF Runs
  <2> QED BY <1>3, <1>5, <2>1, WhoOpens, RetirementPlaces
<1>6. ASSUME "skipped" \in marks' PROVE Runs("source")'
  <2>1. CASE StartProof \/ KeepSource
    <3>1. CASE cur = "WAIT_SOURCE_DRAIN"
      <4>1. cur \in Open(ForwardSteps)
        BY <2>1, <3>1, RetirementPlaces DEF OpenAt, Open, BodyPhases, StartProof, KeepSource
      <4> QED BY <1>3, <3>1, <4>1
    <3>2. CASE cur # "WAIT_SOURCE_DRAIN"
      <4>1. Runs("source")
        BY <1>0, <2>1, <3>2 DEF StartProof, KeepSource, Inspecting, PhaseCur, AtRetire, Runs
      <4> QED BY <2>1, <4>1 DEF StartProof, KeepSource, Runs
    <3> QED BY <3>1, <3>2
  <2>2. CASE ~StartProof /\ ~KeepSource
    BY <1>3, <1>6, <2>2, WhoMarks DEF Marked
  <2> QED BY <2>1, <2>2
<1> QED BY <1>4, <1>5, <1>6

\* FINALIZE is created with the operation and never skipped.
LEMMA FinalStepKept ==
  ASSUME PhaseInv, BackNeedsCancel, NoBack, FinalStep, [Next]_vars
  PROVE  FinalStep'
<1> SUFFICES ASSUME Moving' PROVE step'["FINALIZE"] \notin {"ABSENT", "SKIPPED"}
  BY DEF FinalStep
<1>1. Moving /\ pc # "block"
  BY MovingStays
<1>2. step["FINALIZE"] \notin {"ABSENT", "SKIPPED"}
  BY <1>1 DEF FinalStep
<1>3. ~EnsureRollback
  BY <1>1 DEF EnsureRollback
<1>4. ~CreateRollback
  BY <1>1 DEF CreateRollback, Undoable, Sweeping, Moving
<1>5. status' # "CANCELLED"
  BY DEF Moving
<1> QED BY <1>2, <1>3, <1>4, <1>5, WhoWritesSteps, RetirementPlaces
    DEF StepWritten, AtStep, Begun, Skipped, SettledAs, Created, Reopened

\* FINALIZE passes only on what it finds serving, and nothing later moves that.
LEMMA FinalKept ==
  ASSUME PhaseInv, BackNeedsCancel, NoBack, OpenAt, Onwards, AtRetire, SourceKept, Final,
         LateStarts, [Next]_vars
  PROVE  Final'
<1> SUFFICES ASSUME OnTime', edits' = 0, Moving', step'["FINALIZE"] = "SUCCEEDED"
             PROVE  /\ route' = "target"
                    /\ "skipped" \in marks' <=> desired'["source"] = "RUNNING"
                    /\ "skipped" \in marks' <=> Runs("source")'
                    /\ Open(ForwardSteps)' \subseteq {"WAIT_ROUTE_APPLY"}
  BY DEF Final
<1>0. /\ OnTime /\ edits = 0 /\ ~OperatorSetsRoute
      /\ Moving /\ (pc \in BodyPhases => cur \in ForwardSteps)
      /\ TypeInv /\ PhaseCur /\ PhaseOK
      /\ desired \in [Deployments -> {"RUNNING", "STOPPED"}]
      /\ step \in [Steps -> {"ABSENT", "PENDING", "RUNNING", "SUCCEEDED", "FAILED", "SKIPPED"}]
  BY Unedited, MovingStays, MemoryGrows DEF PhaseInv, TypeInv, TypeOK, RowType, OperationType
<1>1. CASE step["FINALIZE"] = "SUCCEEDED"
  <2>1. /\ route = "target"
        /\ "skipped" \in marks <=> desired["source"] = "RUNNING"
        /\ "skipped" \in marks <=> Runs("source")
        /\ Open(ForwardSteps) \subseteq {"WAIT_ROUTE_APPLY"}
    BY <1>0, <1>1 DEF Final
  <2>2. pc \in BodyPhases => cur = "WAIT_ROUTE_APPLY"
    BY <1>0, <2>1 DEF OpenAt, Open
  <2>3. route' = route
    BY <1>0, <2>2, WhoMovesRoutes DEF ActivateTarget, ActivateSource, BodyPhases, routingVars
  <2>4. "skipped" \in marks' <=> "skipped" \in marks
    <3>1. ~StartProof /\ ~KeepSource
      BY <1>0, <2>2 DEF StartProof, KeepSource, Inspecting, BodyPhases, PhaseCur, PhaseOK
    <3> QED BY <3>1, WhoMarks, MemoryGrows DEF Marked
  <2>5. desired' = desired
    <3>1. ~Succeed /\ ~ReconcileSucceeded /\ ~ReconcileRolledBack
      BY DEF Succeed, ReconcileSucceeded, ReconcileRolledBack, Settle, Moving
    <3>2. CASE Classify
      BY <3>2 DEF Classify, Moving
    <3>3. ~CheckPasses /\ ~NothingToStop /\ ~WantSourceStopped /\ ~StartSource /\ ~Mark
      BY <1>0, <2>2 DEF CheckPasses, NothingToStop, WantSourceStopped, StartSource, Mark,
        BodyPhases, PhaseOK, CheckSteps, RemoteChecks, HealthOf, CommandOf
    <3>4. ~((RetryableError \/ StepError) /\ cur = "HOT_ROLLBACK_START_SOURCE")
      BY <2>2 DEF RetryableError, StepError, Calling, BodyPhases
    <3> QED BY <3>1, <3>2, <3>3, <3>4, WhoWants
  <2>6. Runs("source")' <=> Runs("source")
    BY <1>0, <2>2, SourceStops, SourceStarts DEF BodyPhases, LateStop, LateStarts
  <2>7. ASSUME NEW s \in Open(ForwardSteps)' PROVE s = "WAIT_ROUTE_APPLY"
    <3>1. s \in ForwardSteps /\ s \in Steps
      BY <2>7, StepNames DEF Open
    <3>2. CASE s \in Open(ForwardSteps)
      BY <2>1, <3>2
    <3>3. CASE s \notin Open(ForwardSteps)
      <4>1. ResumeForward
        BY <2>7, <3>1, <3>3, WhoOpens
      <4>2. ~Retirable
        BY <2>1 DEF Retirable
      <4>3. ToFinish = "WAIT_ROUTE_APPLY" /\ Reopen(ToFinish, "RUNNING")
        BY <1>1, <4>1, <4>2 DEF ResumeForward, ToFinish
      <4>4. step' \in {step, [step EXCEPT !["WAIT_ROUTE_APPLY"] = "PENDING"]}
        BY <4>3 DEF Reopen
      <4> QED BY <1>0, <2>7, <3>1, <3>3, <4>4 DEF Open
    <3> QED BY <3>2, <3>3
  <2> QED BY <2>1, <2>3, <2>4, <2>5, <2>6, <2>7
<1>2. CASE step["FINALIZE"] # "SUCCEEDED"
  <2>1. CheckPasses /\ cur = "FINALIZE"
    <3>1. "FINALIZE" \in CheckSteps /\ "FINALIZE" \in Steps /\ StepWritten("FINALIZE")
      BY <1>2, WhoWritesSteps, RetirementPlaces DEF CheckSteps
    <3>2. status' # "SUCCEEDED"
      BY DEF Moving
    <3> QED BY <1>2, <3>1, <3>2 DEF StepWritten, AtStep, Begun, Skipped, SettledAs, Created,
          Reopened
  <2>2. Finalizable /\ pc \in BodyPhases
    BY <2>1 DEF CheckPasses, Ready, HealthOf, BodyPhases
  <2>3. /\ marks' = marks /\ cont' = cont /\ route' = route
        /\ step' = [step EXCEPT !["FINALIZE"] = "SUCCEEDED"]
        /\ desired' = [desired EXCEPT !["source"] =
                         IF "skipped" \in marks THEN "RUNNING" ELSE "STOPPED"]
    BY <2>1 DEF CheckPasses, Verified, Done, routingVars
  <2>4. "skipped" \in marks <=> Runs("source")
    BY <1>0, <2>2 DEF SourceKept, Finalizable
  <2>5. Open(ForwardSteps)' = {}
    BY <1>0, <2>1, <2>2, <2>3, StepNames DEF Onwards, Open
  <2>6. route = "target"
    BY <2>2 DEF Finalizable, ServesTarget
  <2> QED BY <1>0, <2>3, <2>4, <2>5, <2>6 DEF Runs, Deployments
<1> QED BY <1>1, <1>2

\* A forward loop that has run out of steps has FINALIZE behind it.
LEMMA SucceedsFinally ==
  ASSUME PhaseInv, FinalStep, Succeed, OnTime'
  PROVE  Moving /\ step["FINALIZE"] = "SUCCEEDED"
<1>0. step \in [Steps -> {"ABSENT", "PENDING", "RUNNING", "SUCCEEDED", "FAILED", "SKIPPED"}]
  BY DEF PhaseInv, TypeInv, TypeOK, OperationType
<1>1. pc = "next" /\ Moving
  BY DEF Succeed, PhaseInv, PhaseStatus, InForward, Moving
<1>2. step["FINALIZE"] \notin {"ABSENT", "SKIPPED"}
  BY <1>1 DEF FinalStep
<1>3. step["FINALIZE"] \notin {"PENDING", "RUNNING"}
  BY RetirementPlaces DEF Succeed, Open
<1>4. step["FINALIZE"] # "FAILED"
  BY RetirementPlaces DEF Succeed, PassedOver, OnTime
<1> QED BY <1>0, <1>1, <1>2, <1>3, <1>4, RetirementPlaces

\* The three ways of ending SUCCEEDED each find, or inherit from FINALIZE, a serving Target.
LEMMA WonKept ==
  ASSUME PhaseInv, NotRetired, WinInv, [Next]_vars
  PROVE  Won'
<1> SUFFICES ASSUME OnTime', edits' = 0, status' = "SUCCEEDED"
             PROVE  /\ route' = "target" /\ desired'["target"] = "RUNNING"
                    /\ Runs("source")' <=> desired'["source"] = "RUNNING"
  BY DEF Won
<1>0. /\ OnTime /\ edits = 0 /\ ~OperatorSetsRoute /\ PhaseStatus /\ PhaseCur /\ TypeInv
      /\ desired \in [Deployments -> {"RUNNING", "STOPPED"}]
      /\ SourceKept /\ FinalStep /\ Final /\ Won /\ LateStarts
  BY Unedited, MemoryGrows DEF PhaseInv, TypeInv, TypeOK, RowType, WinInv
<1>1. CASE status = "SUCCEEDED"
  <2>1. pc \in {"idle", "entry", "jobdone"}
    BY <1>0, <1>1, StepNames DEF PhaseStatus, PhaseCur, InForward, InBack, Endings, BodyPhases,
      TypeInv, TypeOK, WorkerType, Phases
  <2>2. route' = route
    BY <1>0, <2>1, WhoMovesRoutes DEF ActivateTarget, ActivateSource, routingVars
  <2>3. desired' = desired
    BY <1>1, <2>1, WhoWants DEF Succeed, CheckPasses, NothingToStop, WantSourceStopped,
      StartSource, Mark, Classify, ReconcileSucceeded, ReconcileRolledBack, Sweeping,
      RetryableError, StepError, Calling
  <2>4. Runs("source")' <=> Runs("source")
    BY <1>0, <1>1, <2>1, SourceStops, SourceStarts DEF LateStop, LateStarts
  <2> QED BY <1>0, <1>1, <2>2, <2>3, <2>4 DEF Won
<1>2. CASE status # "SUCCEEDED"
  <2>1. CASE Succeed
    <3>1. Moving /\ step["FINALIZE"] = "SUCCEEDED"
      BY <1>0, <2>1, SucceedsFinally
    <3>2. route' = route /\ cont' = cont
      BY <2>1 DEF Succeed, routingVars
    <3>3. desired' = [desired EXCEPT !["source"] = SourceDesired, !["target"] = "RUNNING"]
      BY <2>1 DEF Succeed
    <3>4. SourceDesired = IF "skipped" \in marks THEN "RUNNING" ELSE "STOPPED"
      BY <1>0, <3>1 DEF Final, SourceDesired, Deployments
    <3> QED BY <1>0, <3>1, <3>2, <3>3, <3>4 DEF Final, Runs, Deployments
  <2>2. CASE Classify
    <3>1. ClassifiedDone /\ route' = route /\ cont' = cont /\ Moving
      BY <1>0, <1>2, <2>2 DEF Classify, routingVars, Moving, PhaseStatus, Endings
    <3>2. /\ desired'["target"] = "RUNNING"
          /\ desired'["source"] = IF "stopBoundary" \in marks THEN "STOPPED" ELSE "RUNNING"
      BY <1>2, <2>2 DEF Classify
    <3>3. Runs("source") <=> "stopBoundary" \notin marks
      BY <1>0, <3>1 DEF ClassifiedDone, NotRetired, SourceKept
    <3> QED BY <3>1, <3>2, <3>3 DEF ClassifiedDone, RouteProven, Runs
  <2>3. CASE ReconcileSucceeded
    BY <2>3 DEF ReconcileSucceeded, RetiredByUs, Retained, Proven, RouteProven, routingVars, Runs
  <2> QED BY <1>2, <2>1, <2>2, <2>3, WhoEnds
<1> QED BY <1>1, <1>2

\* A start is ordered in a rollback, which ends ROLLED_BACK or with the operator.
LEMMA LateStartsKept ==
  ASSUME PhaseInv, BackNeedsCancel, NoBack, LateStarts, [Next]_vars
  PROVE  LateStarts'
<1> SUFFICES ASSUME SourceStart \in late' PROVE ~Moving' /\ status' # "SUCCEEDED"
  BY DEF LateStarts, SourceStart
<1>0. PhaseInv /\ PhaseStatus /\ PhaseOK
  BY DEF PhaseInv, TypeInv
<1>1. ~Moving /\ status # "SUCCEEDED"
  <2>1. CASE SourceStart \in late
    BY <2>1 DEF LateStarts
  <2>2. CASE SourceStart \notin late
    <3>1. SourceStart \in UnderWay
      BY <2>2, WhoIsLate
    <3>2. pc = "call" /\ SourceStart = CommandOf[cur]
      BY <3>1 DEF UnderWay, SourceStart, StopTarget
    <3>3. cur = "HOT_ROLLBACK_START_SOURCE"
      BY <1>0, <3>2 DEF PhaseOK, CommandOf, SourceStart
    <3> QED BY <1>0, <3>2, <3>3, StepNames DEF PhaseStatus, InBack, BodyPhases, BackSteps,
          Back, Moving
  <2> QED BY <2>1, <2>2
<1>2. ~Moving'
  BY <1>1, MovingStays
<1>3. ASSUME status' = "SUCCEEDED" PROVE FALSE
  <2>1. ~Succeed /\ ~Classify
    BY <1>0, <1>1 DEF Succeed, Classify, PhaseStatus, InForward, Endings, Moving
  <2>2. ~ReconcileSucceeded
    BY <1>1 DEF ReconcileSucceeded, RetiredByUs, Retained, Sweeping, Moving
  <2> QED BY <1>1, <1>3, <2>1, <2>2, WhoEnds
<1> QED BY <1>2, <1>3

\* The parts of WinInv hold together, in every state a run reaches.
LEMMA WinsHold == Spec => []WinInv
<1>1. Init => WinInv
  <2> SUFFICES ASSUME Init PROVE WinInv
    OBVIOUS
  <2>1. step["FINALIZE"] = "PENDING"
    BY RetirementPlaces DEF Init
  <2> QED BY <2>1 DEF Init, WinInv, OpenAt, Onwards, BodyPhases, AtRetire, SourceKept, FinalStep,
    Final, Won, LateStarts, Runs, Deployments
<1>2. PhaseInv /\ RollbackInv /\ EndInv /\ WinInv /\ [Next]_vars => WinInv'
  <2> SUFFICES ASSUME PhaseInv, RollbackInv, EndInv, WinInv, [Next]_vars PROVE WinInv'
    OBVIOUS
  <2>1. /\ OpenAt /\ Onwards /\ AtRetire /\ SourceKept /\ FinalStep /\ Final /\ LateStarts
        /\ BackNeedsCancel /\ NoBack /\ NotRetired
    BY DEF WinInv, RollbackInv, EndInv
  <2> QED BY <2>1, OnwardsKept, AtRetireKept, SourceKeptKept, FinalStepKept, FinalKept, WonKept,
        LateStartsKept DEF WinInv
<1> QED BY <1>1, <1>2, PhasesKnown, ServingHolds, EndsHold, PTL DEF Spec

\* SUCCEEDED leaves Target serving and Source in the one state that is meant: kept, running
\* and wanted, or retired, down, unwanted and led to by no route and no snapshot; whichever
\* of the loop's end, a classification or a sweep has written it, and whichever of the two
\* Source's retirement had come to (hot_switch.py, hot_switch_reconcile.py).
THEOREM SuccessIsService == Spec => []SucceededMeansServed
<1>1. ASSUME PhaseInv, EndInv, WinInv, ServeInv PROVE SucceededMeansServed
  <2> SUFFICES ASSUME OnTime, edits = 0, status = "SUCCEEDED"
               PROVE  /\ route = "target" /\ Runs("target") /\ desired["target"] = "RUNNING"
                      /\ Runs("source") <=> desired["source"] = "RUNNING"
                      /\ ~Runs("source") => ~shared /\ gw.active = "target"
    BY DEF SucceededMeansServed
  <2>1. /\ route = "target" /\ desired["target"] = "RUNNING"
        /\ Runs("source") <=> desired["source"] = "RUNNING"
    BY <1>1 DEF WinInv, Won
  <2>2. gw.active \in Deployments
    BY <1>1 DEF EndInv, RouteOwn
  <2> QED BY <1>1, <2>1, <2>2 DEF ServeInv, RoutedRuns, SharedRuns, AppliedRuns, Deployments
<1> QED BY <1>1, PhasesKnown, EndsHold, WinsHold, ServingHolds, PTL
=============================================================================
