----------------------- MODULE ColdSwitchServingProofs ----------------------
(***************************************************************************)
(* Theorems of ColdSwitch about containers and traffic, for every value of *)
(* its constants: what is routed has been probed and runs, Source and      *)
(* Target never run together, Source is stopped drained, and each ending   *)
(* means what it says.                                                     *)
(***************************************************************************)
EXTENDS ColdSwitchProofs

-----------------------------------------------------------------------------
(************************ the tables, spelled out **************************)

\* The steps each table of the step kinds lists.
LEMMA TableDomains ==
  /\ DOMAIN TrafficOf = {"DRAIN_TRAFFIC", "STOP_SOURCE", "RESTORE_TRAFFIC",
                         "ROLLBACK_BLOCK_TRAFFIC", "ROLLBACK_RESTORE_TRAFFIC"}
  /\ DOMAIN ActivateOf = {"ACTIVATE_TARGET_ROUTE", "ROLLBACK_ACTIVATE_SOURCE_ROUTE"}
  /\ DOMAIN CommandOf = {"STOP_SOURCE", "START_TARGET", "ROLLBACK_STOP_TARGET",
                         "ROLLBACK_START_SOURCE"}
  /\ DOMAIN VersionFrom = {"WAIT_ROUTE_APPLY", "WAIT_TRAFFIC_APPLY",
                           "ROLLBACK_WAIT_ROUTE_APPLY"}
  /\ DOMAIN HealthOf = {"WAIT_TARGET_HEALTH", "PROBE_TARGET",
                        "ROLLBACK_WAIT_SOURCE_HEALTH", "ROLLBACK_PROBE_SOURCE"}
BY DEF TrafficOf, ActivateOf, CommandOf, VersionFrom, HealthOf

\* The traffic state each traffic step enters.
LEMMA TrafficTable ==
  /\ TrafficOf["DRAIN_TRAFFIC"] = "DRAINING"
  /\ TrafficOf["STOP_SOURCE"] = "MAINTENANCE"
  /\ TrafficOf["RESTORE_TRAFFIC"] = "SERVING"
  /\ TrafficOf["ROLLBACK_BLOCK_TRAFFIC"] = "MAINTENANCE"
  /\ TrafficOf["ROLLBACK_RESTORE_TRAFFIC"] = "SERVING"
BY DEF TrafficOf

\* The container each command step commands, and to what.
LEMMA CommandTable ==
  /\ CommandOf["STOP_SOURCE"] = [dep |-> "source", to |-> "stopped"]
  /\ CommandOf["START_TARGET"] = [dep |-> "target", to |-> "running"]
  /\ CommandOf["ROLLBACK_STOP_TARGET"] = [dep |-> "target", to |-> "stopped"]
  /\ CommandOf["ROLLBACK_START_SOURCE"] = [dep |-> "source", to |-> "running"]
BY DEF CommandOf

\* The deployment each activation activates.
LEMMA ActivateTable ==
  /\ ActivateOf["ACTIVATE_TARGET_ROUTE"] = "target"
  /\ ActivateOf["ROLLBACK_ACTIVATE_SOURCE_ROUTE"] = "source"
BY DEF ActivateOf

\* Both sequences name each step once.
LEMMA Positions ==
  /\ DOMAIN Forward = 1 .. 14 /\ DOMAIN Rollback = 1 .. 10
  /\ \A i, j \in DOMAIN Forward : Forward[i] = Forward[j] => i = j
  /\ \A i, j \in DOMAIN Rollback : Rollback[i] = Rollback[j] => i = j
<1>1. DOMAIN Forward = 1 .. 14 /\ DOMAIN Rollback = 1 .. 10
  BY DEF Forward, Rollback
<1>2. ASSUME NEW i \in 1 .. 14, NEW j \in 1 .. 14, Forward[i] = Forward[j] PROVE i = j
  BY <1>2 DEF Forward
<1>3. ASSUME NEW i \in 1 .. 10, NEW j \in 1 .. 10, Rollback[i] = Rollback[j] PROVE i = j
  BY <1>3 DEF Rollback
<1> QED BY <1>1, <1>2, <1>3

-----------------------------------------------------------------------------
(****************************** the phases *********************************)

\* The worker is at a step, and the step's row says so.
AtStep   == pc \in StepPhases \cup {"decide"}
FailedAt == {"failed", "aborted"}
Waits    == DOMAIN VersionFrom \cup (DOMAIN TrafficOf \ {"RESTORE_TRAFFIC"})
PhaseCur ==
  /\ AtStep => cur \in Steps
  /\ AtStep => step[cur] = (IF pc \in FailedAt THEN "FAILED" ELSE "RUNNING")
  /\ pc = "record" => cur \in Recorded
  /\ pc \in {"wait", "failing"} => cur \in Waits
  /\ pc = "mark" => cur \in DOMAIN CommandOf
  /\ pc = "body" => cur \notin DOMAIN CommandOf \ {"STOP_SOURCE"}
  /\ pc \in {"record", "wait"} /\ cur \in DOMAIN TrafficOf => traffic = TrafficOf[cur]
\* A phase belongs to a direction, which the operation's status tells.
PhaseStatus ==
  /\ pc # "idle" => status \in {"RUNNING", "ROLLING_BACK"}
  /\ pc \in ForwardPhases \cup {"rollback"} => status = "RUNNING"
  /\ pc \in {"block", "rbnext"} => status = "ROLLING_BACK"
  /\ AtStep => (status = "RUNNING" <=> cur \in ForwardSteps)
  /\ status \in Terminal => job \in {"DONE", "FAILED"}
  /\ pc \in {"cancel", "restore"} => cancel
PhaseInv == TypeInv /\ PhaseCur /\ PhaseStatus

\* Every step keeps the worker's phase, its step and that step's row in agreement.
LEMMA PhaseCurKept == ASSUME PhaseInv, [Next]_vars PROVE PhaseCur'
<1>0. /\ PhaseCur /\ PhaseStatus /\ PhaseOK
      /\ step \in [Steps -> {"ABSENT", "PENDING", "RUNNING", "SUCCEEDED", "FAILED", "SKIPPED"}]
  BY DEF PhaseInv, TypeInv, TypeOK, StepType
<1> USE <1>0 DEF PhaseCur, AtStep, StepPhases, FailedAt, operationVars, routingVars,
  workerVars, OthersUnchanged, Forget
<1>1. CASE BeginForward
  <2>1. PICK i \in DOMAIN Forward : Begin(Forward, i)
    BY <1>1 DEF BeginForward
  <2>2. cur' \in Steps /\ step'[cur'] = "RUNNING"
    BY <2>1 DEF Begin, ForwardSteps, Steps
  <2>3. /\ pc' \in {"body", "call"}
        /\ pc' = "body" => cur' \notin DOMAIN CommandOf \ {"STOP_SOURCE"}
    BY <2>1 DEF Begin
  <2> QED BY <2>2, <2>3
<1>2. CASE BeginRollback
  <2>1. PICK i \in DOMAIN Rollback : Begin(Rollback, i)
    BY <1>2 DEF BeginRollback
  <2>2. cur' \in Steps /\ step'[cur'] = "RUNNING"
    BY <2>1 DEF Begin, RollbackSteps, Steps
  <2>3. /\ pc' \in {"body", "call"}
        /\ pc' = "body" => cur' \notin DOMAIN CommandOf \ {"STOP_SOURCE"}
    BY <2>1 DEF Begin
  <2> QED BY <2>2, <2>3
<1>3. CASE EnterTraffic
  BY <1>3 DEF EnterTraffic, SetTraffic, Recorded
<1>4. CASE ActivateRoute
  BY <1>4, TableDomains DEF ActivateRoute, SetRoute, Recorded
<1>5. CASE RecordVersion
  BY <1>5 DEF RecordVersion, Recorded, Waits
<1>6. CASE StartWait
  BY <1>6, TableDomains DEF StartWait, Waits
<1>7. CASE WaitTimesOut \/ BlockForOperator \/ Reopen \/ RestoreForCancel \/ EnsureRollback
  BY <1>7 DEF WaitTimesOut, BlockForOperator, Reopen, RestoreForCancel, EnsureRollback
<1>8. CASE RequestCancel
  BY <1>8 DEF RequestCancel, PhaseStatus
<1>9. CASE OperatorSetsRoute
  BY <1>9 DEF OperatorSetsRoute, SetRoute
<1>10. CASE Resume
  BY <1>10 DEF Resume, ResumeAt
<1>11. CASE Claim \/ RecoverStale \/ ObserveCancel \/ FinalizeDesired \/ Succeed \/ WaitSatisfied
  BY <1>11 DEF Claim, RecoverStale, ObserveCancel, FinalizeDesired, Succeed, WaitSatisfied
<1>12. CASE FailTimedOut \/ DecideBoundary \/ CallSucceeds \/ RetryableError \/ PermanentError \/
  UnexpectedError
  <2>1. CASE FailTimedOut
    BY <2>1 DEF FailTimedOut
  <2>5. CASE DecideBoundary
    BY <2>5 DEF DecideBoundary
  <2>6. CASE CallSucceeds
    BY <2>6 DEF CallSucceeds, PhaseOK
  <2>2. CASE RetryableError
    BY <2>2 DEF RetryableError
  <2>3. CASE PermanentError
    BY <2>3 DEF PermanentError
  <2>4. CASE UnexpectedError
    BY <2>4 DEF UnexpectedError
  <2> QED BY <1>12, <2>1, <2>2, <2>3, <2>4, <2>5, <2>6
<1>13. CASE MarkRuntime \/ CheckPasses \/ CheckFails \/ Commit \/ StopSourceFailed \/ StepFailed
  BY <1>13 DEF MarkRuntime, CheckPasses, CheckFails, Commit, StopSourceFailed, StepFailed
<1>14. CASE Escalate \/ Fail \/ RestoreTimesOut \/ CancelOperation \/ MarkRollingBack \/
  FinishRollback
  BY <1>14 DEF Escalate, Fail, RestoreTimesOut, CancelOperation, MarkRollingBack, FinishRollback
<1>15. CASE Crash \/ LateEffect \/ StartReload \/ FinishReload \/ Admit \/ Release
  BY <1>15 DEF Crash, LateEffect, StartReload, FinishReload, Admit, Release
<1>16. CASE UNCHANGED vars
  BY <1>16 DEF vars
<1> QED BY <1>1, <1>2, <1>3, <1>4, <1>5, <1>6, <1>7, <1>8, <1>9, <1>10, <1>11, <1>12, <1>13,
  <1>14, <1>15, <1>16 DEF Next, WorkerStep

\* Every step keeps the phase in the direction that the status tells.
LEMMA PhaseStatusKept == ASSUME PhaseInv, [Next]_vars PROVE PhaseStatus'
<1>0. /\ PhaseCur /\ PhaseStatus /\ PhaseOK
      /\ status \in Terminal \cup {"QUEUED", "RUNNING", "ROLLING_BACK"}
  BY DEF PhaseInv, TypeInv, TypeOK, JobType
<1> USE <1>0 DEF PhaseStatus, AtStep, StepPhases, ForwardPhases, operationVars, workerVars,
  OthersUnchanged, Forget
<1>1. CASE Claim
  BY <1>1 DEF Claim, Terminal
<1>2. CASE BeginForward
  <2>1. PICK i \in DOMAIN Forward : Begin(Forward, i)
    BY <1>2 DEF BeginForward
  <2>2. cur' \in ForwardSteps /\ pc' \in {"body", "call"}
    BY <2>1 DEF Begin, ForwardSteps
  <2> QED BY <1>2, <2>2 DEF BeginForward
<1>3. CASE BeginRollback
  <2>1. PICK i \in DOMAIN Rollback : Begin(Rollback, i)
    BY <1>3 DEF BeginRollback
  <2>2. cur' \in RollbackSteps /\ pc' \in {"body", "call"}
    BY <2>1 DEF Begin, RollbackSteps
  <2> QED BY <1>3, <2>2, StepsDisjoint DEF BeginRollback
<1>4. CASE Resume
  BY <1>4 DEF Resume, ResumeAt
<1>5. CASE StopSourceFailed
  BY <1>5, StepsDisjoint DEF StopSourceFailed
<1>6. CASE StepFailed
  BY <1>6, StepsDisjoint DEF StepFailed
<1>7. CASE Reopen
  BY <1>7 DEF Reopen, Destructive, PhaseCur, Steps
<1>8. CASE DecideBoundary
  BY <1>8, StepsDisjoint DEF DecideBoundary, CancelObserved
<1>9. CASE RequestCancel
  BY <1>9 DEF RequestCancel, Terminal
<1>10. CASE RetryableError
  BY <1>10 DEF RetryableError, Terminal
<1>11. CASE RecoverStale
  BY <1>11 DEF RecoverStale, LeaseExpired
<1>12. CASE Succeed \/ Escalate \/ Fail \/ CancelOperation \/ FinishRollback
  BY <1>12 DEF Succeed, Escalate, Fail, CancelOperation, FinishRollback, Terminal
<1>13. CASE MarkRollingBack
  BY <1>13 DEF MarkRollingBack, Terminal
<1>14. CASE Commit
  BY <1>14, StepsDisjoint DEF Commit, PhaseCur, Steps
<1>15. CASE ObserveCancel \/ FinalizeDesired \/ EnterTraffic \/ RecordVersion \/ ActivateRoute \/
  StartWait
  BY <1>15 DEF ObserveCancel, FinalizeDesired, EnterTraffic, RecordVersion, ActivateRoute,
    StartWait
<1>16. CASE WaitSatisfied \/ WaitTimesOut \/ FailTimedOut \/ CallSucceeds \/ PermanentError \/
  UnexpectedError
  <2>1. CASE WaitSatisfied \/ WaitTimesOut \/ FailTimedOut
    BY <2>1, StepsDisjoint DEF WaitSatisfied, WaitTimesOut, FailTimedOut
  <2>2. CASE CallSucceeds \/ PermanentError
    BY <2>2 DEF CallSucceeds, PermanentError
  <2>3. CASE UnexpectedError
    BY <2>3 DEF UnexpectedError
  <2> QED BY <1>16, <2>1, <2>2, <2>3
<1>17. CASE MarkRuntime \/ CheckPasses \/ CheckFails \/ BlockForOperator \/ RestoreForCancel \/
  RestoreTimesOut
  BY <1>17 DEF MarkRuntime, CheckPasses, CheckFails, BlockForOperator, RestoreForCancel,
    RestoreTimesOut
<1>18. CASE EnsureRollback \/ Crash \/ OperatorSetsRoute \/ LateEffect \/ StartReload \/
  FinishReload
  BY <1>18 DEF EnsureRollback, Crash, OperatorSetsRoute, LateEffect, StartReload, FinishReload
<1>19. CASE Admit \/ Release
  BY <1>19 DEF Admit, Release
<1>20. CASE UNCHANGED vars
  BY <1>20 DEF vars
<1> QED BY <1>1, <1>2, <1>3, <1>4, <1>5, <1>6, <1>7, <1>8, <1>9, <1>10, <1>11, <1>12, <1>13,
  <1>14, <1>15, <1>16, <1>17, <1>18, <1>19, <1>20 DEF Next, WorkerStep

\* The phases are known in every reachable state.
LEMMA PhasesKnown == Spec => []PhaseInv
<1>1. Init => PhaseCur /\ PhaseStatus
  BY DEF Init, PhaseCur, PhaseStatus, AtStep, StepPhases, ForwardPhases, Terminal
<1>2. PhaseInv /\ [Next]_vars => PhaseInv'
  BY PhaseCurKept, PhaseStatusKept, TypeStep DEF PhaseInv
<1> QED BY <1>1, <1>2, TypeInit, PTL DEF Spec, PhaseInv

-----------------------------------------------------------------------------
(*************** who writes a step, a status or a phase ********************)

Starts(s) ==
  /\ step[s] \in {"PENDING", "RUNNING"} /\ step'[s] = "RUNNING" /\ cur' = s
  /\ pc = (IF s \in ForwardSteps THEN "next" ELSE "rbnext") /\ pc' \in {"body", "call"}
Settled(s) ==
  /\ cur = s /\ AtStep /\ pc \notin FailedAt
  /\ \/ step'[s] = "SUCCEEDED" /\ pc = "commit"
     \/ step'[s] = "FAILED" /\ pc' \in FailedAt
     \/ step'[s] = "PENDING" /\ pc' = "idle"
Skipped(s) ==
  /\ step[s] \in {"PENDING", "RUNNING"} /\ step'[s] = "SKIPPED"
  /\ \/ status = "QUEUED" /\ status' = "CANCELLED"
     \/ s \in ForwardSteps /\ (CancelOperation \/ EnsureRollback)
Created(s) ==
  s \in RollbackSteps /\ step[s] = "ABSENT" /\ step'[s] = "PENDING" /\ EnsureRollback

\* A step's row changes only as its loop starts it, as it ends, as an ending skips it, or as
\* the rollback creates it.
LEMMA WhoWritesSteps ==
  ASSUME PhaseInv, [Next]_vars, NEW s \in Steps, step'[s] # step[s]
  PROVE  Starts(s) \/ Settled(s) \/ Skipped(s) \/ Created(s)
<1>0. /\ PhaseCur /\ PhaseStatus /\ PhaseOK
      /\ step \in [Steps -> {"ABSENT", "PENDING", "RUNNING", "SUCCEEDED", "FAILED", "SKIPPED"}]
  BY DEF PhaseInv, TypeInv, TypeOK, StepType
<1>a. step' # step
  OBVIOUS
<1> USE <1>0, <1>a DEF OthersUnchanged, operationVars
<1>1. CASE BeginForward
  <2>1. PICK i \in DOMAIN Forward : Begin(Forward, i)
    BY <1>1 DEF BeginForward
  <2>2. /\ s = Forward[i] /\ step'[s] = "RUNNING" /\ step[s] \in {"PENDING", "RUNNING"}
        /\ cur' = s /\ pc' \in {"body", "call"}
    BY <2>1 DEF Begin
  <2> QED BY <1>1, <2>2 DEF Starts, BeginForward, ForwardSteps
<1>2. CASE BeginRollback
  <2>1. PICK i \in DOMAIN Rollback : Begin(Rollback, i)
    BY <1>2 DEF BeginRollback
  <2>2. /\ s = Rollback[i] /\ step'[s] = "RUNNING" /\ step[s] \in {"PENDING", "RUNNING"}
        /\ cur' = s /\ pc' \in {"body", "call"}
    BY <2>1 DEF Begin
  <2>3. s \in RollbackSteps
    BY <2>2 DEF RollbackSteps
  <2> QED BY <1>2, <2>2, <2>3, StepsDisjoint DEF Starts, BeginRollback
<1>3. CASE FailTimedOut \/ CheckFails \/ PermanentError \/ UnexpectedError \/ ActivateRoute
  <2>1. /\ cur = s /\ step'[s] = "FAILED" /\ pc' \in FailedAt
        /\ pc \in {"failing", "body", "call", "commit"}
    BY <1>3 DEF FailTimedOut, CheckFails, PermanentError, UnexpectedError, ActivateRoute, FailedAt
  <2> QED BY <2>1 DEF Settled, AtStep, StepPhases, FailedAt
<1>4. CASE RetryableError
  <2>1. cur = s /\ pc \in {"body", "call"}
    BY <1>4 DEF RetryableError
  <2>2. \/ step'[s] = "PENDING" /\ pc' = "idle"
        \/ step'[s] = "FAILED" /\ pc' = "failed"
    BY <1>4, <2>1 DEF RetryableError, Forget
  <2> QED BY <2>1, <2>2 DEF Settled, AtStep, StepPhases, FailedAt
<1>5. CASE Commit
  <2>1. cur = s /\ step'[s] = "SUCCEEDED" /\ pc = "commit"
    BY <1>5 DEF Commit
  <2> QED BY <2>1 DEF Settled, AtStep, StepPhases, FailedAt
<1>6. CASE CancelOperation
  BY <1>6 DEF CancelOperation, SkipOpen, Skipped
<1>7. CASE RequestCancel
  BY <1>7 DEF RequestCancel, SkipOpen, Skipped
<1>8. CASE EnsureRollback
  <2>1. CASE s \in RollbackSteps
    BY <1>8, <2>1, StepsDisjoint DEF EnsureRollback, SkipOpen, Created
  <2>2. CASE s \in ForwardSteps
    BY <1>8, <2>2, StepsDisjoint DEF EnsureRollback, SkipOpen, Skipped
  <2> QED BY <2>1, <2>2 DEF Steps
<1>9. CASE Claim \/ RecoverStale \/ Resume \/ ObserveCancel \/ FinalizeDesired \/ Succeed
  BY <1>9 DEF Claim, RecoverStale, Resume, ObserveCancel, FinalizeDesired, Succeed
<1>10. CASE EnterTraffic \/ RecordVersion \/ StartWait \/ WaitSatisfied \/ WaitTimesOut \/
  DecideBoundary
  BY <1>10 DEF EnterTraffic, RecordVersion, StartWait, WaitSatisfied, WaitTimesOut, DecideBoundary
<1>11. CASE CallSucceeds \/ MarkRuntime \/ CheckPasses \/ StopSourceFailed \/ StepFailed \/
  BlockForOperator
  BY <1>11 DEF CallSucceeds, MarkRuntime, CheckPasses, StopSourceFailed, StepFailed,
    BlockForOperator
<1>12. CASE Escalate \/ Reopen \/ Fail \/ RestoreForCancel \/ RestoreTimesOut \/ MarkRollingBack
  BY <1>12 DEF Escalate, Reopen, Fail, RestoreForCancel, RestoreTimesOut, MarkRollingBack
<1>13. CASE FinishRollback \/ Crash \/ OperatorSetsRoute \/ LateEffect \/ StartReload \/
  FinishReload
  BY <1>13 DEF FinishRollback, Crash, OperatorSetsRoute, LateEffect, StartReload, FinishReload
<1>14. CASE Admit \/ Release
  BY <1>14 DEF Admit, Release
<1>15. CASE UNCHANGED vars
  BY <1>15 DEF vars
<1> QED BY <1>1, <1>2, <1>3, <1>4, <1>5, <1>6, <1>7, <1>8, <1>9, <1>10, <1>11, <1>12, <1>13,
  <1>14, <1>15 DEF Next, WorkerStep

\* Which actions change the status of the operation, and from what.
LEMMA WhoMovesStatus ==
  ASSUME PhaseInv, [Next]_vars, status' # status
  PROVE  \/ Claim /\ status = "QUEUED" /\ status' = "RUNNING"
         \/ RequestCancel /\ status = "QUEUED" /\ status' = "CANCELLED"
         \/ status = "RUNNING" /\ (Succeed \/ Fail \/ CancelOperation \/ MarkRollingBack)
         \/ status = "ROLLING_BACK" /\ FinishRollback
         \/ status \in {"RUNNING", "ROLLING_BACK"} /\ Escalate
<1>0. PhaseStatus
  BY DEF PhaseInv
<1> USE <1>0 DEF PhaseStatus, ForwardPhases, OthersUnchanged, operationVars
<1>1. CASE Claim
  BY <1>1 DEF Claim
<1>2. CASE RequestCancel
  BY <1>2 DEF RequestCancel
<1>3. CASE Succeed \/ Fail \/ CancelOperation \/ MarkRollingBack \/ FinishRollback \/ Escalate
  BY <1>3 DEF Succeed, Fail, CancelOperation, MarkRollingBack, FinishRollback, Escalate
<1>4. CASE RecoverStale \/ Resume \/ ObserveCancel \/ BeginForward \/ FinalizeDesired \/
  EnterTraffic
  BY <1>4 DEF RecoverStale, Resume, ObserveCancel, BeginForward, FinalizeDesired, EnterTraffic
<1>5. CASE RecordVersion \/ ActivateRoute \/ StartWait \/ WaitSatisfied \/ WaitTimesOut \/
  FailTimedOut
  BY <1>5 DEF RecordVersion, ActivateRoute, StartWait, WaitSatisfied, WaitTimesOut, FailTimedOut
<1>6. CASE DecideBoundary \/ CallSucceeds \/ RetryableError \/ PermanentError \/ UnexpectedError
  \/ MarkRuntime
  BY <1>6 DEF DecideBoundary, CallSucceeds, RetryableError, PermanentError, UnexpectedError,
    MarkRuntime
<1>7. CASE CheckPasses \/ CheckFails \/ Commit \/ StopSourceFailed \/ StepFailed \/
  BlockForOperator
  BY <1>7 DEF CheckPasses, CheckFails, Commit, StopSourceFailed, StepFailed, BlockForOperator
<1>8. CASE Reopen \/ RestoreForCancel \/ RestoreTimesOut \/ EnsureRollback \/ BeginRollback \/
  Crash
  BY <1>8 DEF Reopen, RestoreForCancel, RestoreTimesOut, EnsureRollback, BeginRollback, Crash
<1>9. CASE OperatorSetsRoute \/ LateEffect \/ StartReload \/ FinishReload \/ Admit \/ Release
  BY <1>9 DEF OperatorSetsRoute, LateEffect, StartReload, FinishReload, Admit, Release
<1>10. CASE UNCHANGED vars
  BY <1>10 DEF vars
<1> QED BY <1>1, <1>2, <1>3, <1>4, <1>5, <1>6, <1>7, <1>8, <1>9, <1>10 DEF Next, WorkerStep

\* Which actions lead to a phase.
LEMMA WhoEnters ==
  ASSUME [Next]_vars
  PROVE  /\ AtStep /\ AtStep' => cur' = cur
         /\ AtStep' /\ ~AtStep => BeginForward \/ BeginRollback
         /\ pc \in FailedAt /\ AtStep' => pc' \in FailedAt
         /\ pc' = "commit" /\ pc # "commit"
              => WaitSatisfied \/ MarkRuntime \/ CheckPasses \/ RecordVersion
         /\ pc' = "mark" /\ pc # "mark" => CallSucceeds
         /\ pc' = "call" /\ pc # "call" => DecideBoundary \/ BeginForward \/ BeginRollback
         /\ pc' = "decide" /\ pc # "decide" => WaitSatisfied
         /\ pc' = "record" /\ pc # "record" => EnterTraffic \/ ActivateRoute
         /\ pc' = "cancel" /\ pc # "cancel" => ObserveCancel \/ DecideBoundary
         /\ pc' = "restore" /\ pc # "restore" => RestoreForCancel
         /\ pc' = "failsafe" /\ pc # "failsafe" => Reopen
         /\ pc' = "succeed" /\ pc # "succeed" => FinalizeDesired
         /\ pc' = "block" /\ pc # "block" => Resume \/ MarkRollingBack
         /\ pc' = "rbnext" /\ pc # "rbnext" => EnsureRollback \/ Commit
<1> USE DEF AtStep, StepPhases, FailedAt, OthersUnchanged, workerVars, Forget
<1>1. CASE BeginForward \/ BeginRollback
  BY <1>1 DEF BeginForward, BeginRollback, Begin
<1>2. CASE Resume
  BY <1>2 DEF Resume, ResumeAt
<1>3. CASE Claim \/ RecoverStale \/ ObserveCancel \/ FinalizeDesired
  BY <1>3 DEF Claim, RecoverStale, ObserveCancel, FinalizeDesired
<1>4. CASE Succeed \/ EnterTraffic \/ RecordVersion \/ ActivateRoute
  BY <1>4 DEF Succeed, EnterTraffic, RecordVersion, ActivateRoute
<1>5. CASE StartWait \/ WaitSatisfied \/ WaitTimesOut \/ FailTimedOut
  BY <1>5 DEF StartWait, WaitSatisfied, WaitTimesOut, FailTimedOut
<1>6. CASE DecideBoundary \/ CallSucceeds \/ RetryableError \/ PermanentError
  BY <1>6 DEF DecideBoundary, CallSucceeds, RetryableError, PermanentError
<1>7. CASE UnexpectedError \/ MarkRuntime \/ CheckPasses \/ CheckFails
  BY <1>7 DEF UnexpectedError, MarkRuntime, CheckPasses, CheckFails
<1>8. CASE Commit \/ StopSourceFailed \/ StepFailed \/ BlockForOperator
  BY <1>8 DEF Commit, StopSourceFailed, StepFailed, BlockForOperator
<1>9. CASE Escalate \/ Reopen \/ Fail \/ RestoreForCancel
  BY <1>9 DEF Escalate, Reopen, Fail, RestoreForCancel
<1>10. CASE RestoreTimesOut \/ CancelOperation \/ MarkRollingBack \/ EnsureRollback
  BY <1>10 DEF RestoreTimesOut, CancelOperation, MarkRollingBack, EnsureRollback
<1>11. CASE FinishRollback \/ Crash \/ RequestCancel \/ OperatorSetsRoute
  BY <1>11 DEF FinishRollback, Crash, RequestCancel, OperatorSetsRoute
<1>12. CASE LateEffect \/ StartReload \/ FinishReload \/ Admit
  BY <1>12 DEF LateEffect, StartReload, FinishReload, Admit
<1>13. CASE Release
  BY <1>13 DEF Release
<1>14. CASE UNCHANGED vars
  BY <1>14 DEF vars
<1> QED BY <1>1, <1>2, <1>3, <1>4, <1>5, <1>6, <1>7, <1>8, <1>9, <1>10, <1>11, <1>12, <1>13, <1>14
  DEF Next, WorkerStep

\* A step is done once its effect is certain, its row about to say so.
Done(s) == step[s] = "SUCCEEDED" \/ (pc = "commit" /\ cur = s)

\* A step becomes done in one of four actions, taken by the worker at that very step.
LEMMA NewlyDone ==
  ASSUME PhaseInv, [Next]_vars, NEW s \in Steps, Done(s)', ~Done(s)
  PROVE  /\ cur = s /\ cur' = s /\ pc' = "commit" /\ pc # "commit" /\ AtStep
         /\ WaitSatisfied \/ MarkRuntime \/ CheckPasses \/ RecordVersion
<1>1. step'[s] # "SUCCEEDED"
  <2>1. SUFFICES ASSUME step'[s] = "SUCCEEDED", step[s] # "SUCCEEDED" PROVE FALSE
    BY DEF Done
  <2>2. Starts(s) \/ Settled(s) \/ Skipped(s) \/ Created(s)
    BY <2>1, WhoWritesSteps
  <2> QED BY <2>1, <2>2 DEF Starts, Settled, Skipped, Created, Done
<1>2. pc' = "commit" /\ cur' = s
  BY <1>1 DEF Done
<1>3. AtStep'
  BY <1>2 DEF AtStep, StepPhases
<1>4. pc # "commit"
  <2>1. pc = "commit" => AtStep
    BY DEF AtStep, StepPhases
  <2> QED BY <1>2, <1>3, <2>1, WhoEnters DEF Done
<1>5. WaitSatisfied \/ MarkRuntime \/ CheckPasses \/ RecordVersion
  BY <1>2, <1>4, WhoEnters
<1>6. AtStep
  BY <1>5 DEF WaitSatisfied, MarkRuntime, CheckPasses, RecordVersion, AtStep, StepPhases
<1> QED BY <1>2, <1>3, <1>4, <1>5, <1>6, WhoEnters

-----------------------------------------------------------------------------
(************************ the order of the steps ***************************)

\* No step of the rollback exists before the rollback.
Ahead    == {"QUEUED", "RUNNING", "SUCCEEDED", "FAILED", "CANCELLED"}
NotBegun == status \in Ahead => \A s \in RollbackSteps : step[s] = "ABSENT"
\* What a loop passes over is done or has failed ...
NotSkipped ==
  /\ status \in {"QUEUED", "RUNNING"}
       => \A s \in ForwardSteps : step[s] \notin {"ABSENT", "SKIPPED"}
  /\ \A s \in RollbackSteps : step[s] # "SKIPPED"
\* ... and the rollback never goes on beyond a failure,
Unfailed ==
  pc \in {"block", "rbnext"} \/ (AtStep /\ pc \notin FailedAt /\ cur \in RollbackSteps)
    => \A s \in RollbackSteps : step[s] # "FAILED"
\* nor does it leave a forward step to be taken up.
Closed ==
  pc = "rbnext" \/ (AtStep /\ cur \in RollbackSteps)
    => Open(ForwardSteps) = {} /\ \A s \in RollbackSteps : step[s] # "ABSENT"
\* So whatever comes before the current step has succeeded.
InOrder ==
  /\ Clean /\ AtStep
       => \A i \in DOMAIN Forward : cur = Forward[i]
            => \A k \in 1 .. i - 1 : step[Forward[k]] = "SUCCEEDED"
  /\ AtStep
       => \A i \in DOMAIN Rollback : cur = Rollback[i]
            => \A k \in 1 .. i - 1 : step[Rollback[k]] = "SUCCEEDED"
OrderInv == PhaseInv /\ NotBegun /\ NotSkipped /\ Unfailed /\ Closed /\ InOrder

\* What has happened stays on record ...
LEMMA AnomalyGrows == ASSUME [Next]_vars PROVE anomaly \subseteq anomaly'
<1> USE DEF OthersUnchanged, operationVars
<1>1. CASE Claim \/ RecoverStale \/ Resume \/ ObserveCancel
  BY <1>1 DEF Claim, RecoverStale, Resume, ObserveCancel
<1>2. CASE BeginForward \/ FinalizeDesired \/ Succeed \/ EnterTraffic
  BY <1>2 DEF BeginForward, FinalizeDesired, Succeed, EnterTraffic
<1>3. CASE RecordVersion \/ ActivateRoute \/ StartWait \/ WaitSatisfied
  BY <1>3 DEF RecordVersion, ActivateRoute, StartWait, WaitSatisfied
<1>4. CASE WaitTimesOut \/ FailTimedOut \/ DecideBoundary \/ CallSucceeds
  BY <1>4 DEF WaitTimesOut, FailTimedOut, DecideBoundary, CallSucceeds
<1>5. CASE RetryableError \/ PermanentError \/ UnexpectedError \/ MarkRuntime
  BY <1>5 DEF RetryableError, PermanentError, UnexpectedError, MarkRuntime
<1>6. CASE CheckPasses \/ CheckFails \/ Commit \/ StopSourceFailed
  BY <1>6 DEF CheckPasses, CheckFails, Commit, StopSourceFailed
<1>7. CASE StepFailed \/ BlockForOperator \/ Escalate \/ Reopen
  BY <1>7 DEF StepFailed, BlockForOperator, Escalate, Reopen
<1>8. CASE Fail \/ RestoreForCancel \/ RestoreTimesOut \/ CancelOperation
  BY <1>8 DEF Fail, RestoreForCancel, RestoreTimesOut, CancelOperation
<1>9. CASE MarkRollingBack \/ EnsureRollback \/ BeginRollback \/ FinishRollback
  BY <1>9 DEF MarkRollingBack, EnsureRollback, BeginRollback, FinishRollback
<1>10. CASE Crash \/ RequestCancel \/ OperatorSetsRoute \/ LateEffect
  BY <1>10 DEF Crash, RequestCancel, OperatorSetsRoute, LateEffect
<1>11. CASE StartReload \/ FinishReload \/ Admit \/ Release
  BY <1>11 DEF StartReload, FinishReload, Admit, Release
<1>12. CASE UNCHANGED vars
  BY <1>12 DEF vars
<1> QED BY <1>1, <1>2, <1>3, <1>4, <1>5, <1>6, <1>7, <1>8, <1>9, <1>10, <1>11, <1>12 DEF Next,
  WorkerStep

\* ... and so does the wish to cancel.
LEMMA WishKept == ASSUME [Next]_vars, cancel PROVE cancel'
<1> USE DEF OthersUnchanged, operationVars
<1>1. CASE Claim \/ RecoverStale \/ Resume \/ ObserveCancel
  BY <1>1 DEF Claim, RecoverStale, Resume, ObserveCancel
<1>2. CASE BeginForward \/ FinalizeDesired \/ Succeed \/ EnterTraffic
  BY <1>2 DEF BeginForward, FinalizeDesired, Succeed, EnterTraffic
<1>3. CASE RecordVersion \/ ActivateRoute \/ StartWait \/ WaitSatisfied
  BY <1>3 DEF RecordVersion, ActivateRoute, StartWait, WaitSatisfied
<1>4. CASE WaitTimesOut \/ FailTimedOut \/ DecideBoundary \/ CallSucceeds
  BY <1>4 DEF WaitTimesOut, FailTimedOut, DecideBoundary, CallSucceeds
<1>5. CASE RetryableError \/ PermanentError \/ UnexpectedError \/ MarkRuntime
  BY <1>5 DEF RetryableError, PermanentError, UnexpectedError, MarkRuntime
<1>6. CASE CheckPasses \/ CheckFails \/ Commit \/ StopSourceFailed
  BY <1>6 DEF CheckPasses, CheckFails, Commit, StopSourceFailed
<1>7. CASE StepFailed \/ BlockForOperator \/ Escalate \/ Reopen
  BY <1>7 DEF StepFailed, BlockForOperator, Escalate, Reopen
<1>8. CASE Fail \/ RestoreForCancel \/ RestoreTimesOut \/ CancelOperation
  BY <1>8 DEF Fail, RestoreForCancel, RestoreTimesOut, CancelOperation
<1>9. CASE MarkRollingBack \/ EnsureRollback \/ BeginRollback \/ FinishRollback
  BY <1>9 DEF MarkRollingBack, EnsureRollback, BeginRollback, FinishRollback
<1>10. CASE Crash \/ RequestCancel \/ OperatorSetsRoute \/ LateEffect
  BY <1>10 DEF Crash, RequestCancel, OperatorSetsRoute, LateEffect
<1>11. CASE StartReload \/ FinishReload \/ Admit \/ Release
  BY <1>11 DEF StartReload, FinishReload, Admit, Release
<1>12. CASE UNCHANGED vars
  BY <1>12 DEF vars
<1> QED BY <1>1, <1>2, <1>3, <1>4, <1>5, <1>6, <1>7, <1>8, <1>9, <1>10, <1>11, <1>12 DEF Next,
  WorkerStep

\* So what held without departures so far holds of an earlier state as well.
LEMMA MemoryGrows ==
  ASSUME [Next]_vars
  PROVE  (Clean' => Clean) /\ (OnTime' => OnTime) /\ (OnTime => Clean)
BY AnomalyGrows DEF Clean, OnTime

\* Rollback steps are created by the rollback only.
LEMMA NotBegunKept == ASSUME PhaseInv, NotBegun, [Next]_vars PROVE NotBegun'
<1> SUFFICES ASSUME status' \in Ahead, NEW s \in RollbackSteps PROVE step'[s] = "ABSENT"
  BY DEF NotBegun
<1>0. s \in Steps /\ PhaseStatus /\ PhaseCur
  BY DEF Steps, PhaseInv
<1>1. status \in Ahead
  BY WhoMovesStatus DEF Ahead, MarkRollingBack, FinishRollback, Escalate
<1>2. step[s] = "ABSENT"
  BY <1>1 DEF NotBegun
<1>3. ~Starts(s) /\ ~Skipped(s)
  BY <1>2 DEF Starts, Skipped
<1>4. ~Settled(s)
  BY <1>0, <1>2 DEF Settled, PhaseCur
<1>5. ~Created(s)
  BY <1>0, <1>1 DEF Created, EnsureRollback, PhaseStatus, Ahead
<1> QED BY <1>0, <1>2, <1>3, <1>4, <1>5, WhoWritesSteps

\* Only an operation that ends or rolls back skips steps.
LEMMA NotSkippedKept ==
  ASSUME PhaseInv, NotBegun, NotSkipped, [Next]_vars PROVE NotSkipped'
<1>0. PhaseStatus
  BY DEF PhaseInv
<1>1. ASSUME status' \in {"QUEUED", "RUNNING"}, NEW s \in ForwardSteps
      PROVE  step'[s] \notin {"ABSENT", "SKIPPED"}
  <2>1. status \in {"QUEUED", "RUNNING"}
    BY <1>1, WhoMovesStatus DEF Succeed, Fail, CancelOperation, MarkRollingBack,
      FinishRollback, Escalate
  <2>2. s \in Steps /\ s \notin RollbackSteps /\ step[s] \notin {"ABSENT", "SKIPPED"}
    BY <1>1, <2>1, StepsDisjoint DEF NotSkipped, Steps
  <2>3. ~Skipped(s)
    BY <1>0, <1>1, <2>1 DEF Skipped, CancelOperation, EnsureRollback, PhaseStatus
  <2> QED BY <2>2, <2>3, WhoWritesSteps DEF Starts, Settled, Created
<1>2. ASSUME NEW s \in RollbackSteps PROVE step'[s] # "SKIPPED"
  <2>1. s \in Steps /\ s \notin ForwardSteps /\ step[s] # "SKIPPED"
    BY StepsDisjoint DEF NotSkipped, Steps
  <2>2. ~Skipped(s)
    BY <2>1 DEF Skipped, NotBegun, Ahead
  <2> QED BY <2>1, <2>2, WhoWritesSteps DEF Starts, Settled, Created
<1> QED BY <1>1, <1>2 DEF NotSkipped

\* A rollback step that fails takes the worker out of the rollback loop.
LEMMA UnfailedKept == ASSUME PhaseInv, NotBegun, Unfailed, [Next]_vars PROVE Unfailed'
<1> DEFINE Rolling == \/ pc \in {"block", "rbnext"}
                      \/ AtStep /\ pc \notin FailedAt /\ cur \in RollbackSteps
<1> SUFFICES ASSUME Rolling', NEW s \in RollbackSteps PROVE step'[s] # "FAILED"
  BY DEF Unfailed
<1>0. s \in Steps /\ PhaseStatus
  BY DEF PhaseInv, Steps
<1>1. step[s] # "FAILED"
  <2>1. CASE Rolling
    BY <2>1 DEF Unfailed
  <2>2. CASE Resume
    BY <2>2 DEF Resume, ResumeAt, AtStep, StepPhases
  <2>3. CASE MarkRollingBack
    BY <1>0, <2>3 DEF MarkRollingBack, PhaseStatus, NotBegun, Ahead
  <2>4. CASE EnsureRollback
    BY <2>1, <2>4 DEF EnsureRollback
  <2>5. CASE Commit
    <3>1. pc = "commit" /\ (pc' = "rbnext" => cur \notin ForwardSteps)
      BY <2>5 DEF Commit
    <3>2. AtStep /\ pc \notin FailedAt /\ cur \in Steps
      BY <3>1 DEF AtStep, StepPhases, FailedAt, PhaseInv, PhaseCur
    <3> QED BY <2>1, <2>5, <3>1, <3>2 DEF Commit, AtStep, StepPhases, Steps
  <2>6. CASE BeginForward
    <3>1. cur' \in ForwardSteps /\ pc' \in {"body", "call"}
      BY <2>6 DEF BeginForward, Begin, ForwardSteps
    <3> QED BY <3>1, StepsDisjoint
  <2>7. CASE BeginRollback
    BY <2>1, <2>7 DEF BeginRollback
  <2>8. CASE AtStep /\ AtStep'
    <3>1. cur' = cur
      BY <2>8, WhoEnters
    <3>2. pc \in FailedAt => pc' \in FailedAt
      BY <2>8, WhoEnters
    <3>3. pc' \notin {"block", "rbnext"}
      BY <2>8 DEF AtStep, StepPhases
    <3> QED BY <2>1, <2>8, <3>1, <3>2, <3>3
  <2> QED BY <2>1, <2>2, <2>3, <2>4, <2>5, <2>6, <2>7, <2>8, WhoEnters
<1>2. ~Settled(s) \/ step'[s] # "FAILED"
  BY DEF Settled, FailedAt
<1> QED BY <1>0, <1>1, <1>2, WhoWritesSteps DEF Starts, Skipped, Created

\* The rollback loop is entered with the forward steps closed.
LEMMA ClosedKept == ASSUME PhaseInv, Closed, [Next]_vars PROVE Closed'
<1> DEFINE Rolling == pc = "rbnext" \/ (AtStep /\ cur \in RollbackSteps)
<1>0. /\ PhaseStatus /\ PhaseCur
      /\ step \in [Steps -> {"ABSENT", "PENDING", "RUNNING", "SUCCEEDED", "FAILED", "SKIPPED"}]
  BY DEF PhaseInv, TypeInv, TypeOK, StepType
<1>1. CASE EnsureRollback
  <2>1. ASSUME NEW s \in ForwardSteps PROVE step'[s] \notin {"PENDING", "RUNNING"}
    BY <1>1, StepsDisjoint DEF EnsureRollback, SkipOpen, Steps
  <2>2. ASSUME NEW s \in RollbackSteps PROVE step'[s] # "ABSENT"
    BY <1>1, StepsDisjoint DEF EnsureRollback, SkipOpen, Steps
  <2> QED BY <2>1, <2>2 DEF Closed, Open
<1>2. CASE Rolling /\ ~EnsureRollback
  <2>1. ASSUME NEW s \in ForwardSteps PROVE step'[s] \notin {"PENDING", "RUNNING"}
    <3>1. s \in Steps /\ s \notin RollbackSteps /\ step[s] \notin {"PENDING", "RUNNING"}
      BY <1>2, StepsDisjoint DEF Closed, Open, Steps
    <3>2. ~Settled(s)
      BY <1>0, <1>2, <3>1 DEF Settled, AtStep, StepPhases, PhaseCur
    <3> QED BY <3>1, <3>2, WhoWritesSteps DEF Starts, Skipped, Created
  <2>2. ASSUME NEW s \in RollbackSteps PROVE step'[s] # "ABSENT"
    <3>1. s \in Steps /\ step[s] # "ABSENT"
      BY <1>2 DEF Closed, Steps
    <3> QED BY <3>1, WhoWritesSteps DEF Starts, Settled, Skipped, Created
  <2> QED BY <2>1, <2>2 DEF Closed, Open
<1>3. CASE ~Rolling /\ ~EnsureRollback
  <2>1. ~Rolling'
    <3>1. CASE Commit
      BY <1>0, <1>3, <3>1 DEF Commit, AtStep, StepPhases, PhaseCur, Steps
    <3>2. CASE BeginForward
      <4>1. cur' \in ForwardSteps /\ pc' \in {"body", "call"}
        BY <3>2 DEF BeginForward, Begin, ForwardSteps
      <4> QED BY <4>1, StepsDisjoint
    <3>3. CASE BeginRollback
      BY <1>3, <3>3 DEF BeginRollback
    <3> QED BY <1>3, <3>1, <3>2, <3>3, WhoEnters
  <2> QED BY <2>1 DEF Closed
<1> QED BY <1>1, <1>2, <1>3

\* A loop takes a step only when the steps before it have succeeded.
LEMMA InOrderKept == ASSUME OrderInv, [Next]_vars PROVE InOrder'
<1>0. PhaseStatus /\ PhaseCur /\ NotBegun /\ NotSkipped /\ Unfailed /\ Closed /\ InOrder
  BY DEF OrderInv, PhaseInv
<1>t. step \in [Steps -> {"ABSENT", "PENDING", "RUNNING", "SUCCEEDED", "FAILED", "SKIPPED"}]
  BY DEF OrderInv, PhaseInv, TypeInv, TypeOK, StepType
<1>1. ASSUME AtStep, AtStep', NEW s \in Steps, s # cur, step[s] = "SUCCEEDED"
      PROVE  step'[s] = "SUCCEEDED"
  <2>1. ~Settled(s) /\ ~Starts(s) /\ ~Skipped(s) /\ ~Created(s)
    BY <1>1 DEF Settled, Starts, Skipped, Created
  <2> QED BY <1>1, <2>1, WhoWritesSteps DEF OrderInv
<1>2. ASSUME Clean', AtStep', NEW i \in DOMAIN Forward, cur' = Forward[i], NEW k \in 1 .. i - 1
      PROVE  step'[Forward[k]] = "SUCCEEDED"
  <2>0. k \in DOMAIN Forward /\ Forward[k] \in ForwardSteps /\ Forward[k] \in Steps
        /\ Forward[k] # Forward[i] /\ Forward[i] \in ForwardSteps
    BY Positions DEF ForwardSteps, Steps
  <2>1. CASE AtStep
    <3>1. cur' = cur /\ step[Forward[k]] = "SUCCEEDED"
      BY <1>0, <1>2, <2>1, MemoryGrows, WhoEnters DEF InOrder
    <3> QED BY <1>1, <1>2, <2>0, <2>1, <3>1
  <2>2. CASE BeginForward
    <3>1. PICK j \in DOMAIN Forward :
            /\ Begin(Forward, j)
            /\ anomaly' = IF \E m \in 1 .. j - 1 : step[Forward[m]] = "FAILED"
                            THEN anomaly \cup {"failed step skipped"} ELSE anomaly
      BY <2>2 DEF BeginForward
    <3>2. j = i
      BY <1>2, <3>1, Positions DEF Begin
    <3>3. step[Forward[k]] # "FAILED"
      BY <1>2, <3>1, <3>2 DEF Clean
    <3>4. step[Forward[k]] \notin {"PENDING", "RUNNING", "ABSENT", "SKIPPED"}
      BY <1>0, <2>0, <2>2, <3>1, <3>2 DEF Begin, BeginForward, PhaseStatus, ForwardPhases,
        NotSkipped
    <3>5. step'[Forward[k]] = step[Forward[k]]
      BY <2>0, <3>1, <3>2, <1>t DEF Begin
    <3> QED BY <1>t, <2>0, <3>3, <3>4, <3>5
  <2>3. CASE BeginRollback
    <3>1. cur' \in RollbackSteps
      BY <2>3 DEF BeginRollback, Begin, RollbackSteps
    <3> QED BY <1>2, <2>0, <3>1, StepsDisjoint
  <2> QED BY <1>2, <2>1, <2>2, <2>3, WhoEnters
<1>3. ASSUME AtStep', NEW i \in DOMAIN Rollback, cur' = Rollback[i], NEW k \in 1 .. i - 1
      PROVE  step'[Rollback[k]] = "SUCCEEDED"
  <2>0. k \in DOMAIN Rollback /\ Rollback[k] \in RollbackSteps /\ Rollback[k] \in Steps
        /\ Rollback[k] # Rollback[i] /\ Rollback[i] \in RollbackSteps
    BY Positions DEF RollbackSteps, Steps
  <2>1. CASE AtStep
    <3>1. cur' = cur /\ step[Rollback[k]] = "SUCCEEDED"
      BY <1>0, <1>3, <2>1, WhoEnters DEF InOrder
    <3> QED BY <1>1, <1>3, <2>0, <2>1, <3>1
  <2>2. CASE BeginRollback
    <3>1. PICK j \in DOMAIN Rollback : Begin(Rollback, j)
      BY <2>2 DEF BeginRollback
    <3>2. j = i
      BY <1>3, <3>1, Positions DEF Begin
    <3>3. step[Rollback[k]] \notin {"PENDING", "RUNNING"}
      BY <3>1, <3>2 DEF Begin
    <3>4. step[Rollback[k]] \notin {"FAILED", "ABSENT", "SKIPPED"}
      BY <1>0, <2>0, <2>2 DEF BeginRollback, Unfailed, Closed, NotSkipped
    <3>5. step'[Rollback[k]] = step[Rollback[k]]
      BY <2>0, <3>1, <3>2, <1>t DEF Begin
    <3> QED BY <1>t, <2>0, <3>3, <3>4, <3>5
  <2>3. CASE BeginForward
    <3>1. cur' \in ForwardSteps
      BY <2>3 DEF BeginForward, Begin, ForwardSteps
    <3> QED BY <1>3, <2>0, <3>1, StepsDisjoint
  <2> QED BY <1>3, <2>1, <2>2, <2>3, WhoEnters
<1> QED BY <1>2, <1>3 DEF InOrder

\* The order of the steps holds of a fresh operation.
LEMMA OrderAtStart == Init => OrderInv
<1>1. Init => NotBegun /\ NotSkipped /\ Unfailed /\ Closed /\ InOrder
  BY StepsDisjoint DEF Init, NotBegun, Ahead, NotSkipped, Unfailed, Closed, InOrder, AtStep,
    StepPhases, Steps
<1>2. Init => PhaseCur /\ PhaseStatus
  BY DEF Init, PhaseCur, PhaseStatus, AtStep, StepPhases, ForwardPhases, Terminal
<1> QED BY <1>1, <1>2, TypeInit DEF OrderInv, PhaseInv

\* Every step keeps the order of the steps.
LEMMA OrderKept == ASSUME OrderInv, [Next]_vars PROVE OrderInv'
BY InOrderKept, ClosedKept, UnfailedKept, NotSkippedKept, NotBegunKept, PhaseCurKept,
  PhaseStatusKept, TypeStep DEF OrderInv, PhaseInv

-----------------------------------------------------------------------------
(********* who moves containers, rows, traffic, routes, the gateway ********)

\* A step that succeeded is never written again.
LEMMA SuccessStays ==
  ASSUME PhaseInv, [Next]_vars, NEW s \in Steps, step[s] = "SUCCEEDED"
  PROVE  step'[s] = "SUCCEEDED"
<1>1. ~Settled(s)
  BY DEF Settled, PhaseInv, PhaseCur
<1> QED BY <1>1, WhoWritesSteps DEF Starts, Skipped, Created

\* Nor is one that failed.
LEMMA FailureStays ==
  ASSUME PhaseInv, [Next]_vars, NEW s \in Steps, step[s] = "FAILED"
  PROVE  step'[s] = "FAILED"
<1>1. ~Settled(s)
  BY DEF Settled, PhaseInv, PhaseCur
<1> QED BY <1>1, WhoWritesSteps DEF Starts, Skipped, Created

\* A container is moved by the call of a command step, by the creation of Target's, or late.
LEMMA WhoCommands ==
  ASSUME PhaseInv, [Next]_vars, NEW d \in Deployments, cont'[d] # cont[d]
  PROVE  \/ /\ pc = "call" /\ cur \in DOMAIN CommandOf
            /\ d = CommandOf[cur].dep /\ cont'[d] = CommandOf[cur].to
         \/ cont[d] = "absent" /\ cont'[d] = "stopped"
         \/ LateEffect /\ ~OnTime' /\ \E c \in late : d = c.dep /\ cont'[d] = c.to
<1>0. pc = "call" => cur \in DOMAIN CommandOf
  BY DEF PhaseInv, TypeInv, PhaseOK
<1>t. cont \in [Deployments -> {"absent", "stopped", "running"}]
  BY DEF PhaseInv, TypeInv, TypeOK, NodeType
<1>c. cont' # cont
  OBVIOUS
<1> USE DEF OthersUnchanged, nodeVars
<1>1. CASE CallSucceeds
  BY <1>1, <1>0, <1>t DEF CallSucceeds
<1>2. CASE RetryableError
  <2>1. LosesAnswer
    BY <1>2 DEF RetryableError
  <2>2. /\ pc = "call" /\ cur \in DOMAIN CommandOf
        /\ cont' = [cont EXCEPT ![CommandOf[cur].dep] = CommandOf[cur].to]
    BY <2>1, <1>c DEF LosesAnswer
  <2> QED BY <2>2, <1>t
<1>3. CASE CheckPasses
  <2>1. cont["target"] = "absent" /\ cont' = [cont EXCEPT !["target"] = "stopped"]
    BY <1>3, <1>c DEF CheckPasses
  <2> QED BY <2>1, <1>t
<1>4. CASE LateEffect
  <2>1. PICK c \in late :
          cont' = IF cont[c.dep] = "absent" THEN cont ELSE [cont EXCEPT ![c.dep] = c.to]
    BY <1>4 DEF LateEffect
  <2>2. d = c.dep /\ cont'[d] = c.to
    BY <2>1, <1>c, <1>t
  <2>3. ~OnTime'
    BY <1>4, <1>c DEF LateEffect, OnTime
  <2> QED BY <1>4, <2>2, <2>3
<1>5. CASE Claim \/ RecoverStale \/ Resume \/ ObserveCancel \/ BeginForward \/ FinalizeDesired
  BY <1>5 DEF Claim, RecoverStale, Resume, ObserveCancel, BeginForward, FinalizeDesired
<1>6. CASE Succeed \/ EnterTraffic \/ RecordVersion \/ ActivateRoute \/ StartWait \/ WaitSatisfied
  BY <1>6 DEF Succeed, EnterTraffic, RecordVersion, ActivateRoute, StartWait, WaitSatisfied
<1>7. CASE WaitTimesOut \/ FailTimedOut \/ DecideBoundary \/ PermanentError \/ UnexpectedError \/
  MarkRuntime
  BY <1>7 DEF WaitTimesOut, FailTimedOut, DecideBoundary, PermanentError, UnexpectedError,
    MarkRuntime
<1>8. CASE CheckFails \/ Commit \/ StopSourceFailed \/ StepFailed \/ BlockForOperator \/ Escalate
  BY <1>8 DEF CheckFails, Commit, StopSourceFailed, StepFailed, BlockForOperator, Escalate
<1>9. CASE Reopen \/ Fail \/ RestoreForCancel \/ RestoreTimesOut \/ CancelOperation \/
  MarkRollingBack
  BY <1>9 DEF Reopen, Fail, RestoreForCancel, RestoreTimesOut, CancelOperation, MarkRollingBack
<1>10. CASE EnsureRollback \/ BeginRollback \/ FinishRollback \/ Crash \/ RequestCancel \/
  OperatorSetsRoute
  BY <1>10 DEF EnsureRollback, BeginRollback, FinishRollback, Crash, RequestCancel,
    OperatorSetsRoute
<1>11. CASE StartReload \/ FinishReload \/ Admit \/ Release
  BY <1>11 DEF StartReload, FinishReload, Admit, Release
<1>12. CASE UNCHANGED vars
  BY <1>12 DEF vars
<1> QED BY <1>1, <1>2, <1>3, <1>4, <1>5, <1>6, <1>7, <1>8, <1>9, <1>10, <1>11, <1>12 DEF Next,
  WorkerStep

\* The two steps that start a container.
LEMMA WhoStarts ==
  ASSUME PhaseInv, [Next]_vars, NEW d \in Deployments, cont'[d] = "running", cont[d] # "running"
  PROVE  \/ pc = "call" /\ cur = "START_TARGET" /\ d = "target"
         \/ pc = "call" /\ cur = "ROLLBACK_START_SOURCE" /\ d = "source"
         \/ ~OnTime' /\ \E c \in late : d = c.dep /\ c.to = "running"
BY WhoCommands, TableDomains, CommandTable

\* The two steps that stop one.
LEMMA WhoStops ==
  ASSUME PhaseInv, [Next]_vars, NEW d \in Deployments, cont[d] = "running", cont'[d] # "running"
  PROVE  \/ pc = "call" /\ cur = "STOP_SOURCE" /\ d = "source"
         \/ pc = "call" /\ cur = "ROLLBACK_STOP_TARGET" /\ d = "target"
         \/ ~OnTime' /\ \E c \in late : d = c.dep /\ c.to = "stopped"
<1>1. CASE pc = "call" /\ cur \in DOMAIN CommandOf
             /\ d = CommandOf[cur].dep /\ cont'[d] = CommandOf[cur].to
  BY <1>1, TableDomains, CommandTable
<1>2. CASE LateEffect /\ ~OnTime' /\ \E c \in late : d = c.dep /\ cont'[d] = c.to
  <2>1. PICK c \in late : d = c.dep /\ cont'[d] = c.to
    BY <1>2
  <2>2. c.to \in {"stopped", "running"}
    BY DEF PhaseInv, TypeInv, TypeOK, NodeType
  <2> QED BY <1>2, <2>1, <2>2
<1> QED BY <1>1, <1>2, WhoCommands

\* A command is left running on the node only by the step that called it.
LEMMA WhoDelays ==
  ASSUME PhaseInv, [Next]_vars, NEW c \in late', c \notin late
  PROVE  pc = "call" /\ cur \in DOMAIN CommandOf /\ c = CommandOf[cur]
<1> USE DEF OthersUnchanged, nodeVars
<1>1. CASE RetryableError
  BY <1>1 DEF RetryableError, LosesAnswer
<1>2. CASE LateEffect
  BY <1>2 DEF LateEffect
<1>3. CASE Claim \/ RecoverStale \/ Resume \/ ObserveCancel \/ BeginForward \/ FinalizeDesired
  BY <1>3 DEF Claim, RecoverStale, Resume, ObserveCancel, BeginForward, FinalizeDesired
<1>4. CASE Succeed \/ EnterTraffic \/ RecordVersion \/ ActivateRoute \/ StartWait \/ WaitSatisfied
  BY <1>4 DEF Succeed, EnterTraffic, RecordVersion, ActivateRoute, StartWait, WaitSatisfied
<1>5. CASE WaitTimesOut \/ FailTimedOut \/ DecideBoundary \/ CallSucceeds \/ PermanentError \/
  UnexpectedError
  BY <1>5 DEF WaitTimesOut, FailTimedOut, DecideBoundary, CallSucceeds, PermanentError,
    UnexpectedError
<1>6. CASE MarkRuntime \/ CheckPasses \/ CheckFails \/ Commit \/ StopSourceFailed \/ StepFailed
  BY <1>6 DEF MarkRuntime, CheckPasses, CheckFails, Commit, StopSourceFailed, StepFailed
<1>7. CASE BlockForOperator \/ Escalate \/ Reopen \/ Fail \/ RestoreForCancel \/ RestoreTimesOut
  BY <1>7 DEF BlockForOperator, Escalate, Reopen, Fail, RestoreForCancel, RestoreTimesOut
<1>8. CASE CancelOperation \/ MarkRollingBack \/ EnsureRollback \/ BeginRollback \/ FinishRollback
  \/ Crash
  BY <1>8 DEF CancelOperation, MarkRollingBack, EnsureRollback, BeginRollback, FinishRollback,
    Crash
<1>9. CASE RequestCancel \/ OperatorSetsRoute \/ StartReload \/ FinishReload \/ Admit \/ Release
  BY <1>9 DEF RequestCancel, OperatorSetsRoute, StartReload, FinishReload, Admit, Release
<1>10. CASE UNCHANGED vars
  BY <1>10 DEF vars
<1> QED BY <1>1, <1>2, <1>3, <1>4, <1>5, <1>6, <1>7, <1>8, <1>9, <1>10 DEF Next, WorkerStep

\* A runtime row is written by the step whose command came back, and by the inspection after
\* a failed stop.
LEMMA WhoMarks ==
  ASSUME PhaseInv, [Next]_vars, NEW d \in Deployments, rt'[d] # rt[d]
  PROVE  \/ pc = "mark" /\ cur = "STOP_SOURCE" /\ d = "source" /\ rt'[d] = "STOPPED"
         \/ pc = "mark" /\ cur = "START_TARGET" /\ d = "target" /\ rt'[d] = "RUNNING"
         \/ pc = "mark" /\ cur = "ROLLBACK_STOP_TARGET" /\ d = "target" /\ rt'[d] = "STOPPED"
         \/ pc = "mark" /\ cur = "ROLLBACK_START_SOURCE" /\ d = "source" /\ rt'[d] = "RUNNING"
         \/ /\ StopSourceFailed /\ pc = "failed" /\ cur = "STOP_SOURCE" /\ d = "source"
            /\ IF cont["source"] = "running" THEN rt'[d] = "RUNNING" ELSE rt'[d] = "STOPPED"
<1>t. rt \in [Deployments -> {"CREATED", "RUNNING", "STOPPED"}]
  BY DEF PhaseInv, TypeInv, TypeOK, DeployType
<1> USE DEF OthersUnchanged, deployVars
<1>1. CASE MarkRuntime
  <2>1. pc = "mark" /\ cur \in DOMAIN CommandOf
    BY <1>1 DEF MarkRuntime, PhaseInv, PhaseCur
  <2>2. d = CommandOf[cur].dep
        /\ rt'[d] = (IF CommandOf[cur].to = "running" THEN "RUNNING" ELSE "STOPPED")
    BY <1>1, <1>t DEF MarkRuntime
  <2> QED BY <2>1, <2>2, TableDomains, CommandTable
<1>2. CASE StopSourceFailed
  <2>1. CASE UNCHANGED <<boundary, rt>>
    BY <2>1
  <2>2. CASE cont["source"] = "running" /\ rt' = [rt EXCEPT !["source"] = "RUNNING"]
    BY <1>2, <2>2, <1>t DEF StopSourceFailed
  <2>3. CASE cont["source"] # "running" /\ rt' = [rt EXCEPT !["source"] = "STOPPED"]
    BY <1>2, <2>3, <1>t DEF StopSourceFailed
  <2> QED BY <1>2, <2>1, <2>2, <2>3 DEF StopSourceFailed
<1>3. CASE Claim \/ RecoverStale \/ Resume \/ ObserveCancel \/ BeginForward \/ FinalizeDesired
  BY <1>3 DEF Claim, RecoverStale, Resume, ObserveCancel, BeginForward, FinalizeDesired
<1>4. CASE Succeed \/ EnterTraffic \/ RecordVersion \/ ActivateRoute \/ StartWait \/ WaitSatisfied
  BY <1>4 DEF Succeed, EnterTraffic, RecordVersion, ActivateRoute, StartWait, WaitSatisfied
<1>5. CASE WaitTimesOut \/ FailTimedOut \/ DecideBoundary \/ CallSucceeds \/ RetryableError \/
  PermanentError
  BY <1>5 DEF WaitTimesOut, FailTimedOut, DecideBoundary, CallSucceeds, RetryableError,
    PermanentError
<1>6. CASE UnexpectedError \/ CheckPasses \/ CheckFails \/ Commit \/ StepFailed \/
  BlockForOperator
  BY <1>6 DEF UnexpectedError, CheckPasses, CheckFails, Commit, StepFailed, BlockForOperator
<1>7. CASE Escalate \/ Reopen \/ Fail \/ RestoreForCancel \/ RestoreTimesOut \/ CancelOperation
  BY <1>7 DEF Escalate, Reopen, Fail, RestoreForCancel, RestoreTimesOut, CancelOperation
<1>8. CASE MarkRollingBack \/ EnsureRollback \/ BeginRollback \/ FinishRollback \/ Crash \/
  RequestCancel
  BY <1>8 DEF MarkRollingBack, EnsureRollback, BeginRollback, FinishRollback, Crash, RequestCancel
<1>9. CASE OperatorSetsRoute \/ LateEffect \/ StartReload \/ FinishReload \/ Admit \/ Release
  BY <1>9 DEF OperatorSetsRoute, LateEffect, StartReload, FinishReload, Admit, Release
<1>10. CASE UNCHANGED vars
  BY <1>10 DEF vars
<1> QED BY <1>1, <1>2, <1>3, <1>4, <1>5, <1>6, <1>7, <1>8, <1>9, <1>10 DEF Next, WorkerStep

\* Traffic is opened by the two restoring steps and the two endings without effect.
LEMMA WhoServes ==
  ASSUME [Next]_vars, traffic' = "SERVING", traffic # "SERVING"
  PROVE  \/ EnterTraffic /\ cur \in {"RESTORE_TRAFFIC", "ROLLBACK_RESTORE_TRAFFIC"}
         \/ Reopen \/ RestoreForCancel
<1> USE DEF OthersUnchanged, routingVars, SetTraffic, SetRoute
<1>1. CASE EnterTraffic
  BY <1>1, TableDomains, TrafficTable DEF EnterTraffic
<1>2. CASE WaitTimesOut
  BY <1>2 DEF WaitTimesOut
<1>3. CASE BlockForOperator
  BY <1>3 DEF BlockForOperator, TrafficAtEnd
<1>4. CASE Reopen \/ RestoreForCancel
  BY <1>4
<1>5. CASE EnsureRollback
  BY <1>5 DEF EnsureRollback
<1>6. CASE Claim \/ RecoverStale \/ Resume \/ ObserveCancel \/ BeginForward \/ FinalizeDesired
  BY <1>6 DEF Claim, RecoverStale, Resume, ObserveCancel, BeginForward, FinalizeDesired
<1>7. CASE Succeed \/ RecordVersion \/ ActivateRoute \/ StartWait \/ WaitSatisfied \/ FailTimedOut
  BY <1>7 DEF Succeed, RecordVersion, ActivateRoute, StartWait, WaitSatisfied, FailTimedOut
<1>8. CASE DecideBoundary \/ CallSucceeds \/ RetryableError \/ PermanentError \/ UnexpectedError
  \/ MarkRuntime
  BY <1>8 DEF DecideBoundary, CallSucceeds, RetryableError, PermanentError, UnexpectedError,
    MarkRuntime
<1>9. CASE CheckPasses \/ CheckFails \/ Commit \/ StopSourceFailed \/ StepFailed \/ Escalate
  BY <1>9 DEF CheckPasses, CheckFails, Commit, StopSourceFailed, StepFailed, Escalate
<1>10. CASE Fail \/ RestoreTimesOut \/ CancelOperation \/ MarkRollingBack \/ BeginRollback \/
  FinishRollback
  BY <1>10 DEF Fail, RestoreTimesOut, CancelOperation, MarkRollingBack, BeginRollback,
    FinishRollback
<1>11. CASE Crash \/ RequestCancel \/ OperatorSetsRoute \/ LateEffect \/ StartReload \/
  FinishReload
  BY <1>11 DEF Crash, RequestCancel, OperatorSetsRoute, LateEffect, StartReload, FinishReload
<1>12. CASE Admit \/ Release
  BY <1>12 DEF Admit, Release
<1>13. CASE UNCHANGED vars
  BY <1>13 DEF vars
<1> QED BY <1>1, <1>2, <1>3, <1>4, <1>5, <1>6, <1>7, <1>8, <1>9, <1>10, <1>11, <1>12, <1>13 DEF
  Next, WorkerStep

\* Traffic is closed by a step, for the operator, or as the rollback begins.
LEMMA WhoCloses ==
  ASSUME [Next]_vars, traffic = "SERVING", traffic' # "SERVING"
  PROVE  \/ pc \in {"body", "wait"}
         \/ pc \in {"manual", "aborted"} /\ pc' = "escalate"
         \/ EnsureRollback
<1> USE DEF OthersUnchanged, routingVars, SetTraffic, SetRoute
<1>1. CASE EnterTraffic
  BY <1>1 DEF EnterTraffic
<1>2. CASE WaitTimesOut
  BY <1>2 DEF WaitTimesOut
<1>3. CASE BlockForOperator
  BY <1>3 DEF BlockForOperator
<1>4. CASE Reopen
  BY <1>4 DEF Reopen, TrafficAtEnd
<1>5. CASE RestoreForCancel
  BY <1>5 DEF RestoreForCancel
<1>6. CASE EnsureRollback
  BY <1>6
<1>7. CASE Claim \/ RecoverStale \/ Resume \/ ObserveCancel \/ BeginForward \/ FinalizeDesired
  BY <1>7 DEF Claim, RecoverStale, Resume, ObserveCancel, BeginForward, FinalizeDesired
<1>8. CASE Succeed \/ RecordVersion \/ ActivateRoute \/ StartWait \/ WaitSatisfied \/ FailTimedOut
  BY <1>8 DEF Succeed, RecordVersion, ActivateRoute, StartWait, WaitSatisfied, FailTimedOut
<1>9. CASE DecideBoundary \/ CallSucceeds \/ RetryableError \/ PermanentError \/ UnexpectedError
  \/ MarkRuntime
  BY <1>9 DEF DecideBoundary, CallSucceeds, RetryableError, PermanentError, UnexpectedError,
    MarkRuntime
<1>10. CASE CheckPasses \/ CheckFails \/ Commit \/ StopSourceFailed \/ StepFailed \/ Escalate
  BY <1>10 DEF CheckPasses, CheckFails, Commit, StopSourceFailed, StepFailed, Escalate
<1>11. CASE Fail \/ RestoreTimesOut \/ CancelOperation \/ MarkRollingBack \/ BeginRollback \/
  FinishRollback
  BY <1>11 DEF Fail, RestoreTimesOut, CancelOperation, MarkRollingBack, BeginRollback,
    FinishRollback
<1>12. CASE Crash \/ RequestCancel \/ OperatorSetsRoute \/ LateEffect \/ StartReload \/
  FinishReload
  BY <1>12 DEF Crash, RequestCancel, OperatorSetsRoute, LateEffect, StartReload, FinishReload
<1>13. CASE Admit \/ Release
  BY <1>13 DEF Admit, Release
<1>14. CASE UNCHANGED vars
  BY <1>14 DEF vars
<1> QED BY <1>1, <1>2, <1>3, <1>4, <1>5, <1>6, <1>7, <1>8, <1>9, <1>10, <1>11, <1>12, <1>13, <1>14
  DEF Next, WorkerStep

\* The route is moved by the two activations, and by the operator to what runs.
LEMMA WhoRoutes ==
  ASSUME [Next]_vars, route' # route
  PROVE  \/ pc = "body" /\ cur = "ACTIVATE_TARGET_ROUTE" /\ route' = "target"
         \/ pc = "body" /\ cur = "ROLLBACK_ACTIVATE_SOURCE_ROUTE" /\ route' = "source"
         \/ /\ OperatorSetsRoute
            /\ route' \in Deployments => desired[route'] = "RUNNING" /\ rt[route'] = "RUNNING"
<1> USE DEF OthersUnchanged, routingVars, SetTraffic, SetRoute
<1>1. CASE ActivateRoute
  BY <1>1, TableDomains, ActivateTable DEF ActivateRoute
<1>2. CASE OperatorSetsRoute
  BY <1>2 DEF OperatorSetsRoute
<1>3. CASE EnterTraffic \/ WaitTimesOut
  BY <1>3 DEF EnterTraffic, WaitTimesOut
<1>4. CASE BlockForOperator \/ Reopen
  BY <1>4 DEF BlockForOperator, Reopen
<1>5. CASE RestoreForCancel \/ EnsureRollback
  BY <1>5 DEF RestoreForCancel, EnsureRollback
<1>6. CASE Claim \/ RecoverStale \/ Resume \/ ObserveCancel \/ BeginForward \/ FinalizeDesired
  BY <1>6 DEF Claim, RecoverStale, Resume, ObserveCancel, BeginForward, FinalizeDesired
<1>7. CASE Succeed \/ RecordVersion \/ StartWait \/ WaitSatisfied \/ FailTimedOut \/
  DecideBoundary
  BY <1>7 DEF Succeed, RecordVersion, StartWait, WaitSatisfied, FailTimedOut, DecideBoundary
<1>8. CASE CallSucceeds \/ RetryableError \/ PermanentError \/ UnexpectedError \/ MarkRuntime \/
  CheckPasses
  BY <1>8 DEF CallSucceeds, RetryableError, PermanentError, UnexpectedError, MarkRuntime,
    CheckPasses
<1>9. CASE CheckFails \/ Commit \/ StopSourceFailed \/ StepFailed \/ Escalate \/ Fail
  BY <1>9 DEF CheckFails, Commit, StopSourceFailed, StepFailed, Escalate, Fail
<1>10. CASE RestoreTimesOut \/ CancelOperation \/ MarkRollingBack \/ BeginRollback \/
  FinishRollback \/ Crash
  BY <1>10 DEF RestoreTimesOut, CancelOperation, MarkRollingBack, BeginRollback, FinishRollback,
    Crash
<1>11. CASE RequestCancel \/ LateEffect \/ StartReload \/ FinishReload \/ Admit \/ Release
  BY <1>11 DEF RequestCancel, LateEffect, StartReload, FinishReload, Admit, Release
<1>12. CASE UNCHANGED vars
  BY <1>12 DEF vars
<1> QED BY <1>1, <1>2, <1>3, <1>4, <1>5, <1>6, <1>7, <1>8, <1>9, <1>10, <1>11, <1>12 DEF Next,
  WorkerStep

\* The gateway's snapshot is replaced by the rows as they are.
LEMMA WhoReloads ==
  ASSUME [Next]_vars, gw' # gw
  PROVE  gw'.traffic = traffic /\ gw'.active = route /\ UNCHANGED <<traffic, route, cont>>
<1> USE DEF OthersUnchanged, gatewayVars
<1>1. CASE FinishReload
  BY <1>1 DEF FinishReload, routingVars, nodeVars
<1>2. CASE Claim \/ RecoverStale \/ Resume \/ ObserveCancel \/ BeginForward \/ FinalizeDesired
  BY <1>2 DEF Claim, RecoverStale, Resume, ObserveCancel, BeginForward, FinalizeDesired
<1>3. CASE Succeed \/ EnterTraffic \/ RecordVersion \/ ActivateRoute \/ StartWait \/ WaitSatisfied
  BY <1>3 DEF Succeed, EnterTraffic, RecordVersion, ActivateRoute, StartWait, WaitSatisfied
<1>4. CASE WaitTimesOut \/ FailTimedOut \/ DecideBoundary \/ CallSucceeds \/ RetryableError \/
  PermanentError
  BY <1>4 DEF WaitTimesOut, FailTimedOut, DecideBoundary, CallSucceeds, RetryableError,
    PermanentError
<1>5. CASE UnexpectedError \/ MarkRuntime \/ CheckPasses \/ CheckFails \/ Commit \/
  StopSourceFailed
  BY <1>5 DEF UnexpectedError, MarkRuntime, CheckPasses, CheckFails, Commit, StopSourceFailed
<1>6. CASE StepFailed \/ BlockForOperator \/ Escalate \/ Reopen \/ Fail \/ RestoreForCancel
  BY <1>6 DEF StepFailed, BlockForOperator, Escalate, Reopen, Fail, RestoreForCancel
<1>7. CASE RestoreTimesOut \/ CancelOperation \/ MarkRollingBack \/ EnsureRollback \/
  BeginRollback \/ FinishRollback
  BY <1>7 DEF RestoreTimesOut, CancelOperation, MarkRollingBack, EnsureRollback, BeginRollback,
    FinishRollback
<1>8. CASE Crash \/ RequestCancel \/ OperatorSetsRoute \/ LateEffect \/ StartReload \/ Admit
  BY <1>8 DEF Crash, RequestCancel, OperatorSetsRoute, LateEffect, StartReload, Admit
<1>9. CASE Release
  BY <1>9 DEF Release
<1>10. CASE UNCHANGED vars
  BY <1>10 DEF vars
<1> QED BY <1>1, <1>2, <1>3, <1>4, <1>5, <1>6, <1>7, <1>8, <1>9, <1>10 DEF Next, WorkerStep

\* A request enters only while the snapshot says SERVING.
LEMMA WhoAdmits ==
  ASSUME PhaseInv, [Next]_vars, NEW d \in Deployments, infl[d] = 0, infl'[d] # 0
  PROVE  gw.traffic = "SERVING"
<1>t. infl \in [Deployments -> Nat]
  BY DEF PhaseInv, TypeInv, TypeOK, GatewayType
<1> USE DEF OthersUnchanged, gatewayVars
<1>1. CASE Admit
  BY <1>1 DEF Admit
<1>2. CASE Release
  <2>1. PICK e \in Deployments : infl[e] > 0 /\ infl' = [infl EXCEPT ![e] = @ - 1]
    BY <1>2 DEF Release
  <2> QED BY <2>1, <1>t
<1>3. CASE Claim \/ RecoverStale \/ Resume \/ ObserveCancel \/ BeginForward \/ FinalizeDesired
  BY <1>3 DEF Claim, RecoverStale, Resume, ObserveCancel, BeginForward, FinalizeDesired
<1>4. CASE Succeed \/ EnterTraffic \/ RecordVersion \/ ActivateRoute \/ StartWait \/ WaitSatisfied
  BY <1>4 DEF Succeed, EnterTraffic, RecordVersion, ActivateRoute, StartWait, WaitSatisfied
<1>5. CASE WaitTimesOut \/ FailTimedOut \/ DecideBoundary \/ CallSucceeds \/ RetryableError \/
  PermanentError
  BY <1>5 DEF WaitTimesOut, FailTimedOut, DecideBoundary, CallSucceeds, RetryableError,
    PermanentError
<1>6. CASE UnexpectedError \/ MarkRuntime \/ CheckPasses \/ CheckFails \/ Commit \/
  StopSourceFailed
  BY <1>6 DEF UnexpectedError, MarkRuntime, CheckPasses, CheckFails, Commit, StopSourceFailed
<1>7. CASE StepFailed \/ BlockForOperator \/ Escalate \/ Reopen \/ Fail \/ RestoreForCancel
  BY <1>7 DEF StepFailed, BlockForOperator, Escalate, Reopen, Fail, RestoreForCancel
<1>8. CASE RestoreTimesOut \/ CancelOperation \/ MarkRollingBack \/ EnsureRollback \/
  BeginRollback \/ FinishRollback
  BY <1>8 DEF RestoreTimesOut, CancelOperation, MarkRollingBack, EnsureRollback, BeginRollback,
    FinishRollback
<1>9. CASE Crash \/ RequestCancel \/ OperatorSetsRoute \/ LateEffect \/ StartReload \/
  FinishReload
  BY <1>9 DEF Crash, RequestCancel, OperatorSetsRoute, LateEffect, StartReload, FinishReload
<1>10. CASE UNCHANGED vars
  BY <1>10 DEF vars
<1> QED BY <1>1, <1>2, <1>3, <1>4, <1>5, <1>6, <1>7, <1>8, <1>9, <1>10 DEF Next, WorkerStep

\* The boundary is crossed in one place ...
LEMMA WhoDecides ==
  ASSUME [Next]_vars, ~boundary, boundary'
  PROVE  pc = "decide" /\ pc' = "call"
<1> USE DEF OthersUnchanged, operationVars
<1>1. CASE DecideBoundary
  BY <1>1 DEF DecideBoundary
<1>2. CASE StopSourceFailed
  BY <1>2 DEF StopSourceFailed
<1>3. CASE Claim \/ RecoverStale \/ Resume \/ ObserveCancel \/ BeginForward \/ FinalizeDesired
  BY <1>3 DEF Claim, RecoverStale, Resume, ObserveCancel, BeginForward, FinalizeDesired
<1>4. CASE Succeed \/ EnterTraffic \/ RecordVersion \/ ActivateRoute \/ StartWait \/ WaitSatisfied
  BY <1>4 DEF Succeed, EnterTraffic, RecordVersion, ActivateRoute, StartWait, WaitSatisfied
<1>5. CASE WaitTimesOut \/ FailTimedOut \/ CallSucceeds \/ RetryableError \/ PermanentError \/
  UnexpectedError
  BY <1>5 DEF WaitTimesOut, FailTimedOut, CallSucceeds, RetryableError, PermanentError,
    UnexpectedError
<1>6. CASE MarkRuntime \/ CheckPasses \/ CheckFails \/ Commit \/ StepFailed \/ BlockForOperator
  BY <1>6 DEF MarkRuntime, CheckPasses, CheckFails, Commit, StepFailed, BlockForOperator
<1>7. CASE Escalate \/ Reopen \/ Fail \/ RestoreForCancel \/ RestoreTimesOut \/ CancelOperation
  BY <1>7 DEF Escalate, Reopen, Fail, RestoreForCancel, RestoreTimesOut, CancelOperation
<1>8. CASE MarkRollingBack \/ EnsureRollback \/ BeginRollback \/ FinishRollback \/ Crash \/
  RequestCancel
  BY <1>8 DEF MarkRollingBack, EnsureRollback, BeginRollback, FinishRollback, Crash, RequestCancel
<1>9. CASE OperatorSetsRoute \/ LateEffect \/ StartReload \/ FinishReload \/ Admit \/ Release
  BY <1>9 DEF OperatorSetsRoute, LateEffect, StartReload, FinishReload, Admit, Release
<1>10. CASE UNCHANGED vars
  BY <1>10 DEF vars
<1> QED BY <1>1, <1>2, <1>3, <1>4, <1>5, <1>6, <1>7, <1>8, <1>9, <1>10 DEF Next, WorkerStep

\* ... and taken back in one, with Source found running.
LEMMA WhoTakesBack ==
  ASSUME PhaseInv, [Next]_vars, boundary, ~boundary'
  PROVE  /\ pc = "failed" /\ pc' = "aborted" /\ cur = "STOP_SOURCE" /\ UNCHANGED <<step, cont>>
         /\ cont["source"] = "running" /\ rt'["source"] = "RUNNING"
<1> USE DEF OthersUnchanged, operationVars
<1>1. CASE DecideBoundary
  BY <1>1 DEF DecideBoundary
<1>2. CASE StopSourceFailed
  <2>1. rt \in [Deployments -> {"CREATED", "RUNNING", "STOPPED"}]
    BY DEF PhaseInv, TypeInv, TypeOK, DeployType
  <2> QED BY <1>2, <2>1 DEF StopSourceFailed, Deployments, nodeVars
<1>3. CASE Claim \/ RecoverStale \/ Resume \/ ObserveCancel \/ BeginForward \/ FinalizeDesired
  BY <1>3 DEF Claim, RecoverStale, Resume, ObserveCancel, BeginForward, FinalizeDesired
<1>4. CASE Succeed \/ EnterTraffic \/ RecordVersion \/ ActivateRoute \/ StartWait \/ WaitSatisfied
  BY <1>4 DEF Succeed, EnterTraffic, RecordVersion, ActivateRoute, StartWait, WaitSatisfied
<1>5. CASE WaitTimesOut \/ FailTimedOut \/ CallSucceeds \/ RetryableError \/ PermanentError \/
  UnexpectedError
  BY <1>5 DEF WaitTimesOut, FailTimedOut, CallSucceeds, RetryableError, PermanentError,
    UnexpectedError
<1>6. CASE MarkRuntime \/ CheckPasses \/ CheckFails \/ Commit \/ StepFailed \/ BlockForOperator
  BY <1>6 DEF MarkRuntime, CheckPasses, CheckFails, Commit, StepFailed, BlockForOperator
<1>7. CASE Escalate \/ Reopen \/ Fail \/ RestoreForCancel \/ RestoreTimesOut \/ CancelOperation
  BY <1>7 DEF Escalate, Reopen, Fail, RestoreForCancel, RestoreTimesOut, CancelOperation
<1>8. CASE MarkRollingBack \/ EnsureRollback \/ BeginRollback \/ FinishRollback \/ Crash \/
  RequestCancel
  BY <1>8 DEF MarkRollingBack, EnsureRollback, BeginRollback, FinishRollback, Crash, RequestCancel
<1>9. CASE OperatorSetsRoute \/ LateEffect \/ StartReload \/ FinishReload \/ Admit \/ Release
  BY <1>9 DEF OperatorSetsRoute, LateEffect, StartReload, FinishReload, Admit, Release
<1>10. CASE UNCHANGED vars
  BY <1>10 DEF vars
<1> QED BY <1>1, <1>2, <1>3, <1>4, <1>5, <1>6, <1>7, <1>8, <1>9, <1>10 DEF Next, WorkerStep

\* The desired states are written by the two finalizations.
LEMMA WhoWants ==
  ASSUME [Next]_vars, desired' # desired
  PROVE  \/ FinalizeDesired
         \/ CheckPasses /\ pc = "body" /\ cur = "ROLLBACK_FINALIZE"
              /\ desired' = RunningOnly("source")
<1> USE DEF OthersUnchanged, deployVars
<1>1. CASE FinalizeDesired
  BY <1>1
<1>2. CASE CheckPasses
  BY <1>2 DEF CheckPasses
<1>3. CASE Claim \/ RecoverStale \/ Resume \/ ObserveCancel \/ BeginForward \/ Succeed
  BY <1>3 DEF Claim, RecoverStale, Resume, ObserveCancel, BeginForward, Succeed
<1>4. CASE EnterTraffic \/ RecordVersion \/ ActivateRoute \/ StartWait \/ WaitSatisfied \/
  WaitTimesOut
  BY <1>4 DEF EnterTraffic, RecordVersion, ActivateRoute, StartWait, WaitSatisfied, WaitTimesOut
<1>5. CASE FailTimedOut \/ DecideBoundary \/ CallSucceeds \/ RetryableError \/ PermanentError \/
  UnexpectedError
  BY <1>5 DEF FailTimedOut, DecideBoundary, CallSucceeds, RetryableError, PermanentError,
    UnexpectedError
<1>6. CASE MarkRuntime \/ CheckFails \/ Commit \/ StopSourceFailed \/ StepFailed \/
  BlockForOperator
  BY <1>6 DEF MarkRuntime, CheckFails, Commit, StopSourceFailed, StepFailed, BlockForOperator
<1>7. CASE Escalate \/ Reopen \/ Fail \/ RestoreForCancel \/ RestoreTimesOut \/ CancelOperation
  BY <1>7 DEF Escalate, Reopen, Fail, RestoreForCancel, RestoreTimesOut, CancelOperation
<1>8. CASE MarkRollingBack \/ EnsureRollback \/ BeginRollback \/ FinishRollback \/ Crash \/
  RequestCancel
  BY <1>8 DEF MarkRollingBack, EnsureRollback, BeginRollback, FinishRollback, Crash, RequestCancel
<1>9. CASE OperatorSetsRoute \/ LateEffect \/ StartReload \/ FinishReload \/ Admit \/ Release
  BY <1>9 DEF OperatorSetsRoute, LateEffect, StartReload, FinishReload, Admit, Release
<1>10. CASE UNCHANGED vars
  BY <1>10 DEF vars
<1> QED BY <1>1, <1>2, <1>3, <1>4, <1>5, <1>6, <1>7, <1>8, <1>9, <1>10 DEF Next, WorkerStep

\* Health is written by the worker at a step.
LEMMA WhoChecksHealth ==
  ASSUME [Next]_vars, hl' # hl
  PROVE  pc \in {"body", "call", "mark"}
<1> USE DEF OthersUnchanged, deployVars
<1>1. CASE CheckPasses \/ CheckFails
  BY <1>1 DEF CheckPasses, CheckFails
<1>2. CASE RetryableError
  BY <1>2 DEF RetryableError
<1>3. CASE PermanentError
  <2>1. CASE pc \in {"body", "call"}
    BY <2>1
  <2> QED BY <1>3, <2>1 DEF PermanentError
<1>4. CASE MarkRuntime
  BY <1>4 DEF MarkRuntime
<1>5. CASE Claim \/ RecoverStale \/ Resume \/ ObserveCancel \/ BeginForward \/ FinalizeDesired
  BY <1>5 DEF Claim, RecoverStale, Resume, ObserveCancel, BeginForward, FinalizeDesired
<1>6. CASE Succeed \/ EnterTraffic \/ RecordVersion \/ ActivateRoute \/ StartWait \/ WaitSatisfied
  BY <1>6 DEF Succeed, EnterTraffic, RecordVersion, ActivateRoute, StartWait, WaitSatisfied
<1>7. CASE WaitTimesOut \/ FailTimedOut \/ DecideBoundary \/ CallSucceeds \/ UnexpectedError \/
  Commit
  BY <1>7 DEF WaitTimesOut, FailTimedOut, DecideBoundary, CallSucceeds, UnexpectedError, Commit
<1>8. CASE StopSourceFailed \/ StepFailed \/ BlockForOperator \/ Escalate \/ Reopen \/ Fail
  BY <1>8 DEF StopSourceFailed, StepFailed, BlockForOperator, Escalate, Reopen, Fail
<1>9. CASE RestoreForCancel \/ RestoreTimesOut \/ CancelOperation \/ MarkRollingBack \/
  EnsureRollback \/ BeginRollback
  BY <1>9 DEF RestoreForCancel, RestoreTimesOut, CancelOperation, MarkRollingBack, EnsureRollback,
    BeginRollback
<1>10. CASE FinishRollback \/ Crash \/ RequestCancel \/ OperatorSetsRoute \/ LateEffect \/
  StartReload
  BY <1>10 DEF FinishRollback, Crash, RequestCancel, OperatorSetsRoute, LateEffect, StartReload
<1>11. CASE FinishReload \/ Admit \/ Release
  BY <1>11 DEF FinishReload, Admit, Release
<1>12. CASE UNCHANGED vars
  BY <1>12 DEF vars
<1> QED BY <1>1, <1>2, <1>3, <1>4, <1>5, <1>6, <1>7, <1>8, <1>9, <1>10, <1>11, <1>12 DEF Next,
  WorkerStep

\* Operator edits are counted ...
LEMMA EditsGrow ==
  ASSUME PhaseInv, [Next]_vars, edits' = 0
  PROVE  edits = 0
<1>t. edits \in Nat
  BY DEF PhaseInv, TypeInv, TypeOK, BoundType
<1> USE DEF OthersUnchanged, boundVars, Fault
<1>1. CASE OperatorSetsRoute
  BY <1>1, <1>t DEF OperatorSetsRoute
<1>2. CASE Claim \/ RecoverStale \/ Resume \/ ObserveCancel \/ BeginForward \/ FinalizeDesired
  BY <1>2 DEF Claim, RecoverStale, Resume, ObserveCancel, BeginForward, FinalizeDesired
<1>3. CASE Succeed \/ EnterTraffic \/ RecordVersion \/ ActivateRoute \/ StartWait \/ WaitSatisfied
  BY <1>3 DEF Succeed, EnterTraffic, RecordVersion, ActivateRoute, StartWait, WaitSatisfied
<1>4. CASE WaitTimesOut \/ FailTimedOut \/ DecideBoundary \/ CallSucceeds \/ RetryableError \/
  PermanentError
  BY <1>4 DEF WaitTimesOut, FailTimedOut, DecideBoundary, CallSucceeds, RetryableError,
    PermanentError
<1>5. CASE UnexpectedError \/ MarkRuntime \/ CheckPasses \/ CheckFails \/ Commit \/
  StopSourceFailed
  BY <1>5 DEF UnexpectedError, MarkRuntime, CheckPasses, CheckFails, Commit, StopSourceFailed
<1>6. CASE StepFailed \/ BlockForOperator \/ Escalate \/ Reopen \/ Fail \/ RestoreForCancel
  BY <1>6 DEF StepFailed, BlockForOperator, Escalate, Reopen, Fail, RestoreForCancel
<1>7. CASE RestoreTimesOut \/ CancelOperation \/ MarkRollingBack \/ EnsureRollback \/
  BeginRollback \/ FinishRollback
  BY <1>7 DEF RestoreTimesOut, CancelOperation, MarkRollingBack, EnsureRollback, BeginRollback,
    FinishRollback
<1>8. CASE Crash \/ RequestCancel \/ LateEffect \/ StartReload \/ FinishReload \/ Admit
  BY <1>8 DEF Crash, RequestCancel, LateEffect, StartReload, FinishReload, Admit
<1>9. CASE Release
  BY <1>9 DEF Release
<1>10. CASE UNCHANGED vars
  BY <1>10 DEF vars
<1> QED BY <1>1, <1>2, <1>3, <1>4, <1>5, <1>6, <1>7, <1>8, <1>9, <1>10 DEF Next, WorkerStep

\* ... so none has happened where the count is zero.
LEMMA NoEdit == ASSUME PhaseInv, edits' = 0 PROVE ~OperatorSetsRoute
<1>1. edits \in Nat
  BY DEF PhaseInv, TypeInv, TypeOK, BoundType
<1> QED BY <1>1 DEF OperatorSetsRoute

-----------------------------------------------------------------------------
(************************* what has been reached ***************************)

\* The operation goes forward, or has arrived.
Going == status \in {"QUEUED", "RUNNING", "SUCCEEDED"}
\* No rollback has begun, whatever became of the operation.
Unturned == \A s \in RollbackSteps : step[s] = "ABSENT"
\* The steps up to the stop of Source, and those a route to Target has behind it.
Early  == {"VALIDATE", "PREFLIGHT", "PREPARE_TARGET", "DRAIN_TRAFFIC", "STOP_SOURCE"}
Before == {"STOP_SOURCE", "START_TARGET", "WAIT_TARGET_HEALTH", "PROBE_TARGET"}

\* The steps by their position in the two sequences.
LEMMA StepNames ==
  /\ Forward[1] = "VALIDATE" /\ Forward[2] = "PREFLIGHT" /\ Forward[3] = "PREPARE_TARGET"
  /\ Forward[4] = "DRAIN_TRAFFIC" /\ Forward[5] = "STOP_SOURCE"
  /\ Forward[6] = "WAIT_VRAM_RELEASE" /\ Forward[7] = "START_TARGET"
  /\ Forward[8] = "WAIT_TARGET_HEALTH" /\ Forward[9] = "PROBE_TARGET"
  /\ Forward[10] = "ACTIVATE_TARGET_ROUTE" /\ Forward[11] = "WAIT_ROUTE_APPLY"
  /\ Forward[12] = "RESTORE_TRAFFIC" /\ Forward[13] = "WAIT_TRAFFIC_APPLY"
  /\ Forward[14] = "FINALIZE"
  /\ Rollback[1] = "ROLLBACK_BEGIN" /\ Rollback[2] = "ROLLBACK_BLOCK_TRAFFIC"
  /\ Rollback[3] = "ROLLBACK_STOP_TARGET" /\ Rollback[4] = "ROLLBACK_START_SOURCE"
  /\ Rollback[7] = "ROLLBACK_ACTIVATE_SOURCE_ROUTE"
  /\ Rollback[9] = "ROLLBACK_RESTORE_TRAFFIC" /\ Rollback[10] = "ROLLBACK_FINALIZE"
BY DEF Forward, Rollback

\* A step that succeeded leaves no gap behind it.
NoGap ==
  /\ Clean => \A i \in DOMAIN Forward : step[Forward[i]] = "SUCCEEDED"
                 => \A k \in 1 .. i - 1 : step[Forward[k]] = "SUCCEEDED"
  /\ \A i \in DOMAIN Rollback : step[Rollback[i]] = "SUCCEEDED"
       => \A k \in 1 .. i - 1 : step[Rollback[k]] = "SUCCEEDED"

\* A step succeeds at its turn, and what succeeded stays so.
LEMMA NoGapKept == ASSUME OrderInv, NoGap, [Next]_vars PROVE NoGap'
<1>0. PhaseInv /\ InOrder
  BY DEF OrderInv
<1>1. ASSUME Clean', NEW i \in DOMAIN Forward, step'[Forward[i]] = "SUCCEEDED",
             NEW k \in 1 .. i - 1
      PROVE  step'[Forward[k]] = "SUCCEEDED"
  <2>1. Forward[i] \in Steps /\ k \in DOMAIN Forward /\ Forward[k] \in Steps
    BY Positions DEF ForwardSteps, Steps
  <2>2. Clean
    BY <1>1, MemoryGrows
  <2>3. step[Forward[i]] = "SUCCEEDED" \/ (AtStep /\ cur = Forward[i])
    BY <1>0, <1>1, <2>1, WhoWritesSteps DEF Starts, Settled, Skipped, Created
  <2>4. step[Forward[k]] = "SUCCEEDED"
    BY <1>0, <2>2, <2>3 DEF NoGap, InOrder
  <2> QED BY <1>0, <2>1, <2>4, SuccessStays
<1>2. ASSUME NEW i \in DOMAIN Rollback, step'[Rollback[i]] = "SUCCEEDED", NEW k \in 1 .. i - 1
      PROVE  step'[Rollback[k]] = "SUCCEEDED"
  <2>1. Rollback[i] \in Steps /\ k \in DOMAIN Rollback /\ Rollback[k] \in Steps
    BY Positions DEF RollbackSteps, Steps
  <2>2. step[Rollback[i]] = "SUCCEEDED" \/ (AtStep /\ cur = Rollback[i])
    BY <1>0, <1>2, <2>1, WhoWritesSteps DEF Starts, Settled, Skipped, Created
  <2>3. step[Rollback[k]] = "SUCCEEDED"
    BY <1>0, <2>2 DEF NoGap, InOrder
  <2> QED BY <1>0, <2>1, <2>3, SuccessStays
<1> QED BY <1>1, <1>2 DEF NoGap

\* The current step and a step that succeeded have these behind them.
At(s) == (AtStep /\ cur = s) \/ step[s] = "SUCCEEDED"

\* What the forward steps that matter have behind them.
LEMMA BehindForward ==
  ASSUME OrderInv, NoGap, Clean
  PROVE  /\ At("STOP_SOURCE") => \A s \in Early \ {"STOP_SOURCE"} : step[s] = "SUCCEEDED"
         /\ At("START_TARGET") => step["STOP_SOURCE"] = "SUCCEEDED"
         /\ At("ACTIVATE_TARGET_ROUTE") => \A s \in Before : step[s] = "SUCCEEDED"
         /\ At("RESTORE_TRAFFIC")
              => \A s \in Before \cup {"ACTIVATE_TARGET_ROUTE"} : step[s] = "SUCCEEDED"
         /\ At("FINALIZE") => \A s \in ForwardSteps \ {"FINALIZE"} : step[s] = "SUCCEEDED"
         /\ \A s \in ForwardSteps \ Early : At(s) => step["STOP_SOURCE"] = "SUCCEEDED"
<1>0. ASSUME NEW i \in 1 .. 14, At(Forward[i]), NEW k \in 1 .. i - 1
      PROVE  step[Forward[k]] = "SUCCEEDED"
  BY <1>0, Positions DEF OrderInv, InOrder, NoGap, At
<1>1. At("STOP_SOURCE") => \A s \in Early \ {"STOP_SOURCE"} : step[s] = "SUCCEEDED"
  <2>1. At(Forward[5]) => \A k \in {1, 2, 3, 4} : step[Forward[k]] = "SUCCEEDED"
    BY <1>0
  <2> QED BY <2>1, StepNames DEF Early
<1>2. At("START_TARGET") => step["STOP_SOURCE"] = "SUCCEEDED"
  <2>1. At(Forward[7]) => step[Forward[5]] = "SUCCEEDED"
    BY <1>0
  <2> QED BY <2>1, StepNames
<1>3. At("ACTIVATE_TARGET_ROUTE") => \A s \in Before : step[s] = "SUCCEEDED"
  <2>1. At(Forward[10]) => \A k \in {5, 7, 8, 9} : step[Forward[k]] = "SUCCEEDED"
    BY <1>0
  <2> QED BY <2>1, StepNames DEF Before
<1>4. At("RESTORE_TRAFFIC")
        => \A s \in Before \cup {"ACTIVATE_TARGET_ROUTE"} : step[s] = "SUCCEEDED"
  <2>1. At(Forward[12]) => \A k \in {5, 7, 8, 9, 10} : step[Forward[k]] = "SUCCEEDED"
    BY <1>0
  <2> QED BY <2>1, StepNames DEF Before
<1>5. At("FINALIZE") => \A s \in ForwardSteps \ {"FINALIZE"} : step[s] = "SUCCEEDED"
  <2>1. At(Forward[14]) => \A k \in 1 .. 13 : step[Forward[k]] = "SUCCEEDED"
    BY <1>0
  <2>2. ASSUME NEW s \in ForwardSteps, s # Forward[14] PROVE \E k \in 1 .. 13 : s = Forward[k]
    BY <2>2, Positions DEF ForwardSteps
  <2> QED BY <2>1, <2>2, StepNames
<1>6. ASSUME NEW s \in ForwardSteps \ Early, At(s) PROVE step["STOP_SOURCE"] = "SUCCEEDED"
  <2>1. PICK i \in 1 .. 14 : s = Forward[i]
    BY Positions DEF ForwardSteps
  <2>2. i \notin {1, 2, 3, 4, 5}
    BY <2>1, StepNames DEF Early
  <2>3. 5 \in 1 .. i - 1
    BY <2>2
  <2> QED BY <1>0, <1>6, <2>1, <2>3, StepNames
<1> QED BY <1>1, <1>2, <1>3, <1>4, <1>5, <1>6

\* What the rollback steps that matter have behind them.
LEMMA BehindRollback ==
  ASSUME OrderInv, NoGap
  PROVE  /\ At("ROLLBACK_STOP_TARGET") => step["ROLLBACK_BLOCK_TRAFFIC"] = "SUCCEEDED"
         /\ At("ROLLBACK_START_SOURCE") => step["ROLLBACK_STOP_TARGET"] = "SUCCEEDED"
         /\ At("ROLLBACK_ACTIVATE_SOURCE_ROUTE")
              => /\ step["ROLLBACK_STOP_TARGET"] = "SUCCEEDED"
                 /\ step["ROLLBACK_START_SOURCE"] = "SUCCEEDED"
         /\ At("ROLLBACK_RESTORE_TRAFFIC")
              => /\ step["ROLLBACK_STOP_TARGET"] = "SUCCEEDED"
                 /\ step["ROLLBACK_START_SOURCE"] = "SUCCEEDED"
                 /\ step["ROLLBACK_ACTIVATE_SOURCE_ROUTE"] = "SUCCEEDED"
         /\ At("ROLLBACK_FINALIZE")
              => \A s \in RollbackSteps \ {"ROLLBACK_FINALIZE"} : step[s] = "SUCCEEDED"
<1>0. ASSUME NEW i \in 1 .. 10, At(Rollback[i]), NEW k \in 1 .. i - 1
      PROVE  step[Rollback[k]] = "SUCCEEDED"
  BY <1>0, Positions DEF OrderInv, InOrder, NoGap, At
<1>1. /\ At(Rollback[3]) => step[Rollback[2]] = "SUCCEEDED"
      /\ At(Rollback[4]) => step[Rollback[3]] = "SUCCEEDED"
      /\ At(Rollback[7]) => step[Rollback[3]] = "SUCCEEDED" /\ step[Rollback[4]] = "SUCCEEDED"
      /\ At(Rollback[9]) => /\ step[Rollback[3]] = "SUCCEEDED" /\ step[Rollback[4]] = "SUCCEEDED"
                            /\ step[Rollback[7]] = "SUCCEEDED"
      /\ At(Rollback[10]) => \A k \in 1 .. 9 : step[Rollback[k]] = "SUCCEEDED"
  BY <1>0
<1>2. ASSUME NEW s \in RollbackSteps, s # Rollback[10] PROVE \E k \in 1 .. 9 : s = Rollback[k]
  BY <1>2, Positions DEF RollbackSteps
<1> QED BY <1>1, <1>2, StepNames

\* While the operation goes forward its step is a forward one and no rollback step is
\* done; where a forward step is at hand, it goes forward.
LEMMA GoingForward ==
  ASSUME OrderInv
  PROVE  /\ AtStep /\ Going => cur \in ForwardSteps
         /\ AtStep /\ cur \in ForwardSteps => Going
         /\ status \in Ahead => \A s \in RollbackSteps : ~Done(s)
         /\ Going => status \in Ahead
         /\ status \in Ahead => Unturned
         /\ AtStep /\ Unturned => cur \in ForwardSteps
         /\ pc \in {"cancel", "restore", "failsafe"} => Going
<1>0. PhaseStatus /\ PhaseCur /\ NotBegun /\ Closed
  BY DEF OrderInv, PhaseInv
<1>1. AtStep => pc # "idle"
  BY DEF AtStep, StepPhases
<1>2. AtStep /\ Going => status = "RUNNING"
  BY <1>0, <1>1 DEF PhaseStatus, Going
<1>3. pc = "commit" => AtStep
  BY DEF AtStep, StepPhases
<1>4. ASSUME status \in Ahead, NEW s \in RollbackSteps PROVE ~Done(s)
  <2>1. step[s] # "SUCCEEDED"
    BY <1>0, <1>4 DEF NotBegun
  <2>2. ~(pc = "commit" /\ cur = s)
    <3>1. pc = "commit" => status = "RUNNING"
      BY <1>0, <1>1, <1>3, <1>4 DEF PhaseStatus, Ahead
    <3> QED BY <1>0, <1>3, <3>1, StepsDisjoint DEF PhaseStatus
  <2> QED BY <2>1, <2>2 DEF Done
<1>5. AtStep /\ Unturned => cur \in ForwardSteps
  BY <1>0, StepSets DEF PhaseCur, Steps, Closed, Unturned
<1>6. status \in Ahead => Unturned
  BY <1>0 DEF NotBegun, Unturned
<1> QED BY <1>0, <1>2, <1>4, <1>5, <1>6 DEF PhaseStatus, Going, Ahead, ForwardPhases

\* No row of the rollback is taken back.
LEMMA UnturnedBack == ASSUME PhaseInv, [Next]_vars, Unturned' PROVE Unturned
BY StepsDisjoint, WhoWritesSteps DEF Unturned, Steps, Starts, Settled, Skipped, Created

\* No operation returns to going forward.
LEMMA GoingBack == ASSUME PhaseInv, [Next]_vars, Going' PROVE Going
BY WhoMovesStatus DEF Going, Succeed, Fail, CancelOperation, MarkRollingBack, FinishRollback,
  Escalate

\* What STOP_SOURCE, START_TARGET and their rollback twins do is done in "mark" ...
LEMMA NewlyCommanded ==
  ASSUME PhaseInv, [Next]_vars, NEW s \in DOMAIN CommandOf, Done(s)', ~Done(s)
  PROVE  pc = "mark" /\ cur = s /\ MarkRuntime
<1>1. /\ cur = s /\ AtStep /\ pc' = "commit" /\ pc # "commit"
      /\ WaitSatisfied \/ MarkRuntime \/ CheckPasses \/ RecordVersion
  BY NewlyDone, TableDomains, StepSets DEF Steps
<1>2. ~WaitSatisfied
  <2>1. pc = "wait" => cur \in Waits
    BY DEF PhaseInv, PhaseCur
  <2> QED BY <1>1, <2>1, TableDomains DEF WaitSatisfied, Waits
<1>3. ~CheckPasses
  BY <1>1, TableDomains DEF CheckPasses, CheckSteps
<1>4. ~RecordVersion
  BY <1>1, TableDomains DEF RecordVersion
<1> QED BY <1>1, <1>2, <1>3, <1>4 DEF MarkRuntime

\* ... what the steps do that change traffic and await it, in "wait".
LEMMA NewlyApplied ==
  ASSUME PhaseInv, [Next]_vars, NEW s \in {"DRAIN_TRAFFIC", "ROLLBACK_BLOCK_TRAFFIC"},
         Done(s)', ~Done(s)
  PROVE  /\ WaitSatisfied /\ cur = s /\ traffic # "SERVING" /\ gw.traffic # "SERVING"
         /\ s = "DRAIN_TRAFFIC" => \A d \in Deployments : infl[d] = 0
<1>1. /\ cur = s /\ AtStep /\ pc' = "commit" /\ pc # "commit"
      /\ WaitSatisfied \/ MarkRuntime \/ CheckPasses \/ RecordVersion
  BY NewlyDone, StepSets DEF Steps
<1>2. ~MarkRuntime
  BY <1>1, TableDomains DEF MarkRuntime, PhaseInv, PhaseCur
<1>3. ~CheckPasses
  BY <1>1, TableDomains DEF CheckPasses, CheckSteps
<1>4. ~RecordVersion
  BY <1>1, TableDomains DEF RecordVersion
<1>5. WaitSatisfied
  BY <1>1, <1>2, <1>3, <1>4
<1>6. traffic = TrafficOf[s]
  BY <1>1, <1>5, TableDomains DEF WaitSatisfied, PhaseInv, PhaseCur
<1>7. gw.traffic = TrafficOf[s]
  BY <1>1, <1>5, TableDomains DEF WaitSatisfied, Satisfied, Applied, AwaitedTraffic
<1>8. s = "DRAIN_TRAFFIC" => \A d \in Deployments : infl[d] = 0
  BY <1>1, <1>5 DEF WaitSatisfied, Satisfied
<1> QED BY <1>1, <1>5, <1>6, <1>7, <1>8, TrafficTable

-----------------------------------------------------------------------------
(**************************** the invariant ********************************)

\* What is routed to Target, or wanted of it, has been probed; what runs by its row
\* has been started after Source was stopped.
RoutedAfter == Clean /\ (route = "target" \/ desired["target"] = "RUNNING")
                 => \A s \in Before : step[s] = "SUCCEEDED"
RunsAfter   == Clean /\ rt["target"] = "RUNNING" => step["STOP_SOURCE"] = "SUCCEEDED"
\* Before the rollback, a command that outlives its call is one of the forward steps'.
LateForward == Unturned => \A c \in late : \/ c.dep = "source" /\ c.to = "stopped"
                                           \/ c.dep = "target" /\ c.to = "running"
\* Source is stopped past the boundary, and stays so until the rollback starts it.
Past ==
  /\ pc \in {"call", "mark"} /\ cur = "STOP_SOURCE" => boundary
  /\ Done("STOP_SOURCE") => boundary
Stopped ==
  /\ pc = "mark" /\ cur = "STOP_SOURCE" => cont["source"] # "running"
  /\ Clean /\ Unturned /\ Done("STOP_SOURCE")
       => rt["source"] = "STOPPED" /\ cont["source"] # "running"
Uncrossed == OnTime /\ ~boundary => cont["source"] = "running" /\ rt["source"] = "RUNNING"
Recalled  == Clean /\ pc \in {"cancel", "restore"} => ~boundary
\* Each command's effect lasts as long as its direction.
TargetUp ==
  Clean /\ Unturned /\ (Done("START_TARGET") \/ (pc = "mark" /\ cur = "START_TARGET"))
    => cont["target"] = "running"
TargetDown ==
  /\ Done("ROLLBACK_STOP_TARGET") => rt["target"] = "STOPPED"
  /\ OnTime /\ (Done("ROLLBACK_STOP_TARGET") \/ (pc = "mark" /\ cur = "ROLLBACK_STOP_TARGET"))
       => cont["target"] # "running"
SourceUp ==
  OnTime /\ (Done("ROLLBACK_START_SOURCE") \/ (pc = "mark" /\ cur = "ROLLBACK_START_SOURCE"))
    => cont["source"] = "running"
\* The endpoint is closed and drained until Source is stopped ...
Draining ==
  /\ Clean /\ Going /\ Done("DRAIN_TRAFFIC") /\ step["STOP_SOURCE"] # "SUCCEEDED"
  /\ \A s \in Early : step[s] # "FAILED"
  /\ cancel => AtStep
HeldOff == Draining => /\ traffic # "SERVING" /\ gw.traffic # "SERVING"
                       /\ \A d \in Deployments : infl[d] = 0
\* ... and closed again until Target is.
Blocked ==
  Done("ROLLBACK_BLOCK_TRAFFIC") /\ step["ROLLBACK_STOP_TARGET"] # "SUCCEEDED"
    => traffic # "SERVING" /\ gw.traffic # "SERVING"
\* An activated route is not taken back in its direction.
Activated(s) == Done(s) \/ (pc = "record" /\ cur = s)
RouteAway == Clean /\ Unturned /\ Activated("ACTIVATE_TARGET_ROUTE") => route # "source"
RouteBack == Activated("ROLLBACK_ACTIVATE_SOURCE_ROUTE") => route # "target"
\* While the endpoint is open, what is routed or runs by its row does run.
RowsRun == OnTime /\ traffic = "SERVING"
             => \A d \in Deployments : route = d \/ rt[d] = "RUNNING" => cont[d] = "running"

NodeInv  == /\ RoutedAfter /\ RunsAfter /\ LateForward /\ Past /\ Stopped /\ Uncrossed
            /\ Recalled /\ TargetUp /\ TargetDown /\ SourceUp /\ NoOverlap
RouteInv == HeldOff /\ Blocked /\ RouteAway /\ RouteBack /\ RowsRun /\ NoTrafficToStoppedModel
ServingInv == OrderInv /\ NoGap /\ NodeInv /\ RouteInv

\* The forward loop ends, without departures, with every forward step SUCCEEDED.
LEMMA AllAtFinalize ==
  ASSUME OrderInv, [Next]_vars, FinalizeDesired, Clean', NEW s \in ForwardSteps
  PROVE  step'[s] = "SUCCEEDED"
<1>0. PhaseInv /\ s \in Steps
  BY DEF OrderInv, Steps
<1>1. step[s] \notin {"PENDING", "RUNNING"}
  BY DEF FinalizeDesired, Open
<1>2. step[s] # "FAILED"
  BY DEF FinalizeDesired, Clean
<1>3. step[s] \notin {"ABSENT", "SKIPPED"}
  BY DEF FinalizeDesired, OrderInv, NotSkipped, PhaseInv, PhaseStatus, ForwardPhases
<1>4. step[s] = "SUCCEEDED"
  BY <1>0, <1>1, <1>2, <1>3 DEF PhaseInv, TypeInv, TypeOK, StepType
<1> QED BY <1>0, <1>4, SuccessStays

\* A route to Target is made by ACTIVATE_TARGET_ROUTE, or by an operator who finds Target
\* wanted, which the last forward step makes it.
LEMMA RoutedAfterKept ==
  ASSUME OrderInv, NoGap, RoutedAfter, [Next]_vars PROVE RoutedAfter'
<1> SUFFICES ASSUME Clean', route' = "target" \/ desired'["target"] = "RUNNING",
                    NEW s \in Before
             PROVE  step'[s] = "SUCCEEDED"
  BY DEF RoutedAfter
<1>0. PhaseInv /\ Clean /\ s \in Steps /\ s \in ForwardSteps
  BY MemoryGrows, StepSets DEF OrderInv, Steps, Before
<1>1. CASE route' = "target" /\ route # "target"
  <2>1. \/ pc = "body" /\ cur = "ACTIVATE_TARGET_ROUTE"
        \/ desired["target"] = "RUNNING"
    BY <1>1, WhoRoutes DEF Deployments
  <2>2. step[s] = "SUCCEEDED"
    BY <1>0, <2>1, BehindForward DEF At, AtStep, StepPhases, RoutedAfter
  <2> QED BY <1>0, <2>2, SuccessStays
<1>2. CASE desired'["target"] = "RUNNING" /\ desired["target"] # "RUNNING"
  <2>1. FinalizeDesired
    BY <1>2, WhoWants DEF RunningOnly, Deployments
  <2> QED BY <1>0, <2>1, AllAtFinalize
<1>3. CASE route = "target" \/ desired["target"] = "RUNNING"
  <2>1. step[s] = "SUCCEEDED"
    BY <1>0, <1>3 DEF RoutedAfter
  <2> QED BY <1>0, <2>1, SuccessStays
<1> QED BY <1>1, <1>2, <1>3

\* Target is marked RUNNING by START_TARGET.
LEMMA RunsAfterKept == ASSUME OrderInv, NoGap, RunsAfter, [Next]_vars PROVE RunsAfter'
<1> SUFFICES ASSUME Clean', rt'["target"] = "RUNNING" PROVE step'["STOP_SOURCE"] = "SUCCEEDED"
  BY DEF RunsAfter
<1>0. PhaseInv /\ Clean /\ "STOP_SOURCE" \in Steps
  BY MemoryGrows, StepSets DEF OrderInv, Steps
<1>1. rt["target"] = "RUNNING" \/ (pc = "mark" /\ cur = "START_TARGET")
  BY <1>0, WhoMarks DEF Deployments
<1>2. step["STOP_SOURCE"] = "SUCCEEDED"
  BY <1>0, <1>1, BehindForward DEF RunsAfter, At, AtStep, StepPhases
<1> QED BY <1>0, <1>2, SuccessStays

\* Only forward steps make calls before the rollback.
LEMMA LateForwardKept ==
  ASSUME OrderInv, LateForward, [Next]_vars PROVE LateForward'
<1> SUFFICES ASSUME Unturned', NEW c \in late'
             PROVE  \/ c.dep = "source" /\ c.to = "stopped"
                    \/ c.dep = "target" /\ c.to = "running"
  BY DEF LateForward
<1>0. PhaseInv /\ Unturned
  BY UnturnedBack DEF OrderInv
<1>1. CASE c \in late
  BY <1>0, <1>1 DEF LateForward
<1>2. CASE c \notin late
  <2>1. pc = "call" /\ cur \in DOMAIN CommandOf /\ c = CommandOf[cur]
    BY <1>0, <1>2, WhoDelays
  <2>2. cur \in ForwardSteps
    BY <1>0, <2>1, GoingForward DEF AtStep, StepPhases
  <2>3. cur \in {"STOP_SOURCE", "START_TARGET"}
    BY <2>1, <2>2, TableDomains, StepSets
  <2> QED BY <2>1, <2>3, CommandTable
<1> QED BY <1>1, <1>2

\* STOP_SOURCE makes its call past the boundary; the flag is taken back only as that step fails.
LEMMA PastKept == ASSUME OrderInv, Past, [Next]_vars PROVE Past'
<1>0. PhaseInv /\ PhaseCur
  BY DEF OrderInv, PhaseInv
<1>1. ASSUME pc' \in {"call", "mark"}, cur' = "STOP_SOURCE" PROVE boundary'
  <2>1. CASE pc \in {"call", "mark"}
    <3>1. cur' = cur
      BY <1>1, <2>1, WhoEnters DEF AtStep, StepPhases
    <3>2. boundary
      BY <1>1, <2>1, <3>1 DEF Past
    <3> QED BY <1>0, <1>1, <2>1, <3>2, WhoTakesBack
  <2>2. CASE DecideBoundary
    BY <1>1, <2>2 DEF DecideBoundary
  <2>3. CASE BeginForward \/ BeginRollback
    <3>1. pc' = "call" => cur' \in DOMAIN CommandOf \ {"STOP_SOURCE"}
      BY <2>3 DEF BeginForward, BeginRollback, Begin
    <3>2. pc' # "mark"
      BY <2>3 DEF BeginForward, BeginRollback, Begin
    <3> QED BY <1>1, <3>1, <3>2
  <2>4. CASE CallSucceeds
    BY <2>1, <2>4 DEF CallSucceeds
  <2> QED BY <1>1, <2>1, <2>2, <2>3, <2>4, WhoEnters
<1>2. ASSUME Done("STOP_SOURCE")' PROVE boundary'
  <2>1. boundary
    <3>1. CASE Done("STOP_SOURCE")
      BY <3>1 DEF Past
    <3>2. CASE ~Done("STOP_SOURCE")
      <4>1. pc = "mark" /\ cur = "STOP_SOURCE"
        BY <1>0, <1>2, <3>2, NewlyCommanded, TableDomains
      <4> QED BY <4>1 DEF Past
    <3> QED BY <3>1, <3>2
  <2>2. ASSUME ~boundary' PROVE FALSE
    <3>1. /\ pc = "failed" /\ pc' = "aborted" /\ cur = "STOP_SOURCE" /\ UNCHANGED step
      BY <1>0, <2>1, <2>2, WhoTakesBack
    <3>2. step["STOP_SOURCE"] = "FAILED"
      BY <1>0, <3>1 DEF PhaseCur, AtStep, StepPhases, FailedAt
    <3> QED BY <1>2, <3>1, <3>2 DEF Done
  <2> QED BY <2>2
<1> QED BY <1>1, <1>2 DEF Past

\* Nothing starts Source again before the rollback.
LEMMA StoppedKept ==
  ASSUME OrderInv, LateForward, Stopped, [Next]_vars PROVE Stopped'
<1>0. PhaseInv /\ PhaseCur /\ "STOP_SOURCE" \in Steps /\ "source" \in Deployments
  BY StepSets DEF OrderInv, PhaseInv, Steps, Deployments
<1>1. ASSUME pc' = "mark", cur' = "STOP_SOURCE" PROVE cont'["source"] # "running"
  <2>1. CASE pc = "mark"
    <3>1. cur = "STOP_SOURCE"
      BY <1>1, <2>1, WhoEnters DEF AtStep, StepPhases
    <3>2. Unturned
      BY <2>1, <3>1, GoingForward, StepsDisjoint DEF AtStep, StepPhases
    <3>3. cont["source"] # "running"
      BY <2>1, <3>1 DEF Stopped
    <3> QED BY <1>0, <2>1, <3>2, <3>3, WhoStarts DEF LateForward
  <2>2. CASE CallSucceeds
    <3>1. cur = "STOP_SOURCE"
      BY <1>1, <2>2 DEF CallSucceeds
    <3> QED BY <1>0, <2>2, <3>1, CommandTable DEF CallSucceeds, InPlace, PhaseInv, TypeInv,
          TypeOK, NodeType
  <2> QED BY <1>1, <2>1, <2>2, WhoEnters
<1>2. ASSUME Clean', Unturned', Done("STOP_SOURCE")'
      PROVE  rt'["source"] = "STOPPED" /\ cont'["source"] # "running"
  <2>0. Clean /\ Unturned
    BY <1>0, <1>2, MemoryGrows, UnturnedBack
  <2>1. CASE Done("STOP_SOURCE")
    <3>0. rt["source"] = "STOPPED" /\ cont["source"] # "running"
      BY <2>0, <2>1 DEF Stopped
    <3>1. rt'["source"] = "STOPPED"
      <4>1. CASE pc = "mark" /\ cur = "ROLLBACK_START_SOURCE"
        BY <2>0, <4>1, GoingForward, StepSets DEF AtStep, StepPhases
      <4>2. CASE pc = "failed" /\ cur = "STOP_SOURCE"
        BY <1>0, <2>1, <4>2 DEF Done, PhaseCur, AtStep, StepPhases, FailedAt
      <4> QED BY <1>0, <3>0, <4>1, <4>2, WhoMarks
    <3>2. cont'["source"] # "running"
      <4>1. ~(pc = "call" /\ cur = "ROLLBACK_START_SOURCE")
        BY <2>0, GoingForward, StepSets DEF AtStep, StepPhases
      <4> QED BY <1>0, <2>0, <3>0, <4>1, WhoStarts DEF LateForward
    <3> QED BY <3>1, <3>2
  <2>2. CASE ~Done("STOP_SOURCE")
    <3>1. pc = "mark" /\ cur = "STOP_SOURCE" /\ MarkRuntime
      BY <1>0, <1>2, <2>2, NewlyCommanded, TableDomains
    <3>2. rt'["source"] = "STOPPED" /\ cont' = cont
      BY <1>0, <3>1, CommandTable DEF MarkRuntime, nodeVars, PhaseInv, TypeInv, TypeOK, DeployType
    <3> QED BY <3>1, <3>2 DEF Stopped
  <2> QED BY <2>1, <2>2
<1> QED BY <1>1, <1>2 DEF Stopped

\* Nothing stops Source before the boundary.
LEMMA UncrossedKept ==
  ASSUME OrderInv, Past, Uncrossed, [Next]_vars PROVE Uncrossed'
<1> SUFFICES ASSUME OnTime', ~boundary'
             PROVE  cont'["source"] = "running" /\ rt'["source"] = "RUNNING"
  BY DEF Uncrossed
<1>0. PhaseInv /\ Clean /\ OnTime /\ "source" \in Deployments
  BY MemoryGrows DEF OrderInv, Deployments
<1>1. CASE boundary
  BY <1>0, <1>1, WhoTakesBack
<1>2. CASE ~boundary
  <2>1. cont["source"] = "running" /\ rt["source"] = "RUNNING"
    BY <1>0, <1>2 DEF Uncrossed
  <2>2. ~(pc \in {"call", "mark"} /\ cur = "STOP_SOURCE")
    BY <1>0, <1>2 DEF Past
  <2>3. cont'["source"] = "running"
    BY <1>0, <2>1, <2>2, WhoStops
  <2>4. rt'["source"] = "RUNNING"
    BY <1>0, <2>1, <2>2, WhoMarks
  <2> QED BY <2>3, <2>4
<1> QED BY <1>1, <1>2

\* A cancellation that wins finds the boundary not crossed.
LEMMA RecalledKept == ASSUME OrderInv, Recalled, [Next]_vars PROVE Recalled'
<1> SUFFICES ASSUME Clean', pc' \in {"cancel", "restore"} PROVE ~boundary'
  BY DEF Recalled
<1>0. Clean
  BY MemoryGrows
<1>1. CASE pc \in {"cancel", "restore"}
  BY <1>0, <1>1, WhoDecides DEF Recalled
<1>2. CASE ObserveCancel
  BY <1>2 DEF ObserveCancel, Recalled
<1>3. CASE DecideBoundary
  <2>1. /\ anomaly' = IF boundary THEN anomaly \cup {"cancelled past boundary"} ELSE anomaly
        /\ UNCHANGED boundary
    BY <1>3 DEF DecideBoundary
  <2>2. CASE boundary
    <3>1. "cancelled past boundary" \in anomaly'
      BY <2>1, <2>2
    <3> QED BY <3>1 DEF Clean
  <2>3. CASE ~boundary
    BY <2>1, <2>3
  <2> QED BY <2>2, <2>3
<1>4. CASE RestoreForCancel
  BY <1>1, <1>4 DEF RestoreForCancel
<1> QED BY <1>1, <1>2, <1>3, <1>4, WhoEnters

\* Nothing stops Target before the rollback.
LEMMA TargetUpKept ==
  ASSUME OrderInv, LateForward, TargetUp, [Next]_vars PROVE TargetUp'
<1>0. PhaseInv /\ "START_TARGET" \in DOMAIN CommandOf /\ "target" \in Deployments
      /\ "START_TARGET" \in ForwardSteps
  BY TableDomains, StepSets DEF OrderInv, Deployments
<1> DEFINE Up == Done("START_TARGET") \/ (pc = "mark" /\ cur = "START_TARGET")
<1> SUFFICES ASSUME Clean', Unturned', Up' PROVE cont'["target"] = "running"
  BY DEF TargetUp
<1>1. Clean /\ Unturned
  BY <1>0, MemoryGrows, UnturnedBack
<1>2. CASE Up
  <2>1. cont["target"] = "running"
    BY <1>1, <1>2 DEF TargetUp
  <2>2. ~(pc = "call" /\ cur = "ROLLBACK_STOP_TARGET")
    BY <1>1, GoingForward, StepSets DEF AtStep, StepPhases
  <2> QED BY <1>0, <1>1, <2>1, <2>2, WhoStops DEF LateForward
<1>3. CASE ~Up
  <2>1. CASE Done("START_TARGET")'
    <3>1. pc = "mark" /\ cur = "START_TARGET"
      BY <1>0, <1>3, <2>1, NewlyCommanded
    <3> QED BY <1>3, <3>1
  <2>2. CASE pc' = "mark" /\ cur' = "START_TARGET"
    <3>1. CASE pc = "mark"
      BY <1>3, <2>2, <3>1, WhoEnters DEF AtStep, StepPhases
    <3>2. CASE CallSucceeds
      <4>1. cur = "START_TARGET"
        BY <2>2, <3>2 DEF CallSucceeds
      <4> QED BY <1>0, <3>2, <4>1, CommandTable DEF CallSucceeds, InPlace, PhaseInv, TypeInv,
            TypeOK, NodeType
    <3> QED BY <2>2, <3>1, <3>2, WhoEnters
  <2> QED BY <2>1, <2>2
<1> QED BY <1>2, <1>3

\* Nothing starts Target once the rollback has stopped it.
LEMMA TargetDownKept == ASSUME OrderInv, TargetDown, [Next]_vars PROVE TargetDown'
<1>0. PhaseInv /\ "ROLLBACK_STOP_TARGET" \in DOMAIN CommandOf /\ "target" \in Deployments
      /\ "ROLLBACK_STOP_TARGET" \in RollbackSteps
  BY TableDomains, StepSets DEF OrderInv, Deployments
<1> DEFINE Down == Done("ROLLBACK_STOP_TARGET") \/ (pc = "mark" /\ cur = "ROLLBACK_STOP_TARGET")
<1>1. AtStep /\ cur = "START_TARGET" => ~Down
  <2>1. AtStep /\ cur = "START_TARGET" => status \in Ahead
    BY GoingForward, StepSets
  <2> QED BY <1>0, <2>1, GoingForward
<1>2. ASSUME Done("ROLLBACK_STOP_TARGET")' PROVE rt'["target"] = "STOPPED"
  <2>1. CASE Done("ROLLBACK_STOP_TARGET")
    <3>1. ~(pc = "mark" /\ cur = "START_TARGET")
      BY <1>1, <2>1 DEF AtStep, StepPhases
    <3>2. rt["target"] = "STOPPED"
      BY <2>1 DEF TargetDown
    <3> QED BY <1>0, <3>1, <3>2, WhoMarks
  <2>2. CASE ~Done("ROLLBACK_STOP_TARGET")
    <3>1. cur = "ROLLBACK_STOP_TARGET" /\ MarkRuntime
      BY <1>0, <1>2, <2>2, NewlyCommanded
    <3> QED BY <1>0, <3>1, CommandTable DEF MarkRuntime, PhaseInv, TypeInv, TypeOK, DeployType
  <2> QED BY <2>1, <2>2
<1>3. ASSUME OnTime', Down' PROVE cont'["target"] # "running"
  <2>0. OnTime
    BY <1>3, MemoryGrows
  <2>1. CASE Down
    <3>1. cont["target"] # "running"
      BY <2>0, <2>1 DEF TargetDown
    <3>2. ~(pc = "call" /\ cur = "START_TARGET")
      BY <1>1, <2>1 DEF AtStep, StepPhases
    <3> QED BY <1>0, <1>3, <3>1, <3>2, WhoStarts
  <2>2. CASE Done("ROLLBACK_STOP_TARGET")' /\ ~Down
    BY <1>0, <2>2, NewlyCommanded
  <2>3. CASE pc' = "mark" /\ cur' = "ROLLBACK_STOP_TARGET" /\ ~Down
    <3>1. CASE pc = "mark"
      BY <2>3, <3>1, WhoEnters DEF AtStep, StepPhases
    <3>2. CASE CallSucceeds
      <4>1. cur = "ROLLBACK_STOP_TARGET"
        BY <2>3, <3>2 DEF CallSucceeds
      <4> QED BY <1>0, <3>2, <4>1, CommandTable DEF CallSucceeds, InPlace, PhaseInv, TypeInv,
            TypeOK, NodeType
    <3> QED BY <2>3, <3>1, <3>2, WhoEnters
  <2> QED BY <1>3, <2>1, <2>2, <2>3
<1> QED BY <1>2, <1>3 DEF TargetDown

\* Nothing stops Source once the rollback has started it.
LEMMA SourceUpKept == ASSUME OrderInv, SourceUp, [Next]_vars PROVE SourceUp'
<1>0. PhaseInv /\ "ROLLBACK_START_SOURCE" \in DOMAIN CommandOf /\ "source" \in Deployments
      /\ "ROLLBACK_START_SOURCE" \in RollbackSteps
  BY TableDomains, StepSets DEF OrderInv, Deployments
<1> DEFINE Up == Done("ROLLBACK_START_SOURCE") \/ (pc = "mark" /\ cur = "ROLLBACK_START_SOURCE")
<1> SUFFICES ASSUME OnTime', Up' PROVE cont'["source"] = "running"
  BY DEF SourceUp
<1>1. OnTime
  BY MemoryGrows
<1>2. CASE Up
  <2>1. cont["source"] = "running"
    BY <1>1, <1>2 DEF SourceUp
  <2>2. ~(pc = "call" /\ cur = "STOP_SOURCE")
    <3>1. AtStep /\ cur = "STOP_SOURCE" => status \in Ahead
      BY GoingForward, StepSets
    <3>2. pc \in {"call", "mark"} => AtStep
      BY DEF AtStep, StepPhases
    <3> QED BY <1>0, <1>2, <3>1, <3>2, GoingForward
  <2> QED BY <1>0, <2>1, <2>2, WhoStops
<1>3. CASE Done("ROLLBACK_START_SOURCE")' /\ ~Up
  BY <1>0, <1>3, NewlyCommanded
<1>4. CASE pc' = "mark" /\ cur' = "ROLLBACK_START_SOURCE" /\ ~Up
  <2>1. CASE pc = "mark"
    BY <1>4, <2>1, WhoEnters DEF AtStep, StepPhases
  <2>2. CASE CallSucceeds
    <3>1. cur = "ROLLBACK_START_SOURCE"
      BY <1>4, <2>2 DEF CallSucceeds
    <3> QED BY <1>0, <2>2, <3>1, CommandTable DEF CallSucceeds, InPlace, PhaseInv, TypeInv,
          TypeOK, NodeType
  <2> QED BY <1>4, <2>1, <2>2, WhoEnters
<1> QED BY <1>2, <1>3, <1>4

\* Target is started only where Source is stopped, and Source again where Target is.
LEMMA NoOverlapKept ==
  ASSUME OrderInv, NoGap, NodeInv, [Next]_vars PROVE NoOverlap'
<1> SUFFICES ASSUME OnTime', \A d \in Deployments : cont'[d] = "running" PROVE FALSE
  BY DEF NoOverlap
<1>0. PhaseInv /\ OnTime /\ Clean /\ "source" \in Deployments /\ "target" \in Deployments
  BY MemoryGrows DEF OrderInv, Deployments
<1>1. CASE cont["target"] # "running"
  <2>1. pc = "call" /\ cur = "START_TARGET"
    BY <1>0, <1>1, WhoStarts
  <2>2. AtStep /\ Unturned
    BY <2>1, GoingForward, StepSets DEF AtStep, StepPhases
  <2>3. step["STOP_SOURCE"] = "SUCCEEDED"
    BY <1>0, <2>1, <2>2, BehindForward DEF At
  <2>4. cont["source"] # "running"
    BY <1>0, <2>2, <2>3 DEF NodeInv, Stopped, Done
  <2> QED BY <1>0, <2>1, <2>4, WhoStarts
<1>2. CASE cont["source"] # "running"
  <2>1. pc = "call" /\ cur = "ROLLBACK_START_SOURCE"
    BY <1>0, <1>2, WhoStarts
  <2>2. step["ROLLBACK_STOP_TARGET"] = "SUCCEEDED"
    BY <2>1, BehindRollback DEF At, AtStep, StepPhases
  <2>3. cont["target"] # "running"
    BY <1>0, <2>2 DEF NodeInv, TargetDown, Done
  <2> QED BY <1>0, <2>1, <2>3, WhoStarts
<1> QED BY <1>0, <1>1, <1>2 DEF NodeInv, NoOverlap, Deployments

\* From the drained endpoint to the stop of Source nobody opens traffic, reloads an open
\* snapshot or admits a request.
LEMMA HeldOffKept == ASSUME OrderInv, NoGap, HeldOff, [Next]_vars PROVE HeldOff'
<1> SUFFICES ASSUME Draining'
             PROVE  /\ traffic' # "SERVING" /\ gw'.traffic # "SERVING"
                    /\ \A d \in Deployments : infl'[d] = 0
  BY DEF HeldOff
<1>0. PhaseInv /\ PhaseStatus /\ PhaseCur /\ Clean /\ Going
  BY MemoryGrows, GoingBack DEF OrderInv, PhaseInv, Draining
<1>1. step["STOP_SOURCE"] # "SUCCEEDED"
  BY <1>0, SuccessStays, StepSets DEF Draining, Steps
<1>2. \A s \in Early : step[s] # "FAILED"
  BY <1>0, FailureStays, StepSets DEF Draining, Steps, Early
<1>3. cancel => AtStep
  <2>1. SUFFICES ASSUME cancel, ~AtStep PROVE FALSE
    OBVIOUS
  <2>2. AtStep'
    BY <2>1, WishKept DEF Draining
  <2>3. BeginRollback \/ BeginForward
    BY <2>1, <2>2, WhoEnters
  <2> QED BY <1>0, <2>1, <2>3 DEF BeginRollback, BeginForward, PhaseStatus, Going
<1>4. /\ traffic # "SERVING" /\ gw.traffic # "SERVING"
      /\ \A d \in Deployments : infl[d] = 0
  <2>1. CASE Done("DRAIN_TRAFFIC")
    BY <1>0, <1>1, <1>2, <1>3, <2>1 DEF Draining, HeldOff
  <2>2. CASE ~Done("DRAIN_TRAFFIC")
    BY <1>0, <2>2, NewlyApplied DEF Draining
  <2> QED BY <2>1, <2>2
<1>5. traffic' # "SERVING"
  <2>1. SUFFICES ASSUME traffic' = "SERVING" PROVE FALSE
    OBVIOUS
  <2>2. CASE EnterTraffic /\ cur \in {"RESTORE_TRAFFIC", "ROLLBACK_RESTORE_TRAFFIC"}
    <3>1. AtStep
      BY <2>2 DEF EnterTraffic, AtStep, StepPhases
    <3>2. cur = "RESTORE_TRAFFIC"
      BY <1>0, <2>2, <3>1, GoingForward, StepSets
    <3> QED BY <1>0, <1>1, <3>1, <3>2, BehindForward DEF At, Before
  <2>3. CASE Reopen
    <3>1. AtStep /\ step[cur] = "FAILED"
      BY <1>0, <2>3 DEF Reopen, PhaseCur, AtStep, StepPhases, FailedAt
    <3>2. cur \in ForwardSteps \ Early
      BY <1>0, <1>2, <3>1, GoingForward
    <3> QED BY <1>0, <1>1, <3>1, <3>2, BehindForward DEF At
  <2>4. CASE RestoreForCancel
    BY <1>0, <1>3, <2>4 DEF RestoreForCancel, PhaseStatus, AtStep, StepPhases
  <2> QED BY <1>4, <2>1, <2>2, <2>3, <2>4, WhoServes
<1>6. gw'.traffic # "SERVING"
  BY <1>4, WhoReloads
<1>7. \A d \in Deployments : infl'[d] = 0
  BY <1>0, <1>4, WhoAdmits
<1> QED BY <1>5, <1>6, <1>7

\* From the block of traffic to the stop of Target nobody opens it.
LEMMA BlockedKept == ASSUME OrderInv, NoGap, Blocked, [Next]_vars PROVE Blocked'
<1> SUFFICES ASSUME Done("ROLLBACK_BLOCK_TRAFFIC")', step'["ROLLBACK_STOP_TARGET"] # "SUCCEEDED"
             PROVE  traffic' # "SERVING" /\ gw'.traffic # "SERVING"
  BY DEF Blocked
<1>0. PhaseInv /\ PhaseCur
  BY DEF OrderInv, PhaseInv
<1>1. step["ROLLBACK_STOP_TARGET"] # "SUCCEEDED"
  BY <1>0, SuccessStays, StepSets DEF Steps
<1>2. /\ traffic # "SERVING" /\ gw.traffic # "SERVING"
      /\ ~Going
  <2>1. CASE Done("ROLLBACK_BLOCK_TRAFFIC")
    BY <1>1, <2>1, GoingForward, StepSets DEF Blocked
  <2>2. CASE ~Done("ROLLBACK_BLOCK_TRAFFIC")
    <3>1. /\ WaitSatisfied /\ cur = "ROLLBACK_BLOCK_TRAFFIC"
          /\ traffic # "SERVING" /\ gw.traffic # "SERVING"
      BY <1>0, <2>2, NewlyApplied
    <3> QED BY <3>1, GoingForward, StepSets DEF WaitSatisfied, AtStep, StepPhases
  <2> QED BY <2>1, <2>2
<1>3. traffic' # "SERVING"
  <2>1. SUFFICES ASSUME traffic' = "SERVING" PROVE FALSE
    OBVIOUS
  <2>2. CASE EnterTraffic /\ cur \in {"RESTORE_TRAFFIC", "ROLLBACK_RESTORE_TRAFFIC"}
    <3>1. AtStep
      BY <2>2 DEF EnterTraffic, AtStep, StepPhases
    <3>2. cur = "ROLLBACK_RESTORE_TRAFFIC"
      BY <1>2, <2>2, <3>1, GoingForward, StepSets
    <3> QED BY <1>1, <3>1, <3>2, BehindRollback DEF At
  <2>3. CASE Reopen
    <3>1. AtStep /\ cur \in ForwardSteps
      BY <1>0, <2>3 DEF Reopen, Destructive, PhaseCur, AtStep, StepPhases, Steps
    <3> QED BY <1>2, <3>1, GoingForward
  <2>4. CASE RestoreForCancel
    BY <1>2, <2>4, GoingForward DEF RestoreForCancel
  <2> QED BY <1>2, <2>1, <2>2, <2>3, <2>4, WhoServes
<1>4. gw'.traffic # "SERVING"
  BY <1>2, WhoReloads
<1> QED BY <1>3, <1>4

\* An activation counts from the action that moved the route.
LEMMA NewlyActivated ==
  ASSUME PhaseInv, [Next]_vars, NEW s \in DOMAIN ActivateOf, Activated(s)', ~Activated(s)
  PROVE  route' = ActivateOf[s]
<1>0. s \in Steps /\ s \notin DOMAIN TrafficOf /\ s \notin DOMAIN CommandOf /\ s \notin Waits
      /\ s \notin CheckSteps
  BY TableDomains, StepSets DEF Steps, Waits, CheckSteps
<1>1. ~(Done(s)' /\ ~Done(s))
  <2>1. SUFFICES ASSUME Done(s)', ~Done(s) PROVE FALSE
    OBVIOUS
  <2>2. cur = s /\ (WaitSatisfied \/ MarkRuntime \/ CheckPasses \/ RecordVersion)
    BY <1>0, <2>1, NewlyDone
  <2>3. ~WaitSatisfied /\ ~MarkRuntime /\ ~CheckPasses
    BY <1>0, <2>2 DEF WaitSatisfied, MarkRuntime, CheckPasses, PhaseInv, PhaseCur
  <2> QED BY <2>2, <2>3 DEF RecordVersion, Activated
<1>2. pc' = "record" /\ cur' = s
  BY <1>1 DEF Activated
<1>3. pc # "record"
  BY <1>2, WhoEnters DEF Activated, AtStep, StepPhases
<1>4. ~EnterTraffic
  BY <1>0, <1>2 DEF EnterTraffic
<1>5. ActivateRoute
  BY <1>2, <1>3, <1>4, WhoEnters
<1> QED BY <1>2, <1>5 DEF ActivateRoute, SetRoute, routingVars

\* Before the rollback nobody routes back to Source: its row is STOPPED.
LEMMA RouteAwayKept ==
  ASSUME OrderInv, NoGap, NodeInv, RouteAway, [Next]_vars PROVE RouteAway'
<1> SUFFICES ASSUME Clean', Unturned', Activated("ACTIVATE_TARGET_ROUTE")'
             PROVE  route' # "source"
  BY DEF RouteAway
<1>0. PhaseInv /\ Clean /\ Unturned
  BY MemoryGrows, UnturnedBack DEF OrderInv
<1>1. CASE Activated("ACTIVATE_TARGET_ROUTE")
  <2>1. route # "source"
    BY <1>0, <1>1 DEF RouteAway
  <2>2. At("ACTIVATE_TARGET_ROUTE")
    BY <1>1 DEF Activated, Done, At, AtStep, StepPhases
  <2>3. rt["source"] = "STOPPED"
    BY <1>0, <2>2, BehindForward DEF Before, NodeInv, Stopped, Done
  <2>4. ~(pc = "body" /\ cur = "ROLLBACK_ACTIVATE_SOURCE_ROUTE")
    BY <1>0, GoingForward, StepSets DEF AtStep, StepPhases
  <2> QED BY <2>1, <2>3, <2>4, WhoRoutes DEF Deployments
<1>2. CASE ~Activated("ACTIVATE_TARGET_ROUTE")
  BY <1>0, <1>2, NewlyActivated, TableDomains, ActivateTable
<1> QED BY <1>1, <1>2

\* Rolling back, nobody routes to Target again: its row is STOPPED.
LEMMA RouteBackKept ==
  ASSUME OrderInv, NoGap, NodeInv, RouteBack, [Next]_vars PROVE RouteBack'
<1> SUFFICES ASSUME Activated("ROLLBACK_ACTIVATE_SOURCE_ROUTE")' PROVE route' # "target"
  BY DEF RouteBack
<1>0. PhaseInv
  BY DEF OrderInv
<1>1. CASE Activated("ROLLBACK_ACTIVATE_SOURCE_ROUTE")
  <2>1. route # "target"
    BY <1>1 DEF RouteBack
  <2>2. At("ROLLBACK_ACTIVATE_SOURCE_ROUTE")
    BY <1>1 DEF Activated, Done, At, AtStep, StepPhases
  <2>3. rt["target"] = "STOPPED"
    BY <2>2, BehindRollback DEF NodeInv, TargetDown, Done
  <2>4. ~(pc = "body" /\ cur = "ACTIVATE_TARGET_ROUTE")
    <3>1. AtStep /\ cur = "ACTIVATE_TARGET_ROUTE" => status \in Ahead
      BY GoingForward, StepSets
    <3> QED BY <1>1, <3>1, GoingForward, StepSets DEF Activated, AtStep, StepPhases
  <2> QED BY <2>1, <2>3, <2>4, WhoRoutes DEF Deployments
<1>2. CASE ~Activated("ROLLBACK_ACTIVATE_SOURCE_ROUTE")
  BY <1>0, <1>2, NewlyActivated, TableDomains, ActivateTable
<1> QED BY <1>1, <1>2

\* A stop is called only while the endpoint is closed.
LEMMA ClosedAtStop ==
  ASSUME OrderInv, NoGap, HeldOff, Blocked, pc = "call"
  PROVE  /\ Clean /\ cur = "STOP_SOURCE"
              => /\ traffic # "SERVING" /\ gw.traffic # "SERVING"
                 /\ \A d \in Deployments : infl[d] = 0
         /\ cur = "ROLLBACK_STOP_TARGET" => traffic # "SERVING" /\ gw.traffic # "SERVING"
<1>0. AtStep /\ step[cur] = "RUNNING"
  BY DEF OrderInv, PhaseInv, PhaseCur, AtStep, StepPhases, FailedAt
<1>1. ASSUME Clean, cur = "STOP_SOURCE" PROVE Draining
  <2>1. Going
    BY <1>0, <1>1, GoingForward, StepSets
  <2>2. \A s \in Early \ {"STOP_SOURCE"} : step[s] = "SUCCEEDED"
    BY <1>0, <1>1, BehindForward DEF At
  <2> QED BY <1>0, <1>1, <2>1, <2>2 DEF Draining, Early, Done
<1>2. ASSUME cur = "ROLLBACK_STOP_TARGET" PROVE Done("ROLLBACK_BLOCK_TRAFFIC")
  BY <1>0, <1>2, BehindRollback DEF At, Done
<1> QED BY <1>0, <1>1, <1>2 DEF HeldOff, Blocked

\* Who opens the endpoint, routes or marks finds the container running; who stops one finds
\* the endpoint closed.
LEMMA RowsRunKept ==
  ASSUME OrderInv, NoGap, NodeInv, RouteInv, [Next]_vars PROVE RowsRun'
<1> SUFFICES ASSUME OnTime', traffic' = "SERVING", NEW d \in Deployments,
                    route' = d \/ rt'[d] = "RUNNING"
             PROVE  cont'[d] = "running"
  BY DEF RowsRun
<1>0. PhaseInv /\ OnTime /\ Clean /\ d \in {"source", "target"}
  BY MemoryGrows DEF OrderInv, Deployments
<1>1. CASE traffic # "SERVING"
  <2>0. UNCHANGED <<route, rt, cont>>
    BY <1>1, WhoServes DEF EnterTraffic, Reopen, RestoreForCancel, SetTraffic, deployVars,
      nodeVars, routingVars
  <2>1. CASE EnterTraffic /\ cur = "RESTORE_TRAFFIC"
    <3>1. AtStep /\ Unturned
      BY <2>1, GoingForward, StepSets DEF EnterTraffic, AtStep, StepPhases
    <3>2. \A s \in Before \cup {"ACTIVATE_TARGET_ROUTE"} : step[s] = "SUCCEEDED"
      BY <1>0, <2>1, <3>1, BehindForward DEF At
    <3>3. route # "source" /\ rt["source"] = "STOPPED" /\ cont["target"] = "running"
      BY <1>0, <3>1, <3>2 DEF Before, RouteInv, RouteAway, Activated, NodeInv, Stopped, TargetUp,
        Done
    <3> QED BY <1>0, <2>0, <3>3
  <2>2. CASE EnterTraffic /\ cur = "ROLLBACK_RESTORE_TRAFFIC"
    <3>1. AtStep
      BY <2>2 DEF EnterTraffic, AtStep, StepPhases
    <3>2. /\ step["ROLLBACK_STOP_TARGET"] = "SUCCEEDED"
          /\ step["ROLLBACK_START_SOURCE"] = "SUCCEEDED"
          /\ step["ROLLBACK_ACTIVATE_SOURCE_ROUTE"] = "SUCCEEDED"
      BY <2>2, <3>1, BehindRollback DEF At
    <3>3. route # "target" /\ rt["target"] = "STOPPED" /\ cont["source"] = "running"
      BY <1>0, <3>2 DEF RouteInv, RouteBack, Activated, NodeInv, TargetDown, SourceUp, Done
    <3> QED BY <1>0, <2>0, <3>3
  <2>3. CASE Reopen \/ RestoreForCancel
    <3>1. ~boundary
      BY <1>0, <2>3 DEF Reopen, RestoreForCancel, Destructive, NodeInv, Recalled
    <3>2. step["STOP_SOURCE"] # "SUCCEEDED"
      BY <1>0, <3>1 DEF NodeInv, Past, Done
    <3>3. route # "target" /\ rt["target"] # "RUNNING" /\ cont["source"] = "running"
      BY <1>0, <3>1, <3>2 DEF NodeInv, RoutedAfter, Before, RunsAfter, Uncrossed
    <3> QED BY <1>0, <2>0, <3>3
  <2> QED BY <1>1, <2>1, <2>2, <2>3, WhoServes
<1>2. CASE traffic = "SERVING"
  <2>1. cont[d] = "running"
    <3>1. CASE route = d \/ rt[d] = "RUNNING"
      BY <1>0, <1>2, <3>1 DEF RouteInv, RowsRun
    <3>2. CASE pc \in {"body", "mark"} /\ d = "target"
               /\ cur \in {"ACTIVATE_TARGET_ROUTE", "START_TARGET"}
               /\ (pc = "mark" => cur = "START_TARGET")
               /\ (pc = "body" => cur = "ACTIVATE_TARGET_ROUTE")
      <4>1. AtStep /\ Unturned
        BY <3>2, GoingForward, StepSets DEF AtStep, StepPhases
      <4>2. pc = "body" => step["START_TARGET"] = "SUCCEEDED"
        BY <1>0, <3>2, <4>1, BehindForward DEF At, Before
      <4> QED BY <1>0, <3>2, <4>1, <4>2 DEF NodeInv, TargetUp, Done
    <3>3. CASE pc = "body" /\ d = "source" /\ cur = "ROLLBACK_ACTIVATE_SOURCE_ROUTE"
      <4>1. step["ROLLBACK_START_SOURCE"] = "SUCCEEDED"
        BY <3>3, BehindRollback DEF At, AtStep, StepPhases
      <4> QED BY <1>0, <3>3, <4>1 DEF NodeInv, SourceUp, Done
    <3>4. CASE pc = "mark" /\ d = "source" /\ cur = "ROLLBACK_START_SOURCE"
      BY <1>0, <3>4 DEF NodeInv, SourceUp
    <3>5. CASE route' = d /\ route # d
      BY <1>0, <3>1, <3>2, <3>3, <3>5, WhoRoutes
    <3>6. CASE rt'[d] = "RUNNING" /\ rt[d] # "RUNNING"
      BY <1>0, <3>2, <3>4, <3>6, WhoMarks
    <3> QED BY <3>1, <3>5, <3>6
  <2>2. ~(pc = "call" /\ cur \in {"STOP_SOURCE", "ROLLBACK_STOP_TARGET"})
    BY <1>0, <1>2, ClosedAtStop DEF RouteInv
  <2> QED BY <1>0, <2>1, <2>2, WhoStops
<1> QED BY <1>1, <1>2

\* The snapshot is taken from rows that run, and a container is stopped under a closed one.
LEMMA TrafficKept ==
  ASSUME OrderInv, NoGap, NodeInv, RouteInv, [Next]_vars PROVE NoTrafficToStoppedModel'
<1> SUFFICES ASSUME OnTime', gw'.traffic = "SERVING", gw'.active \in Deployments
             PROVE  cont'[gw'.active] = "running"
  BY DEF NoTrafficToStoppedModel
<1>0. PhaseInv /\ OnTime /\ Clean
  BY MemoryGrows DEF OrderInv
<1>1. CASE gw' # gw
  BY <1>0, <1>1, WhoReloads DEF RouteInv, RowsRun
<1>2. CASE gw' = gw
  <2>1. cont[gw.active] = "running"
    BY <1>0, <1>2 DEF RouteInv, NoTrafficToStoppedModel
  <2>2. ~(pc = "call" /\ cur \in {"STOP_SOURCE", "ROLLBACK_STOP_TARGET"})
    BY <1>0, <1>2, ClosedAtStop DEF RouteInv
  <2> QED BY <1>0, <1>2, <2>1, <2>2, WhoStops
<1> QED BY <1>1, <1>2

\* The invariant holds of a fresh operation.
LEMMA ServingAtStart == Init => ServingInv
<1> SUFFICES ASSUME Init PROVE ServingInv
  OBVIOUS
<1>1. NoGap
  <2>1. \A i \in DOMAIN Forward : Forward[i] \in Steps
    BY DEF ForwardSteps, Steps
  <2>2. \A i \in DOMAIN Rollback : Rollback[i] \in Steps
    BY DEF RollbackSteps, Steps
  <2> QED BY <2>1, <2>2 DEF Init, NoGap
<1>2. \A s \in Steps : ~Done(s)
  BY DEF Init, Done
<1>3. NodeInv
  <2>1. RoutedAfter /\ RunsAfter
    BY DEF Init, RoutedAfter, RunsAfter, RunningOnly, Deployments
  <2>2. LateForward /\ Past /\ Stopped /\ Uncrossed /\ Recalled
    BY <1>2, StepSets DEF Init, LateForward, Past, Stopped, Uncrossed, Recalled, Deployments, Steps
  <2>3. TargetUp /\ TargetDown /\ SourceUp /\ NoOverlap
    BY <1>2, StepSets DEF Init, TargetUp, TargetDown, SourceUp, NoOverlap, Deployments, Steps
  <2> QED BY <2>1, <2>2, <2>3 DEF NodeInv
<1>4. RouteInv
  <2>1. HeldOff /\ Blocked /\ RouteAway /\ RouteBack
    BY <1>2, StepSets DEF Init, HeldOff, Draining, Blocked, RouteAway, RouteBack, Activated, Steps
  <2>2. RowsRun /\ NoTrafficToStoppedModel
    BY DEF Init, RowsRun, NoTrafficToStoppedModel, Deployments
  <2> QED BY <2>1, <2>2 DEF RouteInv
<1> QED BY <1>1, <1>3, <1>4, OrderAtStart DEF ServingInv

\* Every step keeps the invariant.
LEMMA ServingKept == ASSUME ServingInv, [Next]_vars PROVE ServingInv'
<1> USE DEF ServingInv
<1>1. OrderInv' /\ NoGap'
  BY OrderKept, NoGapKept
<1>2. NodeInv'
  BY RoutedAfterKept, RunsAfterKept, LateForwardKept, PastKept, StoppedKept, UncrossedKept,
    RecalledKept, TargetUpKept, TargetDownKept, SourceUpKept, NoOverlapKept DEF NodeInv
<1>3. RouteInv'
  BY HeldOffKept, BlockedKept, RouteAwayKept, RouteBackKept, RowsRunKept, TrafficKept DEF RouteInv
<1> QED BY <1>1, <1>2, <1>3

\* The invariant holds in every reachable state.
LEMMA ServingHolds == Spec => []ServingInv
<1>1. ServingInv /\ [Next]_vars => ServingInv'
  BY ServingKept
<1> QED BY <1>1, ServingAtStart, PTL DEF Spec

\* ColdSwitch!RoutedOnlyAfterProbe: the active route names Target only once its health check
\* and inference probe are SUCCEEDED, whichever way the route got there: ACTIVATE_TARGET_ROUTE,
\* a resumed attempt, or an operator's edit (cold_switch.py:113-128, 806-874).
THEOREM ProbedBeforeRouted == Spec => []RoutedOnlyAfterProbe
<1>1. ServingInv => RoutedOnlyAfterProbe
  BY DEF ServingInv, NodeInv, RoutedAfter, Before, RoutedOnlyAfterProbe
<1> QED BY <1>1, ServingHolds, PTL

\* ColdSwitch!NoOverlap: Source and Target never run together on the GPUs they share, through
\* crashes, retries, rollback and resumption, unless a command took effect after its caller
\* had given it up.
THEOREM OneAtATime == Spec => []NoOverlap
<1>1. ServingInv => NoOverlap
  BY DEF ServingInv, NodeInv
<1> QED BY <1>1, ServingHolds, PTL

\* ColdSwitch!NoTrafficToStoppedModel: while the gateway's snapshot says SERVING, the
\* deployment it routes to runs.
THEOREM TrafficReachesRunning == Spec => []NoTrafficToStoppedModel
<1>1. ServingInv => NoTrafficToStoppedModel
  BY DEF ServingInv, RouteInv
<1> QED BY <1>1, ServingHolds, PTL

\* Source's container stops running in the call of STOP_SOURCE only.
LEMMA DrainStep ==
  ASSUME ServingInv, [Next]_vars, OnTime', cont["source"] = "running", cont'["source"] # "running"
  PROVE  boundary /\ infl["source"] = 0
<1>0. PhaseInv /\ Clean /\ "source" \in Deployments
  BY MemoryGrows DEF ServingInv, OrderInv, Deployments
<1>1. pc = "call" /\ cur = "STOP_SOURCE"
  BY <1>0, WhoStops
<1>2. boundary
  BY <1>0, <1>1 DEF ServingInv, NodeInv, Past
<1>3. infl["source"] = 0
  BY <1>0, <1>1, ClosedAtStop DEF ServingInv, RouteInv
<1> QED BY <1>2, <1>3

\* ColdSwitch!DrainedBeforeStop: the step that stops Source's container is taken past the
\* committed boundary and with no request of the endpoint in flight to it.
THEOREM StopsDrained == Spec => DrainedBeforeStop
<1>1. ServingInv /\ [Next]_vars
        => [OnTime' /\ cont["source"] = "running" /\ cont'["source"] # "running"
              => boundary /\ infl["source"] = 0]_vars
  BY DrainStep
<1> QED BY <1>1, ServingHolds, PTL DEF Spec, DrainedBeforeStop

-----------------------------------------------------------------------------
(***************************** the endings *********************************)

\* On the way to SUCCEEDED, and there, Target serves alone.
Finalized(phase) ==
  phase => /\ desired = RunningOnly("target")
           /\ Clean => \A s \in ForwardSteps : step[s] = "SUCCEEDED"
ToSucceed == Finalized(pc = "succeed")
Won       == Finalized(status = "SUCCEEDED")
Served    == Clean /\ edits = 0 /\ Going /\ pc # "escalate" /\ Done("FINALIZE")
               => ServesAlone("target", "source")
\* On the way to ROLLED_BACK, Source does.
Restored  == OnTime /\ edits = 0 /\ pc \in {"commit", "rbnext"} /\ Done("ROLLBACK_FINALIZE")
               => ServesAlone("source", "target") /\ desired = RunningOnly("source")
\* Where the operation is about to end without effect, or has, or has not begun.
Ineffective == pc \in {"restore", "failsafe"} \/ status \in {"QUEUED", "FAILED", "CANCELLED"}
Unharmed    == OnTime /\ Ineffective => traffic = "SERVING" /\ ~boundary
OwnRoute    == edits = 0 => route \in Deployments

EndInv == /\ ServingInv /\ ToSucceed /\ Won /\ Served /\ Restored /\ RolledBackMeansRestored
          /\ Unharmed /\ OwnRoute

\* Between its steps, and when it is over, the operation leaves the rows alone.
LEMMA AtRest ==
  ASSUME PhaseInv, [Next]_vars, pc' # "escalate",
         pc \notin {"body", "wait", "call", "mark", "failed", "block"}
  PROVE  /\ traffic = "SERVING" => traffic' = "SERVING"
         /\ \A d \in Deployments : rt'[d] = rt[d]
         /\ hl' = hl
         /\ edits' = 0 => route' = route
<1>1. traffic = "SERVING" => traffic' = "SERVING"
  BY WhoCloses DEF EnsureRollback
<1>2. \A d \in Deployments : rt'[d] = rt[d]
  BY WhoMarks
<1>3. hl' = hl
  BY WhoChecksHealth
<1>4. edits' = 0 => route' = route
  BY NoEdit, WhoRoutes
<1> QED BY <1>1, <1>2, <1>3, <1>4

\* So a deployment that serves alone goes on serving alone.
LEMMA AtRestServes ==
  ASSUME PhaseInv, [Next]_vars, pc' # "escalate", edits' = 0,
         pc \notin {"body", "wait", "call", "mark", "failed", "block"},
         NEW on \in Deployments, NEW off \in Deployments, ServesAlone(on, off)
  PROVE  ServesAlone(on, off)'
BY AtRest DEF ServesAlone

\* FINALIZE and its rollback twin are done on finding one deployment serving alone.
LEMMA NewlyFinal ==
  ASSUME PhaseInv, [Next]_vars, NEW s \in {"FINALIZE", "ROLLBACK_FINALIZE"}, Done(s)', ~Done(s)
  PROVE  /\ s = "FINALIZE" => ServesAlone("target", "source")'
         /\ s = "ROLLBACK_FINALIZE"
              => ServesAlone("source", "target")' /\ desired' = RunningOnly("source")
<1>1. cur = s /\ (WaitSatisfied \/ MarkRuntime \/ CheckPasses \/ RecordVersion)
  BY NewlyDone, StepSets DEF Steps
<1>2. ~WaitSatisfied /\ ~MarkRuntime /\ ~RecordVersion
  BY <1>1, TableDomains DEF WaitSatisfied, MarkRuntime, RecordVersion, PhaseInv, PhaseCur, Waits,
    Recorded
<1>3. CheckPasses
  BY <1>1, <1>2
<1>4. cur \notin DOMAIN HealthOf
  BY <1>1, TableDomains
<1>5. UNCHANGED <<traffic, route, rt, hl>>
  BY <1>3, <1>4 DEF CheckPasses, routingVars
<1>6. /\ cur = "FINALIZE" => ServesAlone("target", "source")
      /\ cur = "ROLLBACK_FINALIZE" => ServesAlone("source", "target")
  BY <1>3, <1>4 DEF CheckPasses, Ready
<1>7. cur = "ROLLBACK_FINALIZE" => desired' = RunningOnly("source")
  BY <1>3 DEF CheckPasses
<1> QED BY <1>1, <1>5, <1>6, <1>7 DEF ServesAlone

\* An operation that is over, or not yet claimed, is in no worker's hands.
LEMMA IdleOutside ==
  ASSUME PhaseInv, status \notin {"RUNNING", "ROLLING_BACK"} PROVE pc = "idle"
BY DEF PhaseInv, PhaseStatus

\* After the forward loop nothing takes the desired states or the steps back ...
LEMMA ToSucceedKept == ASSUME OrderInv, ToSucceed, [Next]_vars PROVE ToSucceed'
<1>0. PhaseInv /\ ForwardSteps \subseteq Steps
  BY DEF OrderInv, Steps
<1> SUFFICES ASSUME pc' = "succeed"
             PROVE  /\ desired' = RunningOnly("target")
                    /\ Clean' => \A s \in ForwardSteps : step'[s] = "SUCCEEDED"
  BY DEF ToSucceed, Finalized, Clean
<1>1. CASE pc = "succeed"
  <2>1. /\ desired = RunningOnly("target")
        /\ Clean => \A s \in ForwardSteps : step[s] = "SUCCEEDED"
    BY <1>1 DEF ToSucceed, Finalized
  <2>2. desired' = desired
    BY <1>1, WhoWants DEF FinalizeDesired
  <2> QED BY <1>0, <2>1, <2>2, MemoryGrows, SuccessStays
<1>2. CASE FinalizeDesired
  BY <1>2, AllAtFinalize DEF FinalizeDesired, FinalDesired
<1> QED BY <1>1, <1>2, WhoEnters

\* ... nor when the operation has succeeded.
LEMMA WonKept == ASSUME OrderInv, ToSucceed, Won, [Next]_vars PROVE Won'
<1>0. PhaseInv /\ ForwardSteps \subseteq Steps
  BY DEF OrderInv, Steps
<1> SUFFICES ASSUME status' = "SUCCEEDED"
             PROVE  /\ desired' = RunningOnly("target")
                    /\ Clean' => \A s \in ForwardSteps : step'[s] = "SUCCEEDED"
  BY DEF Won, Finalized, Clean
<1>1. status = "SUCCEEDED" \/ pc = "succeed"
  BY <1>0, WhoMovesStatus DEF Succeed, Fail, CancelOperation, MarkRollingBack, FinishRollback,
    Escalate
<1>2. pc \in {"succeed", "idle"}
  BY <1>0, <1>1, IdleOutside
<1>3. /\ desired = RunningOnly("target")
      /\ Clean => \A s \in ForwardSteps : step[s] = "SUCCEEDED"
  BY <1>1 DEF ToSucceed, Won, Finalized
<1>4. desired' = desired
  BY <1>2, WhoWants DEF FinalizeDesired
<1> QED BY <1>0, <1>3, <1>4, MemoryGrows, SuccessStays

\* From the decision to call the operator only a crash leads elsewhere.
LEMMA WhoGivesUp ==
  ASSUME [Next]_vars, pc = "escalate", pc' # "escalate" PROVE Escalate \/ Crash
<1> USE DEF OthersUnchanged, workerVars, Fault
<1>1. CASE Escalate \/ Crash
  BY <1>1
<1>2. CASE OperatorSetsRoute
  BY <1>2 DEF OperatorSetsRoute
<1>3. CASE RetryableError \/ PermanentError
  BY <1>3 DEF RetryableError, PermanentError
<1>4. CASE BeginForward \/ BeginRollback
  BY <1>4 DEF BeginForward, BeginRollback
<1>5. CASE Claim \/ RecoverStale \/ Resume \/ ObserveCancel \/ FinalizeDesired
  BY <1>5 DEF Claim, RecoverStale, Resume, ObserveCancel, FinalizeDesired
<1>6. CASE Succeed \/ EnterTraffic \/ RecordVersion \/ ActivateRoute \/ StartWait
  BY <1>6 DEF Succeed, EnterTraffic, RecordVersion, ActivateRoute, StartWait
<1>7. CASE WaitSatisfied \/ WaitTimesOut \/ FailTimedOut \/ DecideBoundary \/ CallSucceeds
  BY <1>7 DEF WaitSatisfied, WaitTimesOut, FailTimedOut, DecideBoundary, CallSucceeds
<1>8. CASE UnexpectedError \/ MarkRuntime \/ CheckPasses \/ CheckFails \/ Commit
  BY <1>8 DEF UnexpectedError, MarkRuntime, CheckPasses, CheckFails, Commit
<1>9. CASE StopSourceFailed \/ StepFailed \/ BlockForOperator \/ Reopen \/ Fail
  BY <1>9 DEF StopSourceFailed, StepFailed, BlockForOperator, Reopen, Fail
<1>10. CASE RestoreForCancel \/ RestoreTimesOut \/ CancelOperation \/ MarkRollingBack \/
  EnsureRollback
  BY <1>10 DEF RestoreForCancel, RestoreTimesOut, CancelOperation, MarkRollingBack, EnsureRollback
<1>11. CASE FinishRollback \/ RequestCancel \/ LateEffect \/ StartReload \/ FinishReload
  BY <1>11 DEF FinishRollback, RequestCancel, LateEffect, StartReload, FinishReload
<1>12. CASE Admit \/ Release
  BY <1>12 DEF Admit, Release
<1>13. CASE UNCHANGED vars
  BY <1>13 DEF vars
<1> QED BY <1>1, <1>2, <1>3, <1>4, <1>5, <1>6, <1>7, <1>8, <1>9, <1>10, <1>11, <1>12, <1>13 DEF
  Next, WorkerStep

\* From FINALIZE to the end of the operation Target serves alone.
LEMMA ServedKept ==
  ASSUME ServingInv, Served, [Next]_vars PROVE Served'
<1> SUFFICES ASSUME Clean', edits' = 0, Going', pc' # "escalate", Done("FINALIZE")'
             PROVE  ServesAlone("target", "source")'
  BY DEF Served
<1>0. /\ OrderInv /\ NoGap /\ PhaseInv /\ PhaseCur /\ PhaseStatus
      /\ Clean /\ edits = 0 /\ Going
  BY MemoryGrows, GoingBack, EditsGrow DEF ServingInv, OrderInv, PhaseInv
<1>1. pc # "escalate"
  <2>1. ~Escalate
    BY DEF Escalate, Going
  <2>2. Crash /\ pc = "escalate" => "escalation interrupted" \in anomaly'
    BY DEF Crash
  <2> QED BY <2>1, <2>2, WhoGivesUp DEF Clean
<1>2. CASE Done("FINALIZE")
  <2>1. ServesAlone("target", "source")
    BY <1>0, <1>1, <1>2 DEF Served
  <2>2. ~AtStep \/ pc = "commit"
    <3>1. SUFFICES ASSUME AtStep, step["FINALIZE"] = "SUCCEEDED" PROVE FALSE
      BY <1>2 DEF Done
    <3>2. cur \in ForwardSteps
      BY <1>0, <3>1, GoingForward
    <3>3. step[cur] = "SUCCEEDED"
      BY <1>0, <3>1, <3>2, BehindForward DEF At
    <3> QED BY <1>0, <3>1, <3>3 DEF PhaseCur
  <2>3. pc # "block"
    BY <1>0 DEF PhaseStatus, Going
  <2>4. pc \notin {"body", "wait", "call", "mark", "failed", "block"}
    BY <2>2, <2>3 DEF AtStep, StepPhases
  <2> QED BY <1>0, <2>1, <2>4, AtRestServes DEF Deployments
<1>3. CASE ~Done("FINALIZE")
  BY <1>0, <1>3, NewlyFinal
<1> QED BY <1>2, <1>3

\* From ROLLBACK_FINALIZE to the end of the rollback Source serves alone.
LEMMA RestoredKept ==
  ASSUME ServingInv, Restored, [Next]_vars PROVE Restored'
<1> SUFFICES ASSUME OnTime', edits' = 0, pc' \in {"commit", "rbnext"}, Done("ROLLBACK_FINALIZE")'
             PROVE  ServesAlone("source", "target")' /\ desired' = RunningOnly("source")
  BY DEF Restored
<1>0. OrderInv /\ NoGap /\ PhaseInv /\ PhaseCur /\ OnTime /\ edits = 0
  BY MemoryGrows, EditsGrow DEF ServingInv, OrderInv, PhaseInv
<1>1. CASE Done("ROLLBACK_FINALIZE") /\ pc \in {"commit", "rbnext"}
  <2>1. ServesAlone("source", "target") /\ desired = RunningOnly("source")
    BY <1>0, <1>1 DEF Restored
  <2>2. ServesAlone("source", "target")'
    BY <1>0, <1>1, <2>1, AtRestServes DEF Deployments
  <2>3. desired' = desired
    BY <1>1, WhoWants DEF FinalizeDesired
  <2> QED BY <2>1, <2>2, <2>3
<1>2. CASE Done("ROLLBACK_FINALIZE") /\ pc \notin {"commit", "rbnext"}
  <2>0. step["ROLLBACK_FINALIZE"] = "SUCCEEDED"
    BY <1>2 DEF Done
  <2>1. \A s \in RollbackSteps : step[s] = "SUCCEEDED"
    BY <1>0, <2>0, BehindRollback DEF At
  <2>2. ~EnsureRollback
    <3>1. EnsureRollback => "restored rollback blocked" \in anomaly'
      BY <2>1, StepSets DEF EnsureRollback
    <3> QED BY <3>1 DEF OnTime
  <2>3. pc' = "commit" /\ (WaitSatisfied \/ MarkRuntime \/ CheckPasses \/ RecordVersion)
    BY <1>2, <2>2, WhoEnters DEF Commit
  <2>4. AtStep
    BY <2>3 DEF WaitSatisfied, MarkRuntime, CheckPasses, RecordVersion, AtStep, StepPhases
  <2>5. cur \in ForwardSteps
    BY <1>0, <2>1, <2>4 DEF PhaseCur, Steps
  <2>6. status \in Ahead
    BY <1>0, <2>4, <2>5, GoingForward
  <2> QED BY <1>0, <1>2, <2>6, GoingForward, StepSets
<1>3. CASE ~Done("ROLLBACK_FINALIZE")
  BY <1>0, <1>3, NewlyFinal
<1> QED BY <1>1, <1>2, <1>3

\* The rollback ends as it left things, and nobody touches them afterwards.
LEMMA RolledBackKept ==
  ASSUME ServingInv, Restored, RolledBackMeansRestored, [Next]_vars
  PROVE  RolledBackMeansRestored'
<1> SUFFICES ASSUME OnTime', edits' = 0, status' = "ROLLED_BACK"
             PROVE  /\ ServesAlone("source", "target")'
                    /\ cont'["source"] = "running" /\ cont'["target"] # "running"
                    /\ desired' = RunningOnly("source")
                    /\ Open(ForwardSteps)' = {}
  BY DEF RolledBackMeansRestored
<1>0. OrderInv /\ NoGap /\ PhaseInv /\ OnTime /\ edits = 0
  BY MemoryGrows, EditsGrow DEF ServingInv, OrderInv
<1>d. "source" \in Deployments /\ "target" \in Deployments
  BY DEF Deployments
<1>1. CASE status = "ROLLED_BACK"
  <2>1. pc = "idle" /\ pc' = "idle"
    <3>1. PhaseInv'
      BY ServingKept DEF ServingInv, OrderInv
    <3> QED BY <1>0, <1>1, <3>1, IdleOutside DEF PhaseInv, PhaseStatus
  <2>2. /\ ServesAlone("source", "target")
        /\ cont["source"] = "running" /\ cont["target"] # "running"
        /\ desired = RunningOnly("source")
        /\ Open(ForwardSteps) = {}
    BY <1>0, <1>1 DEF RolledBackMeansRestored
  <2>3. ServesAlone("source", "target")'
    BY <1>0, <1>d, <2>1, <2>2, AtRestServes
  <2>4. cont'["source"] = "running" /\ cont'["target"] # "running"
    BY <1>0, <1>d, <2>1, <2>2, WhoStarts, WhoStops
  <2>5. desired' = desired
    BY <2>1, WhoWants DEF FinalizeDesired
  <2>6. ASSUME NEW s \in ForwardSteps PROVE step'[s] \notin {"PENDING", "RUNNING"}
    <3>1. s \in Steps /\ step[s] \notin {"PENDING", "RUNNING"}
      BY <2>2 DEF Open, Steps
    <3> QED BY <1>0, <2>1, <3>1, StepsDisjoint, WhoWritesSteps DEF Starts, Settled, Skipped,
          Created, AtStep, StepPhases
  <2>7. Open(ForwardSteps)' = {}
    BY <2>6 DEF Open
  <2> QED BY <2>2, <2>3, <2>4, <2>5, <2>7
<1>2. CASE status # "ROLLED_BACK"
  <2>1. FinishRollback
    BY <1>0, <1>2, WhoMovesStatus DEF Succeed, Fail, CancelOperation, MarkRollingBack, Escalate
  <2>2. /\ pc = "rbnext" /\ UNCHANGED <<step, traffic, route, rt, hl, desired, cont>>
    BY <2>1 DEF FinishRollback, routingVars, deployVars, nodeVars
  <2>3. ASSUME NEW s \in RollbackSteps PROVE step[s] = "SUCCEEDED"
    <3>1. step[s] \notin {"PENDING", "RUNNING"}
      BY <2>1 DEF FinishRollback, Open
    <3>2. step[s] \notin {"ABSENT", "SKIPPED", "FAILED"}
      BY <1>0, <2>2 DEF OrderInv, Closed, NotSkipped, Unfailed
    <3> QED BY <1>0, <3>1, <3>2 DEF PhaseInv, TypeInv, TypeOK, StepType, Steps
  <2>4. Open(ForwardSteps) = {}
    BY <1>0, <2>2 DEF OrderInv, Closed
  <2>5. ServesAlone("source", "target") /\ desired = RunningOnly("source")
    BY <1>0, <2>2, <2>3, StepSets DEF Restored, Done
  <2>6. cont["source"] = "running" /\ cont["target"] # "running"
    BY <1>0, <2>3, StepSets DEF ServingInv, NodeInv, SourceUp, TargetDown, Done
  <2> QED BY <2>2, <2>4, <2>5, <2>6 DEF ServesAlone, Open
<1> QED BY <1>1, <1>2

\* An operation without effect ends with the endpoint open, before the boundary.
LEMMA UnharmedKept ==
  ASSUME ServingInv, Unharmed, [Next]_vars PROVE Unharmed'
<1> SUFFICES ASSUME OnTime', Ineffective' PROVE traffic' = "SERVING" /\ ~boundary'
  BY DEF Unharmed
<1>0. PhaseInv /\ OnTime /\ Clean
  BY MemoryGrows DEF ServingInv, OrderInv
<1>1. CASE Ineffective
  <2>1. pc \in {"restore", "failsafe", "idle"}
    BY <1>0, <1>1, IdleOutside DEF Ineffective
  <2>2. traffic = "SERVING" /\ ~boundary
    BY <1>0, <1>1 DEF Unharmed
  <2>3. traffic' = "SERVING"
    BY <2>1, <2>2, WhoCloses DEF EnsureRollback
  <2>4. ~boundary'
    BY <2>1, <2>2, WhoDecides
  <2> QED BY <2>3, <2>4
<1>2. CASE ~Ineffective
  <2>1. status' \notin {"QUEUED", "FAILED", "CANCELLED"}
    BY <1>0, <1>2, WhoMovesStatus DEF Ineffective, Succeed, Fail, CancelOperation,
      MarkRollingBack, FinishRollback, Escalate
  <2>2. RestoreForCancel \/ Reopen
    BY <1>2, <2>1, WhoEnters DEF Ineffective
  <2>3. CASE RestoreForCancel
    <3>1. ~boundary /\ boundary' = boundary
      BY <1>0, <2>3 DEF RestoreForCancel, ServingInv, NodeInv, Recalled, operationVars
    <3>2. traffic' = "SERVING"
      BY <2>1, <2>3 DEF RestoreForCancel, Ineffective, SetTraffic
    <3> QED BY <3>1, <3>2
  <2>4. CASE Reopen
    <3>1. ~boundary /\ boundary' = boundary
      BY <2>4 DEF Reopen, Destructive, operationVars
    <3>2. rt["source"] = "RUNNING"
      BY <1>0, <3>1 DEF ServingInv, NodeInv, Uncrossed
    <3>3. traffic' = "SERVING"
      BY <2>4, <3>2 DEF Reopen, TrafficAtEnd, SetTraffic
    <3> QED BY <3>1, <3>3
  <2> QED BY <2>2, <2>3, <2>4
<1> QED BY <1>1, <1>2

\* The endings' invariant holds of a fresh operation.
LEMMA EndAtStart == Init => EndInv
<1> SUFFICES ASSUME Init PROVE EndInv
  OBVIOUS
<1>1. ToSucceed /\ Won /\ Served /\ Restored
  BY StepSets DEF Init, ToSucceed, Won, Finalized, Served, Restored, Done, Steps
<1>2. RolledBackMeansRestored /\ Unharmed /\ OwnRoute
  BY DEF Init, RolledBackMeansRestored, Unharmed, OwnRoute, Deployments
<1> QED BY <1>1, <1>2, ServingAtStart DEF EndInv

\* Every step keeps the endings' invariant.
LEMMA EndKept == ASSUME EndInv, [Next]_vars PROVE EndInv'
<1>1. OwnRoute'
  <2>1. edits' = 0 => edits = 0 /\ ~OperatorSetsRoute
    BY EditsGrow, NoEdit DEF EndInv, ServingInv, OrderInv
  <2> QED BY <2>1, WhoRoutes DEF EndInv, OwnRoute, Deployments
<1> QED BY <1>1, ServingKept, ToSucceedKept, WonKept, ServedKept, RestoredKept, RolledBackKept,
      UnharmedKept DEF EndInv, ServingInv

\* The endings' invariant holds in every reachable state.
LEMMA EndHolds == Spec => []EndInv
<1>1. EndInv /\ [Next]_vars => EndInv'
  BY EndKept
<1> QED BY <1>1, EndAtStart, PTL DEF Spec

\* ColdSwitch!SucceededMeansServed: an operation whose route no operator edited reports
\* SUCCEEDED only past the boundary with Target serving alone, its container running and
\* Source's not, and only Target wanted running.
THEOREM SuccessIsService == Spec => []SucceededMeansServed
<1>1. EndInv => SucceededMeansServed
  <2> SUFFICES ASSUME EndInv, Clean, edits = 0, status = "SUCCEEDED"
               PROVE  /\ boundary
                      /\ ServesAlone("target", "source")
                      /\ cont["target"] = "running" /\ cont["source"] # "running"
                      /\ desired = RunningOnly("target")
    BY DEF SucceededMeansServed
  <2>1. pc = "idle" /\ Going /\ Unturned
    BY IdleOutside, GoingForward DEF EndInv, ServingInv, OrderInv, Going
  <2>2. /\ desired = RunningOnly("target")
        /\ \A s \in ForwardSteps : step[s] = "SUCCEEDED"
    BY DEF EndInv, Won, Finalized
  <2>3. Done("STOP_SOURCE") /\ Done("START_TARGET") /\ Done("FINALIZE")
    BY <2>2, StepSets DEF Done
  <2>4. boundary /\ cont["source"] # "running" /\ cont["target"] = "running"
    BY <2>1, <2>3 DEF EndInv, ServingInv, NodeInv, Past, Stopped, TargetUp
  <2>5. ServesAlone("target", "source")
    BY <2>1, <2>3 DEF EndInv, Served
  <2> QED BY <2>2, <2>4, <2>5
<1> QED BY <1>1, EndHolds, PTL

\* ColdSwitch!RolledBackMeansRestored: ROLLED_BACK is reported only with Source serving alone
\* again, the one deployment wanted running, and with no forward step left to resume.
THEOREM RollbackIsRestored == Spec => []RolledBackMeansRestored
<1>1. EndInv => RolledBackMeansRestored
  BY DEF EndInv
<1> QED BY <1>1, EndHolds, PTL

\* ColdSwitch!HarmlessEndings: FAILED and CANCELLED are reported only with the endpoint open,
\* routed to Source, and Source's container running.
THEOREM EndingsAreHarmless == Spec => []HarmlessEndings
<1>1. EndInv => HarmlessEndings
  <2> SUFFICES ASSUME EndInv, OnTime, edits = 0, status \in {"FAILED", "CANCELLED"}
               PROVE  traffic = "SERVING" /\ route = "source" /\ cont["source"] = "running"
    BY DEF HarmlessEndings
  <2>1. traffic = "SERVING" /\ ~boundary /\ Clean
    BY DEF EndInv, Unharmed, Ineffective, OnTime, Clean
  <2>2. cont["source"] = "running"
    BY <2>1 DEF EndInv, ServingInv, NodeInv, Uncrossed
  <2>3. step["STOP_SOURCE"] # "SUCCEEDED"
    BY <2>1 DEF EndInv, ServingInv, NodeInv, Past, Done
  <2>4. route = "source"
    BY <2>1, <2>3 DEF EndInv, ServingInv, NodeInv, RoutedAfter, Before, OwnRoute, Deployments
  <2> QED BY <2>1, <2>2, <2>4
<1> QED BY <1>1, EndHolds, PTL

=============================================================================
