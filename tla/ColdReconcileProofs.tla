------------------------- MODULE ColdReconcileProofs ------------------------
(***************************************************************************)
(* Theorems of ColdReconcile, for every value of its constants: whatever   *)
(* sweepers end or resume, the switch keeps its promises, unless one has   *)
(* resumed it from facts that were out of date.                            *)
(*                                                                         *)
(* The invariant of ColdSwitch tells little of an operation that is with   *)
(* the operator: most of it is said of operations that go forward or roll  *)
(* back.  A sweeper puts the operation back there, so what it needs is     *)
(* said here of the rows, whatever the status.                             *)
(***************************************************************************)
EXTENDS ColdReconcile, ColdSwitchServingProofs

-----------------------------------------------------------------------------
(************************ what the rows remember ***************************)

\* The rows of the rollback are created together ...
AllOrNone == Unturned \/ \A s \in RollbackSteps : step[s] # "ABSENT"
\* ... which closes the forward steps and the endpoint, until Source is routed to again;
ClosedAfter == ~Unturned => Open(ForwardSteps) = {}
Shut == ~Unturned /\ step["ROLLBACK_ACTIVATE_SOURCE_ROUTE"] # "SUCCEEDED"
          => traffic # "SERVING"
\* before, only a cancellation skips a step.
Unskipped ==
  Unturned /\ status # "CANCELLED" => \A s \in ForwardSteps : step[s] \notin {"ABSENT", "SKIPPED"}
\* A forward step that has begun has those before it behind it.
Ordered ==
  Clean => \A i \in DOMAIN Forward :
    step[Forward[i]] \in {"RUNNING", "FAILED", "SUCCEEDED"}
      => \A k \in 1 .. i - 1 : step[Forward[k]] = "SUCCEEDED"
RowsInv == AllOrNone /\ ClosedAfter /\ Shut /\ Unskipped /\ Ordered

\* Until a failed stop is looked into, Source runs before the boundary ...
Untouched ==
  ~boundary /\ (step["STOP_SOURCE"] # "FAILED" \/ (pc = "failed" /\ cur = "STOP_SOURCE"))
    => /\ cont["source"] = "running"
       /\ \A c \in late : ~(c.dep = "source" /\ c.to = "stopped")
\* ... so that only an operation past it rolls back.
TurnedPast == ~Unturned \/ pc = "rollback" \/ status = "ROLLING_BACK" => boundary
PastInv == Untouched /\ TurnedPast

\* A deployment that has been started, or probed, is so by its row.
RowUp     == Clean /\ Unturned /\ Done("START_TARGET") => rt["target"] = "RUNNING"
SourceRow == Done("ROLLBACK_START_SOURCE") => rt["source"] = "RUNNING"
Judged    == /\ Clean /\ Done("PROBE_TARGET") => hl["target"] = "HEALTHY"
             /\ Done("ROLLBACK_PROBE_SOURCE") => hl["source"] = "HEALTHY"
\* Target runs, has run or is about to only after Source was stopped.
StartedAfter ==
  Clean /\ (started \/ cont["target"] = "running"
              \/ \E c \in late : c.dep = "target" /\ c.to = "running")
    => step["STOP_SOURCE"] = "SUCCEEDED"
EvidenceInv == RowUp /\ SourceRow /\ Judged /\ StartedAfter

\* No row goes away; only a cancellation skips one, or the rollback a forward one; and only
\* as the rollback creates it is one open that was not.
LEMMA RowsKept ==
  ASSUME PhaseInv, [Next]_vars, NEW s \in Steps
  PROVE  /\ step'[s] = "ABSENT" => step[s] = "ABSENT"
         /\ step'[s] = "SKIPPED" /\ step[s] # "SKIPPED"
              => status' = "CANCELLED" \/ (s \in ForwardSteps /\ EnsureRollback)
         /\ step'[s] \in {"PENDING", "RUNNING"} /\ step[s] \notin {"PENDING", "RUNNING"}
              => Created(s)
<1>1. PhaseCur
  BY DEF PhaseInv
<1>2. Settled(s) => step[s] = "RUNNING"
  BY <1>1 DEF Settled, PhaseCur
<1> QED BY <1>2, StepsDisjoint, WhoWritesSteps DEF Starts, Settled, Skipped, Created,
      CancelOperation

\* Who begins the rollback makes all of it, and closes what it leaves behind.
LEMMA TurningStep ==
  ASSUME PhaseInv, [Next]_vars, Unturned, ~Unturned'
  PROVE  EnsureRollback /\ pc = "block"
<1>1. PICK s \in RollbackSteps : step'[s] # "ABSENT"
  BY DEF Unturned
<1>2. s \in Steps /\ step[s] = "ABSENT" /\ s \notin ForwardSteps
  BY StepsDisjoint DEF Unturned, Steps
<1>3. AtStep => step[cur] # "ABSENT"
  BY DEF PhaseInv, PhaseCur
<1> QED BY <1>1, <1>2, <1>3, WhoWritesSteps DEF Starts, Settled, Skipped, Created, EnsureRollback

\* It creates every row of it, leaves no forward step open and closes the endpoint.
LEMMA RollbackRows ==
  ASSUME EnsureRollback
  PROVE  /\ \A s \in RollbackSteps : step'[s] # "ABSENT"
         /\ Open(ForwardSteps)' = {}
         /\ traffic' = "MAINTENANCE"
         /\ ~Unturned'
<1>1. /\ step' = [s \in Steps |-> IF s \in RollbackSteps /\ step[s] = "ABSENT"
                                    THEN "PENDING" ELSE SkipOpen(step, ForwardSteps)[s]]
      /\ traffic' = "MAINTENANCE"
  BY DEF EnsureRollback, SetTraffic
<1>2. ASSUME NEW s \in RollbackSteps PROVE step'[s] # "ABSENT"
  BY <1>1, StepsDisjoint DEF Steps, SkipOpen
<1>3. ASSUME NEW s \in ForwardSteps PROVE step'[s] \notin {"PENDING", "RUNNING"}
  BY <1>1, StepsDisjoint DEF Steps, SkipOpen
<1>4. Open(ForwardSteps)' = {}
  BY <1>3 DEF Open
<1>5. ~Unturned'
  BY <1>2, StepSets DEF Unturned
<1> QED BY <1>1, <1>2, <1>4, <1>5

\* The rows of the rollback stay together.
LEMMA AllOrNoneKept == ASSUME PhaseInv, AllOrNone, [Next]_vars PROVE AllOrNone'
<1>1. CASE ~Unturned
  BY <1>1, RowsKept DEF AllOrNone, Steps
<1>2. CASE Unturned /\ ~Unturned'
  BY <1>2, TurningStep, RollbackRows DEF AllOrNone
<1>3. CASE Unturned'
  BY <1>3 DEF AllOrNone
<1> QED BY <1>1, <1>2, <1>3

\* No forward step is opened once a rollback has begun.
LEMMA ClosedAfterKept == ASSUME PhaseInv, ClosedAfter, [Next]_vars PROVE ClosedAfter'
<1> SUFFICES ASSUME ~Unturned' PROVE Open(ForwardSteps)' = {}
  BY DEF ClosedAfter
<1>1. CASE Unturned
  BY <1>1, TurningStep, RollbackRows
<1>2. CASE ~Unturned
  <2>1. ASSUME NEW s \in ForwardSteps PROVE step'[s] \notin {"PENDING", "RUNNING"}
    <3>1. step[s] \notin {"PENDING", "RUNNING"}
      BY <1>2 DEF ClosedAfter, Open
    <3> QED BY <3>1, RowsKept, StepsDisjoint DEF Created, Steps
  <2> QED BY <2>1 DEF Open
<1> QED BY <1>1, <1>2

\* Nobody opens the endpoint to a rollback that has not routed to Source.
LEMMA ShutKept == ASSUME OrderInv, NoGap, Shut, [Next]_vars PROVE Shut'
<1> SUFFICES ASSUME ~Unturned', traffic' = "SERVING"
             PROVE  step'["ROLLBACK_ACTIVATE_SOURCE_ROUTE"] = "SUCCEEDED"
  BY DEF Shut
<1>0. PhaseInv /\ PhaseCur /\ "ROLLBACK_ACTIVATE_SOURCE_ROUTE" \in Steps
  BY StepSets DEF OrderInv, PhaseInv, Steps
<1>1. ~Unturned
  BY <1>0, TurningStep, RollbackRows
<1>2. CASE traffic = "SERVING"
  BY <1>0, <1>1, <1>2, SuccessStays DEF Shut
<1>3. CASE traffic # "SERVING"
  <2>1. CASE EnterTraffic /\ cur \in {"RESTORE_TRAFFIC", "ROLLBACK_RESTORE_TRAFFIC"}
    <3>1. AtStep
      BY <2>1 DEF EnterTraffic, AtStep, StepPhases
    <3>2. cur # "RESTORE_TRAFFIC"
      <4>1. cur = "RESTORE_TRAFFIC" => status \in Ahead
        BY <3>1, GoingForward, StepSets
      <4> QED BY <1>1, <4>1, GoingForward
    <3>3. step["ROLLBACK_ACTIVATE_SOURCE_ROUTE"] = "SUCCEEDED"
      BY <2>1, <3>1, <3>2, BehindRollback DEF At
    <3> QED BY <1>0, <3>3, SuccessStays
  <2>2. CASE Reopen
    <3>1. AtStep /\ cur \in ForwardSteps
      BY <1>0, <2>2 DEF Reopen, Destructive, PhaseCur, AtStep, StepPhases, Steps
    <3>2. status \in Ahead
      BY <3>1, GoingForward
    <3> QED BY <1>1, <3>2, GoingForward
  <2>3. CASE RestoreForCancel
    <3>1. status \in Ahead
      BY <2>3, GoingForward DEF RestoreForCancel
    <3> QED BY <1>1, <3>1, GoingForward
  <2> QED BY <1>3, <2>1, <2>2, <2>3, WhoServes
<1> QED BY <1>2, <1>3

\* Nobody but a cancellation skips a step the rollback has not.
LEMMA UnskippedKept == ASSUME PhaseInv, Unskipped, [Next]_vars PROVE Unskipped'
<1> SUFFICES ASSUME Unturned', status' # "CANCELLED", NEW s \in ForwardSteps
             PROVE  step'[s] \notin {"ABSENT", "SKIPPED"}
  BY DEF Unskipped
<1>1. Unturned /\ ~EnsureRollback
  BY UnturnedBack, RollbackRows
<1>2. status # "CANCELLED"
  BY WhoMovesStatus DEF Claim, Succeed, Fail
<1>3. step[s] \notin {"ABSENT", "SKIPPED"}
  BY <1>1, <1>2 DEF Unskipped
<1> QED BY <1>1, <1>3, RowsKept DEF Steps

\* The loop starts a step when those before it have succeeded, and they stay so.
LEMMA OrderedKept == ASSUME OrderInv, Ordered, [Next]_vars PROVE Ordered'
<1> SUFFICES ASSUME Clean', NEW i \in DOMAIN Forward,
                    step'[Forward[i]] \in {"RUNNING", "FAILED", "SUCCEEDED"},
                    NEW k \in 1 .. i - 1
             PROVE  step'[Forward[k]] = "SUCCEEDED"
  BY DEF Ordered
<1>0. /\ PhaseInv /\ PhaseCur /\ Clean /\ OrderInv'
      /\ k \in DOMAIN Forward /\ Forward[i] \in ForwardSteps
      /\ Forward[i] \in Steps /\ Forward[k] \in Steps
  BY MemoryGrows, OrderKept, Positions DEF OrderInv, PhaseInv, Steps, ForwardSteps
<1>1. CASE step[Forward[i]] \in {"RUNNING", "FAILED", "SUCCEEDED"}
  <2>1. step[Forward[k]] = "SUCCEEDED"
    BY <1>0, <1>1 DEF Ordered
  <2> QED BY <1>0, <2>1, SuccessStays
<1>2. CASE step[Forward[i]] \notin {"RUNNING", "FAILED", "SUCCEEDED"}
  <2>1. ~Settled(Forward[i])
    BY <1>0, <1>2 DEF Settled, PhaseCur
  <2>2. Starts(Forward[i])
    BY <1>0, <1>2, <2>1, WhoWritesSteps, StepsDisjoint DEF Skipped, Created
  <2>3. AtStep' /\ cur' = Forward[i]
    BY <2>2 DEF Starts, AtStep, StepPhases
  <2> QED BY <1>0, <2>3 DEF OrderInv, InOrder
<1> QED BY <1>1, <1>2

-----------------------------------------------------------------------------
(************************ the boundary, and Source *************************)

\* Which actions turn the operation back; and an operation about to end tries no step again.
LEMMA WhoTurns ==
  ASSUME [Next]_vars
  PROVE  /\ pc' = "rollback" /\ pc # "rollback"
              => \/ boundary /\ boundary' = boundary
                 \/ pc = "failed" /\ cur = "STOP_SOURCE" /\ cont["source"] # "running"
         /\ pc = "aborted" => pc' # "failed"
<1> USE DEF OthersUnchanged, Forget, workerVars, operationVars
<1>1. CASE OperatorSetsRoute
  BY <1>1 DEF OperatorSetsRoute
<1>2. CASE RetryableError \/ PermanentError
  BY <1>2 DEF RetryableError, PermanentError
<1>3. CASE BeginForward \/ BeginRollback
  BY <1>3 DEF BeginForward, BeginRollback, Begin
<1>4. CASE Claim \/ RecoverStale \/ Resume \/ ObserveCancel \/ FinalizeDesired
  BY <1>4 DEF Claim, RecoverStale, Resume, ResumeAt, ObserveCancel, FinalizeDesired
<1>5. CASE Succeed \/ EnterTraffic \/ RecordVersion \/ ActivateRoute \/ StartWait
  BY <1>5 DEF Succeed, EnterTraffic, RecordVersion, ActivateRoute, StartWait
<1>6. CASE WaitSatisfied \/ WaitTimesOut \/ FailTimedOut \/ DecideBoundary \/ CallSucceeds
  BY <1>6 DEF WaitSatisfied, WaitTimesOut, FailTimedOut, DecideBoundary, CallSucceeds
<1>7. CASE UnexpectedError \/ MarkRuntime \/ CheckPasses \/ CheckFails \/ Commit
  BY <1>7 DEF UnexpectedError, MarkRuntime, CheckPasses, CheckFails, Commit
<1>8. CASE StopSourceFailed
  BY <1>8 DEF StopSourceFailed
<1>9. CASE StepFailed \/ BlockForOperator \/ Reopen \/ Fail \/ Escalate
  BY <1>9 DEF StepFailed, BlockForOperator, Reopen, Fail, Escalate
<1>10. CASE RestoreForCancel \/ RestoreTimesOut \/ CancelOperation \/ MarkRollingBack
            \/ EnsureRollback
  BY <1>10 DEF RestoreForCancel, RestoreTimesOut, CancelOperation, MarkRollingBack,
    EnsureRollback
<1>11. CASE FinishRollback \/ RequestCancel \/ LateEffect \/ StartReload \/ FinishReload
  BY <1>11 DEF FinishRollback, RequestCancel, LateEffect, StartReload, FinishReload
<1>12. CASE Admit \/ Release \/ Crash
  BY <1>12 DEF Admit, Release, Crash
<1>13. CASE UNCHANGED vars
  BY <1>13 DEF vars
<1> QED BY <1>1, <1>2, <1>3, <1>4, <1>5, <1>6, <1>7, <1>8, <1>9, <1>10, <1>11, <1>12, <1>13
  DEF Next, WorkerStep

\* Before the boundary nobody stops Source, nor leaves a stop of it behind.
LEMMA UntouchedKept == ASSUME OrderInv, Past, Untouched, [Next]_vars PROVE Untouched'
<1> SUFFICES ASSUME ~boundary',
                    step'["STOP_SOURCE"] # "FAILED" \/ (pc' = "failed" /\ cur' = "STOP_SOURCE")
             PROVE  /\ cont'["source"] = "running"
                    /\ \A c \in late' : ~(c.dep = "source" /\ c.to = "stopped")
  BY DEF Untouched
<1>0. PhaseInv /\ PhaseCur /\ "STOP_SOURCE" \in Steps /\ "source" \in Deployments
  BY StepSets DEF OrderInv, PhaseInv, Steps, Deployments
<1>1. ~boundary
  <2> SUFFICES ASSUME boundary PROVE FALSE
    OBVIOUS
  <2>1. pc = "failed" /\ pc' = "aborted" /\ cur = "STOP_SOURCE" /\ UNCHANGED step
    BY <1>0, WhoTakesBack
  <2>2. step["STOP_SOURCE"] = "FAILED"
    BY <1>0, <2>1 DEF PhaseCur, AtStep, StepPhases, FailedAt
  <2> QED BY <2>1, <2>2
<1>2. step["STOP_SOURCE"] # "FAILED" \/ (pc = "failed" /\ cur = "STOP_SOURCE")
  <2>1. CASE step'["STOP_SOURCE"] # "FAILED"
    BY <1>0, <2>1, FailureStays
  <2>2. CASE pc' = "failed" /\ cur' = "STOP_SOURCE"
    <3>1. AtStep' /\ pc' \notin {"body", "call"}
      BY <2>2 DEF AtStep, StepPhases
    <3>2. AtStep /\ cur = "STOP_SOURCE"
      BY <2>2, <3>1, WhoEnters DEF BeginForward, BeginRollback, Begin
    <3>3. pc # "aborted"
      BY <2>2, WhoTurns
    <3> QED BY <1>0, <3>2, <3>3 DEF PhaseCur, FailedAt
  <2> QED BY <2>1, <2>2
<1>3. /\ cont["source"] = "running"
      /\ \A c \in late : ~(c.dep = "source" /\ c.to = "stopped")
  BY <1>1, <1>2 DEF Untouched
<1>4. ~(pc = "call" /\ cur = "STOP_SOURCE")
  BY <1>1 DEF Past
<1>5. cont'["source"] = "running"
  BY <1>0, <1>3, <1>4, WhoStops
<1>6. ASSUME NEW c \in late' PROVE ~(c.dep = "source" /\ c.to = "stopped")
  BY <1>0, <1>3, <1>4, WhoDelays, TableDomains, CommandTable
<1> QED BY <1>5, <1>6

\* The boundary is behind an operation that turns back, and is not taken back from it.
LEMMA TurnedPastKept ==
  ASSUME OrderInv, Untouched, TurnedPast, [Next]_vars PROVE TurnedPast'
<1> SUFFICES ASSUME ~Unturned' \/ pc' = "rollback" \/ status' = "ROLLING_BACK" PROVE boundary'
  BY DEF TurnedPast
<1>0. PhaseInv /\ PhaseCur /\ PhaseStatus
  BY DEF OrderInv, PhaseInv
<1>1. CASE boundary
  <2> SUFFICES ASSUME ~boundary' PROVE FALSE
    OBVIOUS
  <2>1. pc = "failed" /\ pc' = "aborted" /\ cur = "STOP_SOURCE" /\ UNCHANGED step
    BY <1>0, <1>1, WhoTakesBack
  <2>2. AtStep /\ cur \in ForwardSteps
    BY <2>1, StepSets DEF AtStep, StepPhases
  <2>3. status \in Ahead /\ Unturned
    BY <2>2, GoingForward
  <2>4. Unturned'
    BY <2>1, <2>3 DEF Unturned
  <2>5. status' # "ROLLING_BACK"
    BY <1>0, <2>1, <2>3, WhoMovesStatus DEF Ahead, Claim, RequestCancel, Succeed, Fail,
      CancelOperation, MarkRollingBack, Escalate
  <2> QED BY <2>1, <2>4, <2>5
<1>2. CASE ~boundary
  <2>1. Unturned /\ pc # "rollback" /\ status # "ROLLING_BACK"
    BY <1>2 DEF TurnedPast
  <2>2. pc # "block"
    BY <1>0, <2>1 DEF PhaseStatus
  <2>3. Unturned'
    BY <1>0, <2>1, <2>2, TurningStep
  <2>4. status' # "ROLLING_BACK"
    BY <1>0, <2>1, WhoMovesStatus DEF Claim, RequestCancel, Succeed, Fail, CancelOperation,
      MarkRollingBack, FinishRollback, Escalate
  <2>5. pc = "failed" /\ cur = "STOP_SOURCE" /\ cont["source"] # "running"
    BY <1>2, <2>1, <2>3, <2>4, WhoTurns
  <2> QED BY <1>2, <2>5 DEF Untouched
<1> QED BY <1>1, <1>2

-----------------------------------------------------------------------------
(************************ what the rows are worth **************************)

\* The deployment each health check and probe looks at.
LEMMA HealthTable ==
  /\ HealthOf["WAIT_TARGET_HEALTH"] = "target"
  /\ HealthOf["PROBE_TARGET"] = "target"
  /\ HealthOf["ROLLBACK_WAIT_SOURCE_HEALTH"] = "source"
  /\ HealthOf["ROLLBACK_PROBE_SOURCE"] = "source"
BY StepSets DEF HealthOf

\* A health row is written by the checks and probes of its deployment, and as a start of it
\* is recorded.
LEMMA WhoJudges ==
  ASSUME PhaseInv, [Next]_vars, NEW d \in Deployments, hl'[d] # hl[d]
  PROVE  \/ pc = "body" /\ cur \in DOMAIN HealthOf /\ d = HealthOf[cur]
         \/ pc = "mark" /\ cur = "START_TARGET" /\ d = "target"
         \/ pc = "mark" /\ cur = "ROLLBACK_START_SOURCE" /\ d = "source"
<1> USE DEF deployVars, OthersUnchanged
<1>0. /\ hl \in [Deployments -> {"UNKNOWN", "STARTING", "HEALTHY", "UNHEALTHY"}]
      /\ pc = "call" => cur \in DOMAIN CommandOf
      /\ pc = "mark" => cur \in DOMAIN CommandOf
  BY DEF PhaseInv, TypeInv, TypeOK, DeployType, PhaseOK, PhaseCur
<1>1. CASE OperatorSetsRoute
  BY <1>1 DEF OperatorSetsRoute
<1>2. CASE RetryableError
  <2>1. cur \in Probes
    BY <1>2 DEF RetryableError
  <2>2. cur \in DOMAIN HealthOf
    BY <2>1, TableDomains DEF Probes
  <2>3. pc = "body"
    BY <1>0, <1>2, <2>1, TableDomains DEF RetryableError, Probes
  <2>4. d = HealthOf[cur]
    BY <1>0, <1>2, <2>1 DEF RetryableError
  <2> QED BY <2>2, <2>3, <2>4
<1>3. CASE PermanentError
  <2>1. cur \in DOMAIN HealthOf
    BY <1>3 DEF PermanentError
  <2>2. pc = "body"
    BY <1>0, <1>3, <2>1, TableDomains DEF PermanentError
  <2>3. d = HealthOf[cur]
    BY <1>0, <1>3, <2>1 DEF PermanentError
  <2> QED BY <2>1, <2>2, <2>3
<1>4. CASE MarkRuntime
  BY <1>0, <1>4, TableDomains, CommandTable DEF MarkRuntime
<1>5. CASE CheckPasses
  BY <1>0, <1>5 DEF CheckPasses
<1>6. CASE CheckFails
  BY <1>0, <1>6 DEF CheckFails
<1>7. CASE BeginForward \/ BeginRollback
  BY <1>7 DEF BeginForward, BeginRollback
<1>8. CASE Claim \/ RecoverStale \/ Resume \/ ObserveCancel \/ FinalizeDesired
  BY <1>8 DEF Claim, RecoverStale, Resume, ObserveCancel, FinalizeDesired
<1>9. CASE Succeed \/ EnterTraffic \/ RecordVersion \/ ActivateRoute \/ StartWait
  BY <1>9 DEF Succeed, EnterTraffic, RecordVersion, ActivateRoute, StartWait
<1>10. CASE WaitSatisfied \/ WaitTimesOut \/ FailTimedOut \/ DecideBoundary \/ CallSucceeds
  BY <1>10 DEF WaitSatisfied, WaitTimesOut, FailTimedOut, DecideBoundary, CallSucceeds
<1>11. CASE UnexpectedError \/ Commit \/ StopSourceFailed \/ StepFailed \/ BlockForOperator
  BY <1>11 DEF UnexpectedError, Commit, StopSourceFailed, StepFailed, BlockForOperator
<1>12. CASE Reopen \/ Fail \/ Escalate \/ RestoreForCancel \/ RestoreTimesOut
  BY <1>12 DEF Reopen, Fail, Escalate, RestoreForCancel, RestoreTimesOut
<1>13. CASE CancelOperation \/ MarkRollingBack \/ EnsureRollback \/ FinishRollback \/ Crash
  BY <1>13 DEF CancelOperation, MarkRollingBack, EnsureRollback, FinishRollback, Crash
<1>14. CASE RequestCancel \/ LateEffect \/ StartReload \/ FinishReload \/ Admit \/ Release
  BY <1>14 DEF RequestCancel, LateEffect, StartReload, FinishReload, Admit, Release
<1>15. CASE UNCHANGED vars
  BY <1>15 DEF vars
<1> QED BY <1>1, <1>2, <1>3, <1>4, <1>5, <1>6, <1>7, <1>8, <1>9, <1>10, <1>11, <1>12, <1>13,
      <1>14, <1>15 DEF Next, WorkerStep

\* Target's row says RUNNING from START_TARGET to the rollback's stop.
LEMMA RowUpKept == ASSUME OrderInv, RowUp, [Next]_vars PROVE RowUp'
<1> SUFFICES ASSUME Clean', Unturned', Done("START_TARGET")' PROVE rt'["target"] = "RUNNING"
  BY DEF RowUp
<1>0. PhaseInv /\ Clean /\ Unturned /\ "target" \in Deployments
      /\ "START_TARGET" \in DOMAIN CommandOf
  BY MemoryGrows, UnturnedBack, TableDomains DEF OrderInv, Deployments
<1>1. CASE Done("START_TARGET")
  <2>1. rt["target"] = "RUNNING"
    BY <1>0, <1>1 DEF RowUp
  <2>2. ~(pc = "mark" /\ cur = "ROLLBACK_STOP_TARGET")
    BY <1>0, GoingForward, StepSets DEF AtStep, StepPhases
  <2> QED BY <1>0, <2>1, <2>2, WhoMarks
<1>2. CASE ~Done("START_TARGET")
  <2>1. cur = "START_TARGET" /\ MarkRuntime
    BY <1>0, <1>2, NewlyCommanded
  <2> QED BY <1>0, <2>1, CommandTable DEF MarkRuntime, PhaseInv, TypeInv, TypeOK, DeployType
<1> QED BY <1>1, <1>2

\* Source's row says RUNNING once the rollback has started it.
LEMMA SourceRowKept == ASSUME OrderInv, SourceRow, [Next]_vars PROVE SourceRow'
<1> SUFFICES ASSUME Done("ROLLBACK_START_SOURCE")' PROVE rt'["source"] = "RUNNING"
  BY DEF SourceRow
<1>0. PhaseInv /\ "source" \in Deployments
      /\ "ROLLBACK_START_SOURCE" \in DOMAIN CommandOf
      /\ "ROLLBACK_START_SOURCE" \in RollbackSteps
  BY TableDomains, StepSets DEF OrderInv, Deployments
<1>1. CASE Done("ROLLBACK_START_SOURCE")
  <2>1. rt["source"] = "RUNNING"
    BY <1>1 DEF SourceRow
  <2>2. ~(pc \in {"mark", "failed"} /\ cur = "STOP_SOURCE")
    <3>1. AtStep /\ cur = "STOP_SOURCE" => status \in Ahead
      BY GoingForward, StepSets
    <3> QED BY <1>0, <1>1, <3>1, GoingForward DEF AtStep, StepPhases
  <2> QED BY <1>0, <2>1, <2>2, WhoMarks
<1>2. CASE ~Done("ROLLBACK_START_SOURCE")
  <2>1. cur = "ROLLBACK_START_SOURCE" /\ MarkRuntime
    BY <1>0, <1>2, NewlyCommanded
  <2> QED BY <1>0, <2>1, CommandTable DEF MarkRuntime, PhaseInv, TypeInv, TypeOK, DeployType
<1> QED BY <1>1, <1>2

\* A probe is done on finding its deployment healthy.
LEMMA NewlyProbed ==
  ASSUME PhaseInv, [Next]_vars, NEW s \in Probes, Done(s)', ~Done(s)
  PROVE  hl'[HealthOf[s]] = "HEALTHY"
<1>1. cur = s /\ (WaitSatisfied \/ MarkRuntime \/ CheckPasses \/ RecordVersion)
  BY NewlyDone, StepSets DEF Steps, Probes
<1>2. ~WaitSatisfied /\ ~MarkRuntime /\ ~RecordVersion
  BY <1>1, TableDomains DEF WaitSatisfied, MarkRuntime, RecordVersion, PhaseInv, PhaseCur, Waits,
    Recorded, Probes
<1>3. CheckPasses /\ cur \in DOMAIN HealthOf
  BY <1>1, <1>2, TableDomains DEF Probes
<1>4. hl \in [Deployments -> {"UNKNOWN", "STARTING", "HEALTHY", "UNHEALTHY"}]
      /\ HealthOf[s] \in Deployments
  BY HealthTable DEF PhaseInv, TypeInv, TypeOK, DeployType, Probes, Deployments
<1> QED BY <1>1, <1>3, <1>4 DEF CheckPasses

\* Nobody looks at a deployment's health again once its probe has passed.
LEMMA JudgedKept == ASSUME OrderInv, NoGap, Judged, [Next]_vars PROVE Judged'
<1>0. PhaseInv /\ PhaseCur /\ "target" \in Deployments /\ "source" \in Deployments
  BY DEF OrderInv, PhaseInv, Deployments
<1>1. ASSUME Clean', Done("PROBE_TARGET")' PROVE hl'["target"] = "HEALTHY"
  <2>0. Clean
    BY <1>1, MemoryGrows
  <2>1. CASE Done("PROBE_TARGET")
    <3>1. /\ Forward[9] = "PROBE_TARGET" /\ 9 \in DOMAIN Forward
          /\ At("PROBE_TARGET")
      BY <2>1, StepNames, Positions DEF At, Done, AtStep, StepPhases
    <3>2. step["WAIT_TARGET_HEALTH"] = "SUCCEEDED" /\ step["START_TARGET"] = "SUCCEEDED"
      <4>1. \A k \in 1 .. 8 : step[Forward[k]] = "SUCCEEDED"
        BY <2>0, <3>1 DEF At, NoGap, OrderInv, InOrder
      <4> QED BY <4>1, StepNames
    <3>3. AtStep /\ cur \in {"WAIT_TARGET_HEALTH", "START_TARGET"} => step[cur] # "SUCCEEDED"
      BY <1>0 DEF PhaseCur
    <3>4. ~(AtStep /\ cur \in {"WAIT_TARGET_HEALTH", "START_TARGET"})
      BY <3>2, <3>3
    <3>5. pc = "body" => cur # "PROBE_TARGET"
      BY <1>0, <2>1 DEF PhaseCur, Done, AtStep, StepPhases, FailedAt
    <3>6. hl["target"] = "HEALTHY"
      BY <2>0, <2>1 DEF Judged
    <3> QED BY <1>0, <3>4, <3>5, <3>6, WhoJudges, TableDomains, HealthTable DEF AtStep, StepPhases
  <2>2. CASE ~Done("PROBE_TARGET")
    BY <1>0, <1>1, <2>2, NewlyProbed, HealthTable DEF Probes
  <2> QED BY <2>1, <2>2
<1>2. ASSUME Done("ROLLBACK_PROBE_SOURCE")' PROVE hl'["source"] = "HEALTHY"
  <2>1. CASE Done("ROLLBACK_PROBE_SOURCE")
    <3>1. /\ Rollback[6] = "ROLLBACK_PROBE_SOURCE" /\ 6 \in DOMAIN Rollback
          /\ At("ROLLBACK_PROBE_SOURCE")
      BY <2>1, Positions DEF At, Done, AtStep, StepPhases, Rollback
    <3>2. /\ step["ROLLBACK_WAIT_SOURCE_HEALTH"] = "SUCCEEDED"
          /\ step["ROLLBACK_START_SOURCE"] = "SUCCEEDED"
      <4>1. \A k \in 1 .. 5 : step[Rollback[k]] = "SUCCEEDED"
        BY <3>1 DEF At, NoGap, OrderInv, InOrder
      <4> QED BY <4>1 DEF Rollback
    <3>3. AtStep => step[cur] # "SUCCEEDED"
      BY <1>0 DEF PhaseCur
    <3>4. ~(AtStep /\ cur \in {"ROLLBACK_WAIT_SOURCE_HEALTH", "ROLLBACK_START_SOURCE"})
      BY <3>2, <3>3
    <3>5. pc = "body" => cur # "ROLLBACK_PROBE_SOURCE"
      BY <1>0, <2>1 DEF PhaseCur, Done, AtStep, StepPhases, FailedAt
    <3>6. hl["source"] = "HEALTHY"
      BY <2>1 DEF Judged
    <3> QED BY <1>0, <3>4, <3>5, <3>6, WhoJudges, TableDomains, HealthTable DEF AtStep, StepPhases
  <2>2. CASE ~Done("ROLLBACK_PROBE_SOURCE")
    BY <1>0, <1>2, <2>2, NewlyProbed, HealthTable DEF Probes
  <2> QED BY <2>1, <2>2
<1> QED BY <1>1, <1>2 DEF Judged

\* Target is started by START_TARGET only.
LEMMA StartedAfterKept ==
  ASSUME OrderInv, NoGap, StartedAfter, [Next]_vars,
         started' = (started \/ cont'["target"] = "running")
  PROVE  StartedAfter'
<1> DEFINE Starting == \E c \in late : c.dep = "target" /\ c.to = "running"
<1> SUFFICES ASSUME Clean', started' \/ cont'["target"] = "running" \/ Starting'
             PROVE  step'["STOP_SOURCE"] = "SUCCEEDED"
  BY DEF StartedAfter
<1>0. PhaseInv /\ Clean /\ "target" \in Deployments /\ "STOP_SOURCE" \in Steps
  BY MemoryGrows, StepSets DEF OrderInv, Deployments, Steps
<1>1. CASE started \/ cont["target"] = "running" \/ Starting
  <2>1. step["STOP_SOURCE"] = "SUCCEEDED"
    BY <1>0, <1>1 DEF StartedAfter
  <2> QED BY <1>0, <2>1, SuccessStays
<1>2. CASE pc = "call" /\ cur = "START_TARGET"
  <2>1. step["STOP_SOURCE"] = "SUCCEEDED"
    BY <1>0, <1>2, BehindForward DEF At, AtStep, StepPhases
  <2> QED BY <1>0, <2>1, SuccessStays
<1>3. CASE cont'["target"] = "running" /\ cont["target"] # "running"
  BY <1>0, <1>1, <1>2, <1>3, WhoStarts
<1>4. CASE Starting'
  <2>1. PICK c \in late' : c.dep = "target" /\ c.to = "running"
    BY <1>4
  <2>2. CASE c \in late
    BY <1>1, <2>1, <2>2
  <2>3. CASE c \notin late
    <3>1. pc = "call" /\ cur \in DOMAIN CommandOf /\ c = CommandOf[cur]
      BY <1>0, <2>3, WhoDelays
    <3>2. cur = "START_TARGET"
      BY <2>1, <3>1, TableDomains, CommandTable
    <3> QED BY <1>2, <3>1, <3>2
  <2> QED BY <2>2, <2>3
<1> QED BY <1>1, <1>3, <1>4

-----------------------------------------------------------------------------
(********************** what the switch's steps keep ***********************)

\* A success stays one: the rows, the containers and the wishes were set before it.
LEMMA SuccessKept ==
  ASSUME ServingInv, ToSucceed, Served, SucceededMeansServed, [Next]_vars
  PROVE  SucceededMeansServed'
<1> SUFFICES ASSUME Clean', edits' = 0, status' = "SUCCEEDED"
             PROVE  /\ boundary'
                    /\ ServesAlone("target", "source")'
                    /\ cont'["target"] = "running" /\ cont'["source"] # "running"
                    /\ desired' = RunningOnly("target")
  BY DEF SucceededMeansServed
<1>0. /\ OrderInv /\ PhaseInv /\ Clean /\ edits = 0
      /\ "source" \in Deployments /\ "target" \in Deployments
  BY MemoryGrows, EditsGrow DEF ServingInv, OrderInv, Deployments
<1>1. CASE status = "SUCCEEDED"
  <2>1. pc = "idle" /\ Unturned
    BY <1>0, <1>1, IdleOutside, GoingForward DEF Ahead
  <2>2. /\ boundary /\ ServesAlone("target", "source")
        /\ cont["target"] = "running" /\ cont["source"] # "running"
        /\ desired = RunningOnly("target")
    BY <1>0, <1>1 DEF SucceededMeansServed
  <2>3. pc' # "escalate"
    <3>1. PhaseInv'
      BY ServingKept DEF ServingInv, OrderInv
    <3> QED BY <3>1 DEF PhaseInv, PhaseStatus
  <2>4. ServesAlone("target", "source")'
    BY <1>0, <2>1, <2>2, <2>3, AtRestServes
  <2>5. cont'["target"] = "running" /\ cont'["source"] # "running"
    BY <1>0, <2>1, <2>2, WhoStarts, WhoStops DEF ServingInv, NodeInv, LateForward
  <2>6. boundary' /\ desired' = desired
    BY <1>0, <2>1, <2>2, WhoTakesBack, WhoWants DEF FinalizeDesired
  <2> QED BY <2>2, <2>4, <2>5, <2>6
<1>2. CASE status # "SUCCEEDED"
  <2>1. Succeed /\ status = "RUNNING"
    BY <1>0, <1>2, WhoMovesStatus DEF Fail, CancelOperation, MarkRollingBack, FinishRollback,
      Escalate
  <2>2. pc = "succeed" /\ UNCHANGED <<boundary, traffic, route, rt, hl, desired, cont>>
    BY <2>1 DEF Succeed, routingVars, deployVars, nodeVars
  <2>3. /\ desired = RunningOnly("target")
        /\ \A s \in ForwardSteps : step[s] = "SUCCEEDED"
    BY <1>0, <2>2 DEF ToSucceed, Finalized
  <2>4. Done("STOP_SOURCE") /\ Done("START_TARGET") /\ Done("FINALIZE")
    BY <2>3, StepSets DEF Done
  <2>5. Going /\ Unturned
    BY <2>1, GoingForward, <1>0 DEF Going
  <2>6. boundary /\ cont["source"] # "running" /\ cont["target"] = "running"
    BY <1>0, <2>4, <2>5 DEF ServingInv, NodeInv, Past, Stopped, TargetUp
  <2>7. ServesAlone("target", "source")
    BY <1>0, <2>2, <2>4, <2>5 DEF Served
  <2> QED BY <2>2, <2>3, <2>6, <2>7 DEF ServesAlone
<1> QED BY <1>1, <1>2

\* What the endings rest on, a sweeper's as well as the worker's.
EndingInv == /\ ToSucceed /\ Served /\ Restored /\ RolledBackMeansRestored
             /\ SucceededMeansServed /\ Unharmed /\ OwnRoute
\* A sweeper that remembers the boundary not crossed has an operation before it that is over
\* and will not cross it.
ClaimedBefore ==
  \A w \in Sweepers : sweeper[w].at = "claimed" /\ ~sweeper[w].boundary
                        => ~boundary /\ status \in Terminal
Sound == ServingInv /\ EndingInv /\ RowsInv /\ PastInv /\ EvidenceInv /\ ClaimedBefore

\* Nothing has happened to a fresh operation.
LEMMA SoundAtStart == InitR => Sound
<1> SUFFICES ASSUME InitR PROVE Sound
  OBVIOUS
<1>1. EndInv /\ Init
  BY EndAtStart DEF InitR
<1>2. EndingInv
  BY <1>1 DEF EndInv, EndingInv, SucceededMeansServed, Init
<1>3. RowsInv
  <2>1. \A i \in DOMAIN Forward : Forward[i] \in Steps /\ Forward[i] \in ForwardSteps
    BY DEF ForwardSteps, Steps
  <2>2. Unturned /\ \A s \in ForwardSteps : step[s] = "PENDING"
    BY <1>1, StepsDisjoint DEF Init, Unturned, Steps
  <2> QED BY <2>1, <2>2 DEF RowsInv, AllOrNone, ClosedAfter, Shut, Unskipped, Ordered
<1>4. PastInv
  BY <1>1, StepsDisjoint DEF Init, PastInv, Untouched, TurnedPast, Unturned, Steps, Deployments
<1>5. EvidenceInv
  <2>1. \A s \in Steps : ~Done(s)
    BY <1>1 DEF Init, Done
  <2> QED BY <1>1, <2>1, StepSets DEF EvidenceInv, RowUp, SourceRow, Judged, StartedAfter, Init,
        InitR, Deployments, Steps
<1>6. ClaimedBefore
  BY DEF InitR, ClaimedBefore, Resting
<1> QED BY <1>1, <1>2, <1>3, <1>4, <1>5, <1>6 DEF Sound, EndInv

\* Over is over, for the switch's own steps.
LEMMA ClaimedBeforeKept ==
  ASSUME PhaseInv, ClaimedBefore, [Next]_vars, sweeper' = sweeper PROVE ClaimedBefore'
<1>1. ASSUME status \in Terminal, ~boundary PROVE status' \in Terminal /\ ~boundary'
  <2>1. pc = "idle"
    BY <1>1, IdleOutside DEF Terminal
  <2> QED BY <1>1, <2>1, WhoMovesStatus, WhoDecides DEF Terminal
<1> QED BY <1>1 DEF ClaimedBefore

\* So every step of the switch keeps the invariant.
LEMMA SwitchKeeps ==
  ASSUME Sound, [Next]_vars, sweeper' = sweeper,
         started' = (started \/ cont'["target"] = "running")
  PROVE  Sound'
<1>0. ServingInv /\ OrderInv /\ PhaseInv /\ NoGap /\ Past
  BY DEF Sound, ServingInv, OrderInv, NodeInv
<1>1. ServingInv'
  BY <1>0, ServingKept
<1>2. EndingInv'
  <2>1. OwnRoute'
    <3>1. edits' = 0 => edits = 0 /\ ~OperatorSetsRoute
      BY <1>0, EditsGrow, NoEdit
    <3> QED BY <3>1, WhoRoutes DEF Sound, EndingInv, OwnRoute, Deployments
  <2> QED BY <1>0, <2>1, ToSucceedKept, ServedKept, RestoredKept, RolledBackKept, SuccessKept,
        UnharmedKept DEF Sound, EndingInv
<1>3. RowsInv'
  BY <1>0, AllOrNoneKept, ClosedAfterKept, ShutKept, UnskippedKept, OrderedKept
  DEF Sound, RowsInv
<1>4. PastInv'
  BY <1>0, UntouchedKept, TurnedPastKept DEF Sound, PastInv
<1>5. EvidenceInv'
  BY <1>0, RowUpKept, SourceRowKept, JudgedKept, StartedAfterKept DEF Sound, EvidenceInv
<1>6. ClaimedBefore'
  BY <1>0, ClaimedBeforeKept DEF Sound
<1> QED BY <1>1, <1>2, <1>3, <1>4, <1>5, <1>6 DEF Sound

-----------------------------------------------------------------------------
(************************** types, and one way *****************************)

\* Among the first numbers there is a least one.
LEMMA LeastOf ==
  ASSUME NEW S \in SUBSET (1 .. 10), S # {} PROVE \E i \in S : \A k \in S : i <= k
<1>0. \E k \in S : k \in 1 .. 10
  OBVIOUS
<1>1. CASE 1 \in S \/ 2 \in S \/ 3 \in S
  BY <1>1
<1>2. CASE 1 \notin S /\ 2 \notin S /\ 3 \notin S
  <2>1. CASE 4 \in S \/ 5 \in S \/ 6 \in S
    BY <1>2, <2>1
  <2>2. CASE 4 \notin S /\ 5 \notin S /\ 6 \notin S
    BY <1>0, <1>2, <2>2
  <2> QED BY <2>1, <2>2
<1> QED BY <1>1, <1>2

\* The first row in one of these states is in one of them, and there is one if any row is.
LEMMA FirstIs ==
  ASSUME NEW sequence, NEW n \in 0 .. 10, DOMAIN sequence = 1 .. n, NEW codes
  PROVE  \/ /\ First(sequence, codes) = NoStep
            /\ \A i \in DOMAIN sequence : step[sequence[i]] \notin codes
         \/ \E i \in DOMAIN sequence : /\ First(sequence, codes) = sequence[i]
                                       /\ step[sequence[i]] \in codes
<1> DEFINE at == {i \in DOMAIN sequence : step[sequence[i]] \in codes}
<1>1. CASE at = {}
  BY <1>1 DEF First
<1>2. CASE at # {}
  <2>1. at \in SUBSET (1 .. 10)
    OBVIOUS
  <2>2. \E i \in at : \A k \in at : i <= k
    BY <1>2, <2>1, LeastOf
  <2>3. (CHOOSE i \in at : \A k \in at : i <= k) \in at
    BY <2>2
  <2>4. First(sequence, codes) = sequence[CHOOSE i \in at : \A k \in at : i <= k]
    BY <1>2 DEF First
  <2> QED BY <2>3, <2>4
<1> QED BY <1>1, <1>2

\* The steps a worker resumes in the forward direction.
LEMMA ResumableIs ==
  /\ DOMAIN Resumable = 1 .. 4
  /\ \A i \in 1 .. 4 : Resumable[i] \in ForwardSteps
BY StepSets DEF Resumable, Forward

\* The first open row is a row of its direction, and open.
LEMMA OpenIs ==
  /\ \/ OpenForward = NoStep
     \/ OpenForward \in ForwardSteps /\ step[OpenForward] \in {"FAILED", "RUNNING", "PENDING"}
  /\ \/ OpenBack = NoStep
        /\ \A s \in RollbackSteps : step[s] \notin {"FAILED", "RUNNING", "PENDING"}
     \/ OpenBack \in RollbackSteps /\ step[OpenBack] \in {"FAILED", "RUNNING", "PENDING"}
<1>1. \/ OpenForward = NoStep
      \/ OpenForward \in ForwardSteps /\ step[OpenForward] \in {"FAILED", "RUNNING", "PENDING"}
  BY FirstIs, ResumableIs DEF OpenForward
<1>2. DOMAIN Rollback = 1 .. 10 /\ \A i \in DOMAIN Rollback : Rollback[i] \in RollbackSteps
  BY Positions DEF RollbackSteps
<1>3. NoStep \notin RollbackSteps
  BY StepsDisjoint DEF Steps
<1>4. ASSUME NEW codes
      PROVE  \/ /\ First(Rollback, codes) = NoStep
                /\ \A s \in RollbackSteps : step[s] \notin codes
             \/ First(Rollback, codes) \in RollbackSteps /\ step[First(Rollback, codes)] \in codes
  <2>1. \/ /\ First(Rollback, codes) = NoStep
           /\ \A i \in DOMAIN Rollback : step[Rollback[i]] \notin codes
        \/ \E i \in DOMAIN Rollback : /\ First(Rollback, codes) = Rollback[i]
                                      /\ step[Rollback[i]] \in codes
    BY <1>2, FirstIs
  <2> QED BY <1>2, <2>1 DEF RollbackSteps
<1>5. \/ OpenBack = NoStep
         /\ \A s \in RollbackSteps : step[s] \notin {"FAILED", "RUNNING", "PENDING"}
      \/ OpenBack \in RollbackSteps /\ step[OpenBack] \in {"FAILED", "RUNNING", "PENDING"}
  <2>1. CASE First(Rollback, {"FAILED", "RUNNING"}) # NoStep
    BY <1>4, <2>1 DEF OpenBack
  <2>2. CASE First(Rollback, {"FAILED", "RUNNING"}) = NoStep
    <3>1. \A s \in RollbackSteps : step[s] \notin {"FAILED", "RUNNING"}
      BY <1>3, <1>4, <2>2
    <3> QED BY <1>4, <2>2, <3>1 DEF OpenBack
  <2> QED BY <2>1, <2>2
<1> QED BY <1>1, <1>5

\* Whoever sweeps has counted the attempt.
Counted  == \A w \in Sweepers : sweeper[w].at # "rest" => sweeper[w].attempt # 0
SweepInv == TypeInv /\ SweepTypeOK /\ Counted

Fact == [at : {"rest", "claimed", "record"}, attempt : Nat, boundary : BOOLEAN,
         cancel : BOOLEAN, err : {"unsafe", "transient", "other"}, probed : BOOLEAN,
         forward : ForwardSteps \cup {NoStep}, back : RollbackSteps \cup {NoStep},
         undoing : BOOLEAN]

\* What a sweeper remembers is of its kind, and it starts with nothing.
LEMMA FactsType ==
  /\ Resting \in Fact /\ Resting.at = "rest"
  /\ SweepInv => /\ Facts \in Fact /\ Facts.attempt # 0 /\ Facts.at = "claimed"
                 /\ \A w \in Sweepers : [sweeper[w] EXCEPT !.at = "record"] \in Fact
<1>1. Resting \in Fact /\ Resting.at = "rest"
  BY DEF Resting, Fact
<1>2. ASSUME SweepInv PROVE Facts \in Fact /\ Facts.attempt # 0 /\ Facts.at = "claimed"
  <2>1. OpenForward \in ForwardSteps \cup {NoStep} /\ OpenBack \in RollbackSteps \cup {NoStep}
    BY OpenIs
  <2>2. /\ boundary \in BOOLEAN /\ cancel \in BOOLEAN /\ sweeps \in Nat
        /\ err \in {"unsafe", "transient", "other"}
    BY <1>2 DEF SweepInv, TypeInv, TypeOK, JobType, SweepTypeOK
  <2>3. sweeps + 1 \in Nat /\ sweeps + 1 # 0
    BY <2>2
  <2> QED BY <2>1, <2>2, <2>3 DEF Facts, Fact
<1>3. ASSUME SweepInv, NEW w \in Sweepers PROVE [sweeper[w] EXCEPT !.at = "record"] \in Fact
  <2>1. sweeper[w] \in Fact
    BY <1>3 DEF SweepInv, SweepTypeOK, Fact
  <2> QED BY <2>1 DEF Fact
<1> QED BY <1>1, <1>2, <1>3

\* What a sweep may do, to sweepers and to the switch: most look and let go ...
Calm ==
  /\ UNCHANGED <<operationVars, routingVars, deployVars, nodeVars, gatewayVars, workerVars,
                 edits, anomaly, err, started, stale>>
  /\ faults' = faults \/ faults' = faults + 1
\* ... and five decide.
Ruling(w, H) ==
  \/ SweepSucceeds(w, H) \/ SweepCancels(w, H) \/ SweepRollsBack(w, H)
  \/ ResumeRollback(w, H) \/ ResumeForward(w, H)

\* A sweeper's step is calm, and its sweeper claims or lets go, or it decides.
LEMMA SweepIs ==
  ASSUME NEW w \in Sweepers, SweepStep(w) \/ SweeperCrash(w)
  PROVE  \/ /\ Calm
            /\ \/ /\ SweepClaim(w) /\ status = "MANUAL_INTERVENTION_REQUIRED"
                  /\ sweeper' = [sweeper EXCEPT ![w] = Facts] /\ sweeps' = sweeps
               \/ /\ sweeper' = [sweeper EXCEPT ![w] = Resting]
                  /\ \/ sweeps' = sweeps \/ sweeps' = sweeper[w].attempt
                     \/ sweeper[w].at = "claimed" /\ sweeps' = sweeper[w].attempt - 1
         \/ \E H \in SUBSET {d \in Deployments : Runs(d)} : Ruling(w, H)
<1> USE DEF SwitchUnchanged, SwitchButFaultsUnchanged, Calm, vars, boundVars
<1>1. CASE SweepClaim(w)
  BY <1>1 DEF SweepClaim, Oversleep
<1>2. CASE LocksBusy(w)
  BY <1>2 DEF LocksBusy
<1>3. CASE SkipSweep(w)
  BY <1>3 DEF SkipSweep
<1>4. CASE RecordOutcome(w)
  BY <1>4 DEF RecordOutcome, Closes
<1>5. CASE SweeperCrash(w)
  BY <1>5 DEF SweeperCrash, Fault
<1>6. ASSUME NEW H, Unresolved(w, H) PROVE Calm /\ Closes(w)
  BY <1>6 DEF Unresolved, Fault
<1>7. CASE \E H \in SUBSET {d \in Deployments : Runs(d)} : Unresolved(w, H)
  BY <1>6, <1>7 DEF Closes
<1> QED BY <1>1, <1>2, <1>3, <1>4, <1>5, <1>7 DEF SweepStep, Ruling

\* What the five have in common: an operation that is with the operator is nobody's.
LEMMA RulingIs ==
  ASSUME NEW w \in Sweepers, NEW H, Ruling(w, H)
  PROVE  /\ sweeper[w].at = "claimed" /\ pc = "idle" /\ Conclusive(sweeper[w])
         /\ status = "MANUAL_INTERVENTION_REQUIRED"
         /\ sweeper' = [sweeper EXCEPT ![w].at = "record"]
         /\ UNCHANGED <<attempts, cancel, boundary, reqVer, routingVars, rt, hl, nodeVars,
                        gatewayVars, workerVars, boundVars, anomaly, err, started, sweeps>>
         /\ stale => stale'
<1> USE DEF Decided, Decides, Locked
<1>1. CASE SweepSucceeds(w, H)
  BY <1>1 DEF SweepSucceeds
<1>2. CASE SweepCancels(w, H)
  BY <1>2 DEF SweepCancels
<1>3. CASE SweepRollsBack(w, H)
  BY <1>3 DEF SweepRollsBack
<1>4. CASE ResumeRollback(w, H)
  BY <1>4 DEF ResumeRollback
<1>5. CASE ResumeForward(w, H)
  BY <1>5 DEF ResumeForward
<1> QED BY <1>1, <1>2, <1>3, <1>4, <1>5 DEF Ruling

\* The rows a ruling writes.
LEMMA RulingTypes ==
  ASSUME SweepInv, NEW w \in Sweepers, NEW H, Ruling(w, H)
  PROVE  /\ status' \in {"SUCCEEDED", "CANCELLED", "ROLLED_BACK", "ROLLING_BACK", "RUNNING"}
         /\ job' \in {"DONE", "FAILED", "QUEUED"}
         /\ step' \in [Steps -> {"ABSENT", "PENDING", "RUNNING", "SUCCEEDED", "FAILED", "SKIPPED"}]
         /\ desired' \in [Deployments -> {"RUNNING", "STOPPED"}]
<1>0. /\ step \in [Steps -> {"ABSENT", "PENDING", "RUNNING", "SUCCEEDED", "FAILED", "SKIPPED"}]
      /\ desired \in [Deployments -> {"RUNNING", "STOPPED"}]
  BY DEF SweepInv, TypeInv, TypeOK, StepType, DeployType
<1>1. CASE SweepSucceeds(w, H)
  BY <1>0, <1>1 DEF SweepSucceeds, FinalDesired, RunningOnly
<1>2. CASE SweepCancels(w, H)
  BY <1>0, <1>2 DEF SweepCancels, SkipOpen
<1>3. CASE SweepRollsBack(w, H)
  BY <1>0, <1>3 DEF SweepRollsBack, RunningOnly
<1>4. CASE ResumeRollback(w, H)
  BY <1>0, <1>4 DEF ResumeRollback, ReopenFor
<1>5. CASE ResumeForward(w, H)
  BY <1>0, <1>5 DEF ResumeForward, ReopenFor
<1> QED BY <1>1, <1>2, <1>3, <1>4, <1>5 DEF Ruling

\* The switch's own steps keep the types, and the code of a failure is one of three.
LEMMA SwitchTypes == ASSUME SweepInv, SwitchStep PROVE SweepInv'
<1>1. TypeInv'
  <2>1. CASE Next
    BY <2>1, TypeStep DEF SweepInv
  <2>2. CASE BestEffortFails
    <3> USE DEF operationVars, routingVars, deployVars, nodeVars, gatewayVars, boundVars
    <3>1. /\ JobType /\ StepType /\ RoutingType /\ DeployType /\ NodeType /\ GatewayType
          /\ WorkerType /\ BoundType /\ HistoryType
      BY DEF SweepInv, TypeInv, TypeOK
    <3>2. WorkerType' /\ PhaseOK'
      BY <2>2, <3>1 DEF BestEffortFails, WorkerType, Phases, PhaseOK
    <3> QED BY <2>2, <3>1, <3>2, PartsKept DEF BestEffortFails, TypeInv, TypeOK
  <2> QED BY <2>1, <2>2 DEF SwitchStep
<1>2. err' \in {"unsafe", "transient", "other"}
  BY DEF SwitchStep, SweepInv, SweepTypeOK, ErrorsOf
<1>3. started' \in BOOLEAN /\ UNCHANGED <<sweeps, sweeper, stale>>
  BY DEF SwitchStep, SweepInv, SweepTypeOK
<1> QED BY <1>1, <1>2, <1>3 DEF SweepInv, SweepTypeOK, Counted

\* So do the sweepers'.
LEMMA SweepTypes ==
  ASSUME SweepInv, NEW w \in Sweepers, SweepStep(w) \/ SweeperCrash(w) PROVE SweepInv'
<1>0. /\ TypeOK /\ PhaseOK /\ Counted /\ sweeper \in [Sweepers -> Fact]
      /\ sweeps \in Nat /\ started \in BOOLEAN /\ stale \in BOOLEAN
      /\ err \in {"unsafe", "transient", "other"}
  BY DEF SweepInv, TypeInv, SweepTypeOK, Fact
<1>1. CASE Calm
  <2>1. TypeInv'
    <3> USE DEF operationVars, routingVars, deployVars, nodeVars, gatewayVars, workerVars, Calm
    <3>1. BoundType'
      BY <1>0, <1>1 DEF TypeOK, BoundType
    <3> QED BY <1>0, <1>1, <3>1, PartsKept DEF TypeInv, TypeOK
  <2>2. UNCHANGED <<err, started, stale>>
    BY <1>1 DEF Calm
  <2>3. sweeper' \in [Sweepers -> Fact] /\ Counted' /\ sweeps' \in Nat
    <3>1. CASE sweeper' = [sweeper EXCEPT ![w] = Facts] /\ sweeps' = sweeps
      BY <1>0, <3>1, FactsType DEF Counted
    <3>2. CASE /\ sweeper' = [sweeper EXCEPT ![w] = Resting]
               /\ \/ sweeps' = sweeps \/ sweeps' = sweeper[w].attempt
                  \/ sweeper[w].at = "claimed" /\ sweeps' = sweeper[w].attempt - 1
      <4>1. sweeper[w].attempt \in Nat /\ (sweeper[w].at = "claimed" => sweeper[w].attempt # 0)
        BY <1>0 DEF Counted, Fact
      <4>2. sweeps' \in Nat
        BY <1>0, <3>2, <4>1
      <4> QED BY <1>0, <3>2, <4>2, FactsType DEF Counted
    <3>3. CASE \E H \in SUBSET {d \in Deployments : Runs(d)} : Ruling(w, H)
      <4>1. PICK H : Ruling(w, H)
        BY <3>3
      <4>2. sweeper' = [sweeper EXCEPT ![w].at = "record"] /\ sweeper[w].at = "claimed"
            /\ sweeps' = sweeps
        BY <4>1, RulingIs
      <4> QED BY <1>0, <4>2, FactsType DEF Counted, Fact
    <3> QED BY <3>1, <3>2, <3>3, SweepIs
  <2> QED BY <1>0, <2>1, <2>2, <2>3 DEF SweepInv, SweepTypeOK, Fact
<1>2. CASE \E H \in SUBSET {d \in Deployments : Runs(d)} : Ruling(w, H)
  <2>1. PICK H : Ruling(w, H)
    BY <1>2
  <2>2. /\ sweeper[w].at = "claimed" /\ sweeper' = [sweeper EXCEPT ![w].at = "record"]
        /\ UNCHANGED <<attempts, cancel, boundary, reqVer, routingVars, rt, hl, nodeVars,
                       gatewayVars, workerVars, boundVars, anomaly, err, started, sweeps>>
    BY <2>1, RulingIs
  <2>3. TypeInv'
    <3> USE DEF routingVars, nodeVars, gatewayVars, workerVars, boundVars
    <3>1. JobType' /\ StepType' /\ DeployType'
      BY <1>0, <2>1, <2>2, RulingTypes DEF TypeOK, JobType, Terminal, StepType, DeployType
    <3> QED BY <1>0, <2>2, <3>1, PartsKept DEF TypeInv, TypeOK
  <2>4. stale' \in BOOLEAN
    BY <1>0, <2>1 DEF Ruling, SweepSucceeds, SweepCancels, SweepRollsBack, ResumeRollback,
      ResumeForward
  <2>5. sweeper' \in [Sweepers -> Fact] /\ Counted'
    BY <1>0, <2>2, FactsType DEF Counted, Fact
  <2> QED BY <1>0, <2>2, <2>3, <2>4, <2>5 DEF SweepInv, SweepTypeOK, Fact
<1> QED BY <1>1, <1>2, SweepIs

\* Either way the types are kept.
LEMMA TypesKept == ASSUME SweepInv, [NextR]_allVars PROVE SweepInv'
<1>1. CASE UNCHANGED allVars
  <2>1. SweepTypeOK' /\ Counted'
    BY <1>1 DEF allVars, sweepVars, SweepInv, SweepTypeOK, Counted
  <2>2. TypeInv'
    BY <1>1, TypeStep DEF allVars, SweepInv
  <2> QED BY <2>1, <2>2 DEF SweepInv
<1> QED BY <1>1, SwitchTypes, SweepTypes DEF NextR

\* Nobody sweeps at first.
LEMMA TypesAtStart == InitR => SweepInv
<1> SUFFICES ASSUME InitR PROVE SweepInv
  OBVIOUS
<1>1. TypeInv
  BY TypeInit DEF InitR
<1>2. sweeper \in [Sweepers -> Fact] /\ Counted
  BY FactsType DEF InitR, Counted
<1> QED BY <1>1, <1>2 DEF InitR, SweepInv, SweepTypeOK, Fact

\* ColdReconcile!SweepTypeOK: the sweepers' variables hold values of their kinds, however
\* often an operation is claimed, let go and claimed again.
THEOREM SweepTyping == SpecR => []SweepTypeOK
<1>1. SweepInv => SweepTypeOK
  BY DEF SweepInv
<1> QED BY <1>1, TypesAtStart, TypesKept, PTL DEF SpecR

\* A sweeper finds an operation with the operator, which is not on its way back; the one it
\* puts on that way again is nobody's yet.
LEMMA RollingKept == ASSUME RollingInv, [NextR]_allVars PROVE RollingInv' /\ OneWay
<1> USE DEF RollingInv, OneWay
<1>1. CASE Next \/ UNCHANGED vars
  BY <1>1, RollingStep
<1>2. CASE BestEffortFails
  BY <1>2 DEF BestEffortFails, operationVars, ForwardPhases, StepPhases
<1>3. ASSUME NEW w \in Sweepers, SweepStep(w) \/ SweeperCrash(w)
      PROVE  RollingInv' /\ OneWay
  <2>1. CASE Calm
    BY <2>1 DEF Calm, operationVars, workerVars
  <2>2. CASE \E H \in SUBSET {d \in Deployments : Runs(d)} : Ruling(w, H)
    <3>1. pc' = "idle" /\ status = "MANUAL_INTERVENTION_REQUIRED"
      BY <2>2, RulingIs DEF workerVars
    <3> QED BY <3>1 DEF ForwardPhases, StepPhases
  <2> QED BY <1>3, <2>1, <2>2, SweepIs
<1> QED BY <1>1, <1>2, <1>3 DEF NextR, SwitchStep, allVars

\* ColdSwitch!RollbackIsOneWay, with the sweepers: an operation that rolls back ends rolled
\* back or with the operator, and begins no forward step, however often it is resumed.
THEOREM OneWaySwept == SpecR => RollbackIsOneWay
<1>1. InitR => RollingInv
  BY RollingInit DEF InitR
<1>2. RollingInv /\ [NextR]_allVars
        => [status = "ROLLING_BACK"
              => /\ status' \in {"ROLLING_BACK", "ROLLED_BACK",
                                 "MANUAL_INTERVENTION_REQUIRED"}
                 /\ cur' \in ForwardSteps => cur' = cur]_vars
  BY RollingKept DEF OneWay
<1> QED BY <1>1, <1>2, RollingKept, PTL DEF SpecR, RollbackIsOneWay

-----------------------------------------------------------------------------
(****************** what sweepers keep: looking, letting go ****************)

\* Nothing but the count of faults moves, or the worker gives the endpoint up.
Still ==
  /\ UNCHANGED <<operationVars, routingVars, deployVars, nodeVars, gatewayVars, cur, want,
                 edits, anomaly>>
  /\ started' => started \/ cont["target"] = "running"
  /\ pc' = pc \/ (pc \in {"manual", "aborted"} /\ pc' = "escalate")

\* The parts of the invariant whose premises name a phase.
LEMMA StillDone ==
  ASSUME Still, NEW s
  PROVE  /\ Done(s)' => Done(s)
         /\ Activated(s)' => Activated(s)
         /\ AtStep' => AtStep /\ (pc \in FailedAt <=> pc' \in FailedAt)
         /\ ~AtStep' => ~AtStep \/ pc' = "escalate"
BY DEF Still, operationVars, Done, Activated, AtStep, StepPhases, FailedAt

\* So a step that only looks, or gives up, keeps the order of the steps, ...
LEMMA StillOrdered ==
  ASSUME OrderInv, NoGap, TypeInv', Still PROVE OrderInv' /\ NoGap'
<1> USE DEF Still, operationVars, routingVars
<1>1. PhaseCur'
  BY StillDone DEF OrderInv, PhaseInv, PhaseCur
<1>2. PhaseStatus'
  BY StillDone DEF OrderInv, PhaseInv, PhaseStatus, ForwardPhases
<1>3. NotBegun' /\ NotSkipped'
  BY DEF OrderInv, NotBegun, NotSkipped
<1>4. Unfailed'
  BY StillDone DEF OrderInv, Unfailed
<1>5. Closed'
  BY StillDone DEF OrderInv, Closed, Open
<1>6. InOrder'
  BY StillDone DEF OrderInv, InOrder, Clean
<1>7. NoGap'
  BY DEF NoGap, Clean
<1> QED BY <1>1, <1>2, <1>3, <1>4, <1>5, <1>6, <1>7 DEF OrderInv, PhaseInv

\* ... what is said of the node and of the gateway, ...
LEMMA StillServes ==
  ASSUME NodeInv, RouteInv, Still PROVE NodeInv' /\ RouteInv'
<1> USE DEF Still, operationVars, routingVars, deployVars, nodeVars, gatewayVars, Clean, OnTime
<1>1. RoutedAfter' /\ RunsAfter' /\ LateForward' /\ Uncrossed' /\ NoOverlap'
  BY DEF NodeInv, RoutedAfter, RunsAfter, LateForward, Uncrossed, NoOverlap, Unturned
<1>2. Past' /\ Stopped' /\ Recalled'
  BY StillDone DEF NodeInv, Past, Stopped, Recalled, Unturned
<1>3. TargetUp' /\ TargetDown' /\ SourceUp'
  BY StillDone DEF NodeInv, TargetUp, TargetDown, SourceUp, Unturned
<1>4. HeldOff'
  <2>1. Draining' => Draining
    BY StillDone DEF Draining, Going
  <2> QED BY <2>1 DEF RouteInv, HeldOff
<1>5. Blocked' /\ RouteAway' /\ RouteBack'
  BY StillDone DEF RouteInv, Blocked, RouteAway, RouteBack, Unturned
<1>6. RowsRun' /\ NoTrafficToStoppedModel'
  BY DEF RouteInv, RowsRun, NoTrafficToStoppedModel
<1> QED BY <1>1, <1>2, <1>3, <1>4, <1>5, <1>6 DEF NodeInv, RouteInv

\* ... and all the rest.
LEMMA StillSound ==
  ASSUME Sound, TypeInv', ClaimedBefore', Still PROVE Sound'
<1> USE DEF Still, operationVars, routingVars, deployVars, nodeVars, Clean, OnTime
<1>1. ServingInv'
  BY StillOrdered, StillServes DEF Sound, ServingInv
<1>2. EndingInv'
  <2>1. ToSucceed' /\ Unharmed' /\ OwnRoute'
    BY DEF Sound, EndingInv, ToSucceed, Finalized, Unharmed, Ineffective, OwnRoute
  <2>2. Served' /\ Restored'
    BY StillDone DEF Sound, EndingInv, Served, Restored, Going, ServesAlone
  <2>3. RolledBackMeansRestored' /\ SucceededMeansServed'
    BY DEF Sound, EndingInv, RolledBackMeansRestored, SucceededMeansServed, ServesAlone, Open
  <2> QED BY <2>1, <2>2, <2>3 DEF EndingInv
<1>3. RowsInv'
  BY DEF Sound, RowsInv, AllOrNone, ClosedAfter, Shut, Unskipped, Ordered, Unturned, Open
<1>4. PastInv'
  BY DEF Sound, PastInv, Untouched, TurnedPast, Unturned
<1>5. EvidenceInv'
  BY StillDone DEF Sound, EvidenceInv, RowUp, SourceRow, Judged, StartedAfter, Unturned
<1> QED BY <1>1, <1>2, <1>3, <1>4, <1>5 DEF Sound

\* The switch's steps, the one included in which the worker's last call fails.
LEMMA SwitchSound == ASSUME Sound, TypeInv', SwitchStep PROVE Sound'
<1>1. sweeper' = sweeper /\ started' = (started \/ cont'["target"] = "running")
  BY DEF SwitchStep
<1>2. CASE Next
  BY <1>1, <1>2, SwitchKeeps
<1>3. CASE BestEffortFails
  <2>1. Still
    BY <1>1, <1>3 DEF BestEffortFails, Still, boundVars, nodeVars
  <2>2. ClaimedBefore'
    BY <1>1, <2>1 DEF Sound, ClaimedBefore, Still, operationVars
  <2> QED BY <2>1, <2>2, StillSound
<1> QED BY <1>2, <1>3 DEF SwitchStep

\* And the sweepers' calm ones: who claims does so while the operation is over.
LEMMA CalmSound ==
  ASSUME Sound, SweepInv, TypeInv', Calm, NEW w \in Sweepers,
         \/ /\ status = "MANUAL_INTERVENTION_REQUIRED"
            /\ sweeper' = [sweeper EXCEPT ![w] = Facts]
         \/ sweeper' = [sweeper EXCEPT ![w] = Resting]
  PROVE  Sound'
<1>1. Still
  BY DEF Calm, Still, workerVars
<1>2. ClaimedBefore'
  <2>1. UNCHANGED <<boundary, status>>
    BY DEF Calm, operationVars
  <2>2. sweeper \in [Sweepers -> Fact]
    BY DEF SweepInv, SweepTypeOK, Fact
  <2>3. Facts.boundary = boundary /\ Resting.at = "rest"
    BY FactsType DEF Facts
  <2>4. ASSUME NEW v \in Sweepers, sweeper'[v].at = "claimed", ~sweeper'[v].boundary
        PROVE  ~boundary /\ status \in Terminal
    <3>1. CASE v # w
      BY <2>2, <2>4, <3>1 DEF Sound, ClaimedBefore
    <3>2. CASE v = w
      BY <2>2, <2>3, <2>4, <3>2 DEF Terminal
    <3> QED BY <3>1, <3>2
  <2> QED BY <2>1, <2>4 DEF ClaimedBefore
<1> QED BY <1>1, <1>2, StillSound

-----------------------------------------------------------------------------
(********************** what sweepers keep: deciding ***********************)

\* No success is taken back; the only one added is FINALIZE's, which had failed.  Rows do not
\* come into being, and what had not begun has not; a forward step is opened again only if no
\* rollback has begun, one is skipped only by a cancellation.
FitRows ==
  \A s \in Steps :
    /\ step[s] = "SUCCEEDED" => step'[s] = "SUCCEEDED"
    /\ step'[s] = "SUCCEEDED"
         => step[s] = "SUCCEEDED" \/ (s = "FINALIZE" /\ step[s] = "FAILED")
    /\ step'[s] = "ABSENT" <=> step[s] = "ABSENT"
    /\ step'[s] \in {"RUNNING", "FAILED"} => step[s] = step'[s]
    /\ step'[s] = "SKIPPED"
         => step[s] = "SKIPPED" \/ (s \in ForwardSteps /\ status' = "CANCELLED")
    /\ step'[s] = "PENDING" /\ s \in ForwardSteps
         => step[s] \in {"PENDING", "RUNNING"} \/ Unturned
    /\ step[s] = "FAILED" /\ ~boundary => step'[s] # "PENDING" /\ step'[s] # "SKIPPED"

\* The ending, or the direction, agrees with the rows, the route and the boundary.
FitStatus ==
  /\ \/ status' \in {"SUCCEEDED", "CANCELLED", "ROLLED_BACK"} /\ job' \in {"DONE", "FAILED"}
     \/ status' \in {"ROLLING_BACK", "RUNNING"} /\ boundary
  /\ status' \in Ahead => Unturned
  /\ status' \in {"SUCCEEDED", "RUNNING"} => route = "target"
  /\ status' = "CANCELLED" => traffic = "SERVING" /\ ~boundary
  /\ desired'["target"] = "RUNNING" => desired["target"] = "RUNNING" \/ route = "target"

\* A ruling that fits the rows keeps what is said of them ...
LEMMA RulingOrdered ==
  ASSUME Sound, TypeInv', NEW w \in Sweepers, NEW H, Ruling(w, H), FitRows, FitStatus
  PROVE  OrderInv' /\ NoGap' /\ RowsInv' /\ PastInv'
<1>0. /\ pc = "idle" /\ pc' = "idle" /\ cur' = cur /\ boundary' = boundary
      /\ traffic' = traffic /\ cont' = cont /\ late' = late /\ anomaly' = anomaly
      /\ status = "MANUAL_INTERVENTION_REQUIRED"
      /\ ~AtStep /\ ~AtStep'
  BY RulingIs DEF workerVars, routingVars, nodeVars, AtStep, StepPhases
<1>1. (Clean' <=> Clean) /\ (Unturned' <=> Unturned)
  BY <1>0 DEF Clean, Unturned, FitRows, Steps
<1>2. PhaseCur' /\ PhaseStatus'
  BY <1>0 DEF PhaseCur, PhaseStatus, ForwardPhases, FitStatus, Terminal
<1>3. NotBegun' /\ NotSkipped'
  <2>1. NotBegun'
    BY <1>1 DEF NotBegun, FitStatus, Unturned
  <2>2. ASSUME status' \in {"QUEUED", "RUNNING"}, NEW s \in ForwardSteps
        PROVE  step'[s] \notin {"ABSENT", "SKIPPED"}
    <3>1. Unturned
      BY <2>2 DEF FitStatus, Ahead
    <3> QED BY <1>0, <2>2, <3>1 DEF Sound, RowsInv, Unskipped, FitRows, Steps
  <2>3. ASSUME NEW s \in RollbackSteps PROVE step'[s] # "SKIPPED"
    BY StepsDisjoint DEF Sound, ServingInv, OrderInv, NotSkipped, FitRows, Steps
  <2> QED BY <2>1, <2>2, <2>3 DEF NotSkipped
<1>4. Unfailed' /\ Closed' /\ InOrder'
  BY <1>0 DEF Unfailed, Closed, InOrder
<1>5. NoGap'
  <2>1. ASSUME Clean', NEW i \in DOMAIN Forward, step'[Forward[i]] = "SUCCEEDED",
               NEW k \in 1 .. i - 1
        PROVE  step'[Forward[k]] = "SUCCEEDED"
    <3>1. k \in DOMAIN Forward /\ Forward[i] \in Steps /\ Forward[k] \in Steps
      BY Positions DEF Steps, ForwardSteps
    <3>2. step[Forward[i]] \in {"RUNNING", "FAILED", "SUCCEEDED"}
      BY <2>1, <3>1 DEF FitRows
    <3>3. step[Forward[k]] = "SUCCEEDED"
      BY <1>1, <2>1, <3>2 DEF Sound, RowsInv, Ordered
    <3> QED BY <3>1, <3>3 DEF FitRows
  <2>2. ASSUME NEW i \in DOMAIN Rollback, step'[Rollback[i]] = "SUCCEEDED",
               NEW k \in 1 .. i - 1
        PROVE  step'[Rollback[k]] = "SUCCEEDED"
    <3>1. k \in DOMAIN Rollback /\ Rollback[i] \in RollbackSteps /\ Rollback[k] \in RollbackSteps
      BY Positions DEF RollbackSteps
    <3>2. Rollback[i] # "FINALIZE" /\ Rollback[i] \in Steps /\ Rollback[k] \in Steps
      BY <3>1, StepSets, StepsDisjoint DEF Steps
    <3>3. step[Rollback[k]] = "SUCCEEDED"
      BY <2>2, <3>2 DEF Sound, ServingInv, NoGap, FitRows
    <3> QED BY <3>2, <3>3 DEF FitRows
  <2> QED BY <2>1, <2>2 DEF NoGap
<1>6. RowsInv'
  <2>1. AllOrNone'
    BY <1>1 DEF Sound, RowsInv, AllOrNone, FitRows, Steps
  <2>2. ClosedAfter'
    BY <1>1 DEF Sound, RowsInv, ClosedAfter, Open, FitRows, Steps
  <2>3. Shut'
    BY <1>0, <1>1, StepSets DEF Sound, RowsInv, Shut, FitRows, Steps
  <2>4. Unskipped'
    BY <1>0, <1>1 DEF Sound, RowsInv, Unskipped, FitRows, Steps
  <2>5. Ordered'
    <3> SUFFICES ASSUME Clean', NEW i \in DOMAIN Forward,
                        step'[Forward[i]] \in {"RUNNING", "FAILED", "SUCCEEDED"},
                        NEW k \in 1 .. i - 1
                 PROVE  step'[Forward[k]] = "SUCCEEDED"
      BY DEF Ordered
    <3>1. k \in DOMAIN Forward /\ Forward[i] \in Steps /\ Forward[k] \in Steps
      BY Positions DEF Steps, ForwardSteps
    <3>2. step[Forward[i]] \in {"RUNNING", "FAILED", "SUCCEEDED"}
      BY <3>1 DEF FitRows
    <3>3. step[Forward[k]] = "SUCCEEDED"
      BY <1>1, <3>2 DEF Sound, RowsInv, Ordered
    <3> QED BY <3>1, <3>3 DEF FitRows
  <2> QED BY <2>1, <2>2, <2>3, <2>4, <2>5 DEF RowsInv
<1>7. PastInv'
  <2>1. Untouched'
    <3>1. ~boundary /\ step["STOP_SOURCE"] = "FAILED" => step'["STOP_SOURCE"] = "FAILED"
      <4>1. "STOP_SOURCE" \in Steps /\ step' \in [Steps -> {"ABSENT", "PENDING", "RUNNING",
                                                            "SUCCEEDED", "FAILED", "SKIPPED"}]
        BY StepSets DEF Steps, TypeInv, TypeOK, StepType
      <4> QED BY <4>1 DEF FitRows
    <3> QED BY <1>0, <3>1 DEF Sound, PastInv, Untouched
  <2>2. TurnedPast'
    BY <1>0, <1>1 DEF Sound, PastInv, TurnedPast, FitStatus
  <2> QED BY <2>1, <2>2 DEF PastInv
<1> QED BY <1>2, <1>3, <1>4, <1>5, <1>6, <1>7 DEF OrderInv, PhaseInv

\* ... what is said of the node and of the gateway ...
LEMMA RulingServes ==
  ASSUME Sound, TypeInv', NEW w \in Sweepers, NEW H, Ruling(w, H), FitRows, FitStatus
  PROVE  NodeInv' /\ RouteInv' /\ EvidenceInv' /\ ClaimedBefore'
<1>0. /\ pc = "idle" /\ pc' = "idle" /\ cur' = cur /\ UNCHANGED <<boundary, cancel>>
      /\ UNCHANGED <<traffic, route, ver, rt, hl, cont, late, gw, load, infl>>
      /\ anomaly' = anomaly /\ edits' = edits /\ started' = started
      /\ status = "MANUAL_INTERVENTION_REQUIRED"
      /\ sweeper' = [sweeper EXCEPT ![w].at = "record"]
  BY RulingIs DEF workerVars, routingVars, nodeVars, gatewayVars, boundVars
<1>1. (Clean' <=> Clean) /\ (OnTime' <=> OnTime) /\ (Unturned' <=> Unturned)
  BY <1>0 DEF Clean, OnTime, Unturned, FitRows, Steps
<1>2. ASSUME NEW s \in Steps \ {"FINALIZE"}
      PROVE  Done(s)' = Done(s) /\ Activated(s)' = Activated(s)
             /\ (step'[s] = "SUCCEEDED" <=> step[s] = "SUCCEEDED")
  BY <1>0, <1>2 DEF Done, Activated, FitRows
<1>3. /\ "STOP_SOURCE" \in Steps \ {"FINALIZE"} /\ "START_TARGET" \in Steps \ {"FINALIZE"}
      /\ "PROBE_TARGET" \in Steps \ {"FINALIZE"} /\ Before \subseteq Steps \ {"FINALIZE"}
      /\ "DRAIN_TRAFFIC" \in Steps \ {"FINALIZE"} /\ RollbackSteps \subseteq Steps \ {"FINALIZE"}
      /\ "ACTIVATE_TARGET_ROUTE" \in Steps \ {"FINALIZE"}
  BY StepSets DEF Steps, Before
<1>4. NodeInv'
  <2>1. RoutedAfter' /\ RunsAfter'
    <3>1. Clean' /\ (route' = "target" \/ desired'["target"] = "RUNNING")
            => Clean /\ (route = "target" \/ desired["target"] = "RUNNING")
      BY <1>0, <1>1 DEF FitStatus
    <3>2. RoutedAfter'
      BY <1>2, <1>3, <3>1 DEF Sound, ServingInv, NodeInv, RoutedAfter
    <3> QED BY <1>0, <1>1, <1>2, <1>3, <3>2 DEF Sound, ServingInv, NodeInv, RunsAfter
  <2>2. LateForward' /\ Uncrossed' /\ NoOverlap'
    BY <1>0, <1>1 DEF Sound, ServingInv, NodeInv, LateForward, Uncrossed, NoOverlap
  <2>3. Past' /\ Stopped' /\ Recalled' /\ TargetUp'
    BY <1>0, <1>1, <1>2, <1>3 DEF Sound, ServingInv, NodeInv, Past, Stopped, Recalled, TargetUp
  <2>4. TargetDown' /\ SourceUp'
    <3>1. /\ Done("ROLLBACK_STOP_TARGET")' = Done("ROLLBACK_STOP_TARGET")
          /\ Done("ROLLBACK_START_SOURCE")' = Done("ROLLBACK_START_SOURCE")
      BY <1>2, <1>3, StepSets
    <3> QED BY <1>0, <1>1, <3>1 DEF Sound, ServingInv, NodeInv, TargetDown, SourceUp
  <2> QED BY <2>1, <2>2, <2>3, <2>4 DEF NodeInv
<1>5. RouteInv'
  <2>1. HeldOff'
    <3>1. ~Draining'
      <4> SUFFICES ASSUME Draining' PROVE FALSE
        OBVIOUS
      <4>1. status' \in {"SUCCEEDED", "RUNNING"} /\ Clean
        BY <1>1 DEF Draining, Going, FitStatus
      <4>2. step["STOP_SOURCE"] = "SUCCEEDED"
        BY <4>1 DEF FitStatus, Sound, ServingInv, NodeInv, RoutedAfter, Before
      <4> QED BY <1>2, <1>3, <4>2 DEF Draining
    <3> QED BY <3>1 DEF HeldOff
  <2>2. Blocked'
    <3>1. /\ Done("ROLLBACK_BLOCK_TRAFFIC")' = Done("ROLLBACK_BLOCK_TRAFFIC")
          /\ step'["ROLLBACK_STOP_TARGET"] = "SUCCEEDED"
               <=> step["ROLLBACK_STOP_TARGET"] = "SUCCEEDED"
      BY <1>2, <1>3, StepSets
    <3> QED BY <1>0, <3>1 DEF Sound, ServingInv, RouteInv, Blocked
  <2>3. RouteAway' /\ RouteBack'
    <3>1. "ROLLBACK_ACTIVATE_SOURCE_ROUTE" \in Steps \ {"FINALIZE"}
      BY <1>3, StepSets
    <3> QED BY <1>0, <1>1, <1>2, <1>3, <3>1 DEF Sound, ServingInv, RouteInv, RouteAway, RouteBack
  <2>4. RowsRun' /\ NoTrafficToStoppedModel'
    BY <1>0, <1>1 DEF Sound, ServingInv, RouteInv, RowsRun, NoTrafficToStoppedModel
  <2> QED BY <2>1, <2>2, <2>3, <2>4 DEF RouteInv
<1>6. EvidenceInv'
  <2>1. RowUp' /\ StartedAfter'
    BY <1>0, <1>1, <1>2, <1>3 DEF Sound, EvidenceInv, RowUp, StartedAfter
  <2>2. /\ Done("ROLLBACK_START_SOURCE")' = Done("ROLLBACK_START_SOURCE")
        /\ Done("ROLLBACK_PROBE_SOURCE")' = Done("ROLLBACK_PROBE_SOURCE")
    BY <1>2, <1>3, StepSets
  <2>3. SourceRow' /\ Judged'
    BY <1>0, <1>1, <1>2, <1>3, <2>2 DEF Sound, EvidenceInv, SourceRow, Judged
  <2> QED BY <2>1, <2>3 DEF EvidenceInv
<1>7. ClaimedBefore'
  <2>1. \A v \in Sweepers : sweeper'[v].at = "claimed" => sweeper[v].at = "claimed"
                              /\ sweeper'[v].boundary = sweeper[v].boundary
    BY <1>0
  <2> QED BY <1>0, <2>1 DEF Sound, ClaimedBefore, FitStatus, Terminal
<1> QED BY <1>4, <1>5, <1>6, <1>7

\* ... and, if its ending keeps the endings' promises, everything.
LEMMA RulingSound ==
  ASSUME Sound, TypeInv', NEW w \in Sweepers, NEW H, Ruling(w, H), FitRows, FitStatus,
         Served', RolledBackMeansRestored', SucceededMeansServed'
  PROVE  Sound'
<1>0. /\ pc' = "idle" /\ UNCHANGED <<boundary, traffic, route, edits>>
      /\ status = "MANUAL_INTERVENTION_REQUIRED"
  BY RulingIs DEF workerVars, routingVars, boundVars
<1>1. ToSucceed' /\ Restored' /\ OwnRoute'
  BY <1>0 DEF ToSucceed, Finalized, Restored, OwnRoute, Sound, EndingInv
<1>2. Unharmed'
  BY <1>0 DEF Unharmed, Ineffective, FitStatus
<1> QED BY <1>1, <1>2, RulingOrdered, RulingServes DEF Sound, ServingInv, EndingInv

\* Where the endpoint is open, a rollback has at least routed to Source: and a rollback that
\* has done so leaves no route to Target.
LEMMA OpenUnturned ==
  ASSUME Sound, pc = "idle", route = "target"
  PROVE  /\ step["ROLLBACK_ACTIVATE_SOURCE_ROUTE"] # "SUCCEEDED"
         /\ traffic = "SERVING" => Unturned
BY DEF Sound, ServingInv, RouteInv, RouteBack, RowsInv, Shut, Activated, Done

\* A success: Target serves, so no rollback has begun, and the steps before its route vouch
\* for the rest.
LEMMA SweptSuccess ==
  ASSUME Sound, SweepInv, TypeInv', NEW w \in Sweepers, NEW H, SweepSucceeds(w, H)
  PROVE  /\ Sound'
         /\ Clean => /\ ServesAlone("target", "source")' /\ cont["source"] # "running"
                     /\ gw.active = "target"
<1>0. Ruling(w, H)
  BY DEF Ruling
<1>1. /\ pc = "idle" /\ status = "MANUAL_INTERVENTION_REQUIRED"
      /\ pc' = "idle" /\ UNCHANGED <<boundary, traffic, route, rt, hl, cont, edits, anomaly>>
  BY <1>0, RulingIs DEF workerVars, routingVars, nodeVars, boundVars
<1>2. /\ status' = "SUCCEEDED" /\ job' = "DONE" /\ desired' = RunningOnly("target")
      /\ step' = IF step["FINALIZE"] = "FAILED" THEN [step EXCEPT !["FINALIZE"] = "SUCCEEDED"]
                                                ELSE step
      /\ TargetServes(sweeper[w], H)
  BY DEF SweepSucceeds, FinalDesired
<1>3. /\ route = "target" /\ traffic = "SERVING" /\ gw.active = "target"
      /\ cont["target"] = "running" /\ cont["source"] # "running"
  BY <1>2 DEF TargetServes, Serves, Runs, RuntimeOf
<1>4. Unturned
  BY <1>1, <1>3, OpenUnturned
<1>5. FitRows
  <2>1. step \in [Steps -> {"ABSENT", "PENDING", "RUNNING", "SUCCEEDED", "FAILED", "SKIPPED"}]
        /\ "FINALIZE" \in Steps
    BY StepSets DEF SweepInv, TypeInv, TypeOK, StepType, Steps
  <2> QED BY <1>2, <1>4, <2>1 DEF FitRows
<1>6. FitStatus
  BY <1>2, <1>3, <1>4 DEF FitStatus
<1>7. Clean => boundary /\ ServesAlone("target", "source")'
  <2> SUFFICES ASSUME Clean PROVE boundary /\ ServesAlone("target", "source")'
    OBVIOUS
  <2>1. /\ step["STOP_SOURCE"] = "SUCCEEDED" /\ step["START_TARGET"] = "SUCCEEDED"
        /\ step["PROBE_TARGET"] = "SUCCEEDED"
    BY <1>3 DEF Sound, ServingInv, NodeInv, RoutedAfter, Before
  <2>2. boundary /\ rt["source"] = "STOPPED"
    BY <1>4, <2>1 DEF Sound, ServingInv, NodeInv, Past, Stopped, Done
  <2>3. rt["target"] = "RUNNING" /\ hl["target"] = "HEALTHY"
    BY <1>4, <2>1 DEF Sound, EvidenceInv, RowUp, Judged, Done
  <2> QED BY <1>1, <1>3, <2>2, <2>3 DEF ServesAlone
<1>8. (Clean' <=> Clean) /\ Served' /\ RolledBackMeansRestored' /\ SucceededMeansServed'
  BY <1>1, <1>2, <1>3, <1>7 DEF Clean, Served, RolledBackMeansRestored, SucceededMeansServed
<1> QED BY <1>0, <1>3, <1>5, <1>6, <1>7, <1>8, RulingSound

\* A cancellation: what the sweeper read before the locks still holds of an operation that is
\* over, so the boundary has not been crossed.
LEMMA SweptCancel ==
  ASSUME Sound, SweepInv, TypeInv', NEW w \in Sweepers, NEW H, SweepCancels(w, H)
  PROVE  Sound' /\ ~boundary /\ route = "source" /\ cont["source"] = "running"
<1>0. Ruling(w, H)
  BY DEF Ruling
<1>1. sweeper[w].at = "claimed" /\ status = "MANUAL_INTERVENTION_REQUIRED"
  BY <1>0, RulingIs
<1>2. /\ status' = "CANCELLED" /\ job' = "FAILED" /\ step' = SkipOpen(step, ForwardSteps)
      /\ desired' = desired /\ CancelProven(sweeper[w], H)
  BY DEF SweepCancels
<1>3. /\ route = "source" /\ traffic = "SERVING" /\ cont["source"] = "running"
      /\ ~sweeper[w].boundary
  BY <1>2 DEF CancelProven, Serves, Runs, RuntimeOf
<1>4. ~boundary /\ Unturned
  <2>1. ~boundary
    BY <1>1, <1>3 DEF Sound, ClaimedBefore
  <2> QED BY <2>1 DEF Sound, PastInv, TurnedPast
<1>5. FitRows
  BY <1>2, <1>4 DEF FitRows, SkipOpen
<1>6. FitStatus
  BY <1>2, <1>3, <1>4 DEF FitStatus
<1>7. Served' /\ RolledBackMeansRestored' /\ SucceededMeansServed'
  BY <1>2 DEF Served, Going, RolledBackMeansRestored, SucceededMeansServed
<1> QED BY <1>0, <1>3, <1>4, <1>5, <1>6, <1>7, RulingSound

\* A rollback: Source serves, so either the rollback has routed to it, having probed it, or it
\* never stopped, and then Target never ran.
LEMMA SweptRollback ==
  ASSUME Sound, SweepInv, TypeInv', NEW w \in Sweepers, NEW H, SweepRollsBack(w, H)
  PROVE  /\ Sound'
         /\ Clean => /\ ServesAlone("source", "target")' /\ cont["target"] # "running"
                     /\ gw.active = "source"
<1>0. Ruling(w, H)
  BY DEF Ruling
<1>1. /\ pc = "idle" /\ Conclusive(sweeper[w])
      /\ UNCHANGED <<traffic, route, rt, hl, cont, edits, anomaly>>
  BY <1>0, RulingIs DEF routingVars, nodeVars, boundVars
<1>2. /\ status' = "ROLLED_BACK" /\ job' = "DONE" /\ desired' = RunningOnly("source")
      /\ step' = step /\ RollbackProven(sweeper[w], H)
  BY DEF SweepRollsBack
<1>3. /\ route = "source" /\ traffic = "SERVING" /\ gw.active = "source"
      /\ cont["source"] = "running" /\ cont["target"] = "stopped" /\ started
  <2>1. /\ cont["target"] \in {"absent", "stopped", "running"} /\ cont["target"] # "absent"
        /\ "source" \in Deployments
    BY <1>1 DEF SweepInv, TypeInv, TypeOK, NodeType, Conclusive, Observable, Deployments
  <2> QED BY <1>2, <2>1 DEF RollbackProven, Serves, Runs, RuntimeOf
<1>4. FitRows
  <2>1. step \in [Steps -> {"ABSENT", "PENDING", "RUNNING", "SUCCEEDED", "FAILED", "SKIPPED"}]
    BY DEF SweepInv, TypeInv, TypeOK, StepType
  <2> QED BY <1>2, <2>1 DEF FitRows
<1>5. FitStatus
  BY <1>2, <1>3 DEF FitStatus, Ahead, RunningOnly, Deployments
<1>6. Clean => ServesAlone("source", "target")' /\ Open(ForwardSteps) = {}
  <2> SUFFICES ASSUME Clean PROVE ServesAlone("source", "target")' /\ Open(ForwardSteps) = {}
    OBVIOUS
  <2>1. ~Unturned
    <3> SUFFICES ASSUME Unturned PROVE FALSE
      OBVIOUS
    <3>1. step["STOP_SOURCE"] = "SUCCEEDED"
      BY <1>3 DEF Sound, EvidenceInv, StartedAfter
    <3> QED BY <1>3, <3>1 DEF Sound, ServingInv, NodeInv, Stopped, Done
  <2>2. step["ROLLBACK_ACTIVATE_SOURCE_ROUTE"] = "SUCCEEDED"
    BY <1>3, <2>1 DEF Sound, RowsInv, Shut
  <2>3. /\ step["ROLLBACK_STOP_TARGET"] = "SUCCEEDED" /\ step["ROLLBACK_START_SOURCE"] = "SUCCEEDED"
        /\ step["ROLLBACK_PROBE_SOURCE"] = "SUCCEEDED"
    <3>1. 7 \in DOMAIN Rollback /\ Rollback[7] = "ROLLBACK_ACTIVATE_SOURCE_ROUTE"
          /\ Rollback[3] = "ROLLBACK_STOP_TARGET" /\ Rollback[4] = "ROLLBACK_START_SOURCE"
          /\ Rollback[6] = "ROLLBACK_PROBE_SOURCE"
      BY DEF Rollback
    <3>2. \A k \in 1 .. 7 - 1 : step[Rollback[k]] = "SUCCEEDED"
      BY <2>2, <3>1 DEF Sound, ServingInv, NoGap
    <3> QED BY <3>1, <3>2
  <2>4. rt["target"] = "STOPPED" /\ rt["source"] = "RUNNING" /\ hl["source"] = "HEALTHY"
    BY <2>3 DEF Sound, ServingInv, NodeInv, TargetDown, EvidenceInv, SourceRow, Judged, Done
  <2> QED BY <1>1, <1>3, <2>1, <2>4 DEF ServesAlone, Sound, RowsInv, ClosedAfter
<1>7. Served' /\ RolledBackMeansRestored' /\ SucceededMeansServed'
  <2>1. OnTime' => Clean
    BY <1>1 DEF OnTime, Clean
  <2>2. Open(ForwardSteps)' = Open(ForwardSteps)
    BY <1>2 DEF Open
  <2>3. RolledBackMeansRestored'
    BY <1>1, <1>2, <1>3, <1>6, <2>1, <2>2 DEF RolledBackMeansRestored
  <2> QED BY <1>2, <2>3 DEF Served, Going, SucceededMeansServed
<1> QED BY <1>0, <1>3, <1>4, <1>5, <1>6, <1>7, RulingSound

\* Who remembers what is so today has found the rows as they are.
LEMMA CurrentIs ==
  ASSUME SweepInv, NEW w \in Sweepers, Current(w)
  PROVE  /\ sweeper[w].boundary = boundary /\ sweeper[w].forward = OpenForward
         /\ sweeper[w].back = OpenBack
<1>1. sweeper[w] \in Fact
  BY DEF SweepInv, SweepTypeOK, Fact
<1>2. [sweeper[w] EXCEPT !.attempt = Facts.attempt] = Facts
  BY DEF Current
<1>3. /\ [sweeper[w] EXCEPT !.attempt = Facts.attempt].boundary = sweeper[w].boundary
      /\ [sweeper[w] EXCEPT !.attempt = Facts.attempt].forward = sweeper[w].forward
      /\ [sweeper[w] EXCEPT !.attempt = Facts.attempt].back = sweeper[w].back
  BY <1>1 DEF Fact
<1>4. Facts.boundary = boundary /\ Facts.forward = OpenForward /\ Facts.back = OpenBack
  BY DEF Facts
<1> QED BY <1>2, <1>3, <1>4

\* The rows of a step that is opened again.
LEMMA ReopenedFits ==
  ASSUME SweepInv, NEW s \in Steps, step[s] \in {"FAILED", "RUNNING", "PENDING"}, boundary,
         s \in ForwardSteps => Unturned,
         NEW resumed, ReopenFor(s, resumed)
  PROVE  FitRows /\ step' = [step EXCEPT ![s] = "PENDING"]
<1>1. step \in [Steps -> {"ABSENT", "PENDING", "RUNNING", "SUCCEEDED", "FAILED", "SKIPPED"}]
  BY DEF SweepInv, TypeInv, TypeOK, StepType
<1>2. step' = [step EXCEPT ![s] = "PENDING"]
  BY DEF ReopenFor
<1> QED BY <1>1, <1>2 DEF FitRows

\* A rollback that goes on: one of its rows is open, so it had begun.
LEMMA ResumedRollback ==
  ASSUME Sound, SweepInv, TypeInv', ~stale', NEW w \in Sweepers, NEW H, ResumeRollback(w, H)
  PROVE  Sound'
<1>0. Ruling(w, H)
  BY DEF Ruling
<1>1. /\ UndoProven(sweeper[w], H) /\ ReopenFor(sweeper[w].back, "ROLLING_BACK") /\ Current(w)
  BY DEF ResumeRollback
<1>2. boundary /\ sweeper[w].back = OpenBack /\ OpenBack # NoStep
  BY <1>1, CurrentIs DEF UndoProven
<1>3. /\ OpenBack \in RollbackSteps /\ step[OpenBack] \in {"FAILED", "RUNNING", "PENDING"}
      /\ OpenBack \in Steps /\ OpenBack \notin ForwardSteps
  BY <1>2, OpenIs, StepsDisjoint DEF Steps
<1>4. FitRows
  BY <1>1, <1>2, <1>3, ReopenedFits
<1>5. status' = "ROLLING_BACK" /\ job' = "QUEUED" /\ desired' = desired
  BY <1>1 DEF ReopenFor
<1>6. FitStatus
  BY <1>2, <1>5 DEF FitStatus, Ahead
<1>7. Served' /\ RolledBackMeansRestored' /\ SucceededMeansServed'
  BY <1>5 DEF Served, Going, RolledBackMeansRestored, SucceededMeansServed
<1> QED BY <1>0, <1>4, <1>6, <1>7, RulingSound

\* A switch that goes on: no row of a rollback is open, and none routed to Source, so there
\* is none; a step is open, so FINALIZE has not been done.
LEMMA ResumedForward ==
  ASSUME Sound, SweepInv, TypeInv', ~stale', NEW w \in Sweepers, NEW H, ResumeForward(w, H)
  PROVE  Sound'
<1>0. Ruling(w, H)
  BY DEF Ruling
<1>1. /\ FinishProven(sweeper[w], H) /\ ReopenFor(sweeper[w].forward, "RUNNING") /\ Current(w)
  BY DEF ResumeForward
<1>2. /\ pc = "idle" /\ pc' = "idle" /\ anomaly' = anomaly
      /\ status = "MANUAL_INTERVENTION_REQUIRED"
  BY <1>0, RulingIs DEF workerVars
<1>3. /\ boundary /\ sweeper[w].forward = OpenForward /\ OpenForward # NoStep
      /\ sweeper[w].back = OpenBack /\ route = "target"
  BY <1>1, CurrentIs DEF FinishProven
<1>4. OpenBack = NoStep
  <2>1. sweeper[w].err # "unsafe" /\ ~Serves("source", H) /\ ~TargetServes(sweeper[w], H)
    BY <1>1, <1>3 DEF FinishProven, Serves
  <2> QED BY <1>1, <1>3, <2>1 DEF FinishProven, UndoProven
<1>5. Unturned
  <2>1. "ROLLBACK_ACTIVATE_SOURCE_ROUTE" \in RollbackSteps
    BY StepSets
  <2>2. step["ROLLBACK_ACTIVATE_SOURCE_ROUTE"] \notin {"FAILED", "RUNNING", "PENDING"}
    <3>1. OpenBack \notin RollbackSteps
      BY <1>4, StepsDisjoint DEF Steps
    <3> QED BY <2>1, <3>1, OpenIs
  <2>3. step["ROLLBACK_ACTIVATE_SOURCE_ROUTE"] \notin {"SKIPPED", "SUCCEEDED"}
    BY <1>2, <1>3, <2>1, OpenUnturned DEF Sound, ServingInv, OrderInv, NotSkipped
  <2>4. step["ROLLBACK_ACTIVATE_SOURCE_ROUTE"] = "ABSENT"
    BY <2>1, <2>2, <2>3 DEF SweepInv, TypeInv, TypeOK, StepType, Steps
  <2> QED BY <2>1, <2>4 DEF Sound, RowsInv, AllOrNone
<1>6. /\ OpenForward \in ForwardSteps /\ OpenForward \in Steps
      /\ step[OpenForward] \in {"FAILED", "RUNNING", "PENDING"}
  BY <1>3, OpenIs DEF Steps
<1>7. FitRows /\ step' = [step EXCEPT ![OpenForward] = "PENDING"]
  BY <1>1, <1>3, <1>5, <1>6, ReopenedFits
<1>8. status' = "RUNNING" /\ job' = "QUEUED" /\ desired' = desired
  BY <1>1 DEF ReopenFor
<1>9. FitStatus
  BY <1>3, <1>5, <1>8 DEF FitStatus
<1>10. Served'
  <2> SUFFICES ASSUME Clean, step'["FINALIZE"] = "SUCCEEDED" PROVE FALSE
    BY <1>2 DEF Served, Done, Clean
  <2>1. step["FINALIZE"] = "SUCCEEDED" /\ OpenForward # "FINALIZE"
    BY <1>6, <1>7, StepSets DEF SweepInv, TypeInv, TypeOK, StepType, Steps
  <2>2. \A s \in ForwardSteps \ {"FINALIZE"} : step[s] = "SUCCEEDED"
    BY <2>1, BehindForward DEF Sound, ServingInv, At
  <2> QED BY <1>6, <2>1, <2>2
<1>11. RolledBackMeansRestored' /\ SucceededMeansServed'
  BY <1>8 DEF RolledBackMeansRestored, SucceededMeansServed
<1> QED BY <1>0, <1>7, <1>9, <1>10, <1>11, RulingSound

-----------------------------------------------------------------------------
(**************************** the promises *********************************)

\* What is known of a ruling that is not a resumption from what was out of date.
LEMMA RulingKeeps ==
  ASSUME Sound, SweepInv, TypeInv', ~stale', NEW w \in Sweepers, NEW H, Ruling(w, H)
  PROVE  Sound'
BY SweptSuccess, SweptCancel, SweptRollback, ResumedRollback, ResumedForward DEF Ruling

\* As long as nobody resumes from what was out of date, everything said holds.
Undeceived == stale \/ Sound
\* Every step of switch and sweepers keeps it so.
LEMMA SoundKept ==
  ASSUME SweepInv, Undeceived, [NextR]_allVars PROVE Undeceived'
<1> SUFFICES ASSUME ~stale' PROVE Sound'
  BY DEF Undeceived
<1>0. SweepInv' /\ TypeInv'
  BY TypesKept DEF SweepInv
<1>1. CASE UNCHANGED allVars
  <2>1. Still /\ Sound
    BY <1>1 DEF allVars, sweepVars, vars, Still, workerVars, boundVars, Undeceived
  <2>2. ClaimedBefore'
    BY <1>1, <2>1 DEF allVars, sweepVars, vars, operationVars, Sound, ClaimedBefore
  <2> QED BY <1>0, <2>1, <2>2, StillSound
<1>2. CASE SwitchStep
  BY <1>0, <1>2, SwitchSound DEF SwitchStep, Undeceived
<1>3. ASSUME NEW w \in Sweepers, SweepStep(w) \/ SweeperCrash(w) PROVE Sound'
  <2>1. CASE /\ Calm
             /\ \/ /\ status = "MANUAL_INTERVENTION_REQUIRED"
                   /\ sweeper' = [sweeper EXCEPT ![w] = Facts]
                \/ sweeper' = [sweeper EXCEPT ![w] = Resting]
    BY <1>0, <2>1, CalmSound DEF Calm, Undeceived
  <2>2. CASE \E H \in SUBSET {d \in Deployments : Runs(d)} : Ruling(w, H)
    <3>1. PICK H : Ruling(w, H)
      BY <2>2
    <3>2. Sound
      BY <3>1, RulingIs DEF Undeceived
    <3> QED BY <1>0, <3>1, <3>2, RulingKeeps
  <2> QED BY <1>3, <2>1, <2>2, SweepIs
<1> QED BY <1>1, <1>2, <1>3 DEF NextR

\* So it is always so.
LEMMA UndeceivedHolds == SpecR => [](SweepInv /\ Undeceived)
<1>1. InitR => SweepInv /\ Undeceived
  BY TypesAtStart, SoundAtStart DEF Undeceived
<1> QED BY <1>1, TypesKept, SoundKept, PTL DEF SpecR

\* ColdReconcile!PromisesKept: what the switch promises while nobody reconciles it, it keeps
\* with any number of sweepers that end and resume it, crash and oversleep, as long as none
\* resumes it from facts that are out of date: it routes to Target only what it has probed,
\* never runs both models, never serves from a stopped one, and its endings mean what they say.
THEOREM PromisesSwept == SpecR => []PromisesKept
<1>1. SweepInv /\ Undeceived => PromisesKept
  <2> SUFFICES ASSUME SweepInv, Sound
               PROVE  /\ RoutedOnlyAfterProbe /\ NoOverlap /\ NoTrafficToStoppedModel
                      /\ SucceededMeansServed /\ RolledBackMeansRestored /\ HarmlessEndings
    BY DEF Undeceived, PromisesKept
  <2>1. RoutedOnlyAfterProbe
    BY DEF Sound, ServingInv, NodeInv, RoutedAfter, RoutedOnlyAfterProbe, Before
  <2>2. NoOverlap /\ NoTrafficToStoppedModel
    BY DEF Sound, ServingInv, NodeInv, RouteInv
  <2>3. SucceededMeansServed /\ RolledBackMeansRestored
    BY DEF Sound, EndingInv
  <2>4. HarmlessEndings
    <3> SUFFICES ASSUME OnTime, edits = 0, status \in {"FAILED", "CANCELLED"}
                 PROVE  traffic = "SERVING" /\ route = "source" /\ cont["source"] = "running"
      BY DEF HarmlessEndings
    <3>1. traffic = "SERVING" /\ ~boundary
      BY DEF Sound, EndingInv, Unharmed, Ineffective
    <3>2. cont["source"] = "running"
      BY <3>1 DEF Sound, ServingInv, NodeInv, Uncrossed
    <3>3. route # "target"
      BY <3>1 DEF Sound, ServingInv, NodeInv, RoutedAfter, Past, Done, Before, Clean, OnTime
    <3>4. route \in Deployments
      BY DEF Sound, EndingInv, OwnRoute
    <3> QED BY <3>1, <3>2, <3>3, <3>4 DEF Deployments
  <2> QED BY <2>1, <2>2, <2>3, <2>4
<1> QED BY <1>1, UndeceivedHolds, PTL

\* ColdReconcile!EndsAsItIs: a sweeper moves only what is with the operator, and what it ends
\* is, on the node, at the gateway and in the rows, what it then says.
THEOREM SweptAsItIs == SpecR => EndsAsItIs
<1> DEFINE AsItIs ==
      sweeper' # sweeper /\ status' # status =>
        /\ ByOperator
        /\ Clean' /\ ~stale =>
             /\ status' = "SUCCEEDED"   => /\ ServesAlone("target", "source")
                                           /\ cont["source"] # "running" /\ gw.active = "target"
             /\ status' = "ROLLED_BACK" => /\ ServesAlone("source", "target")
                                           /\ cont["target"] # "running" /\ gw.active = "source"
             /\ status' = "CANCELLED"   => /\ ~boundary /\ route = "source"
                                           /\ cont["source"] = "running"
<1>1. ASSUME SweepInv, Undeceived, [NextR]_allVars PROVE AsItIs
  <2> SUFFICES ASSUME sweeper' # sweeper, status' # status PROVE AsItIs
    OBVIOUS
  <2>1. PICK w \in Sweepers : SweepStep(w) \/ SweeperCrash(w)
    BY <1>1 DEF NextR, SwitchStep, allVars, sweepVars
  <2>2. PICK H : Ruling(w, H)
    BY <2>1, SweepIs DEF Calm, operationVars
  <2>3. /\ ByOperator /\ (Clean' <=> Clean)
        /\ ServesAlone("target", "source")' <=> ServesAlone("target", "source")
        /\ ServesAlone("source", "target")' <=> ServesAlone("source", "target")
    BY <2>2, RulingIs DEF ByOperator, boundVars, routingVars, Clean, ServesAlone
  <2>4. CASE ~stale
    <3>0. Sound /\ TypeInv'
      BY <1>1, <2>4, TypesKept DEF Undeceived, SweepInv
    <3>1. CASE SweepSucceeds(w, H)
      BY <1>1, <2>3, <3>0, <3>1, SweptSuccess DEF SweepSucceeds
    <3>2. CASE SweepCancels(w, H)
      BY <1>1, <2>3, <3>0, <3>2, SweptCancel DEF SweepCancels
    <3>3. CASE SweepRollsBack(w, H)
      BY <1>1, <2>3, <3>0, <3>3, SweptRollback DEF SweepRollsBack
    <3>4. CASE ResumeRollback(w, H) \/ ResumeForward(w, H)
      BY <2>3, <3>4 DEF ResumeRollback, ResumeForward, ReopenFor
    <3> QED BY <2>2, <3>1, <3>2, <3>3, <3>4 DEF Ruling
  <2> QED BY <2>3, <2>4
<1>2. SweepInv /\ Undeceived /\ [NextR]_allVars => [AsItIs]_allVars
  BY <1>1
<1> QED BY <1>2, UndeceivedHolds, PTL DEF SpecR, EndsAsItIs

-----------------------------------------------------------------------------
(************** what no sweeper can spoil, out of date or not **************)

\* Whatever a sweeper decides, it touches neither endpoint nor node, gateway, boundary or wish.
LEMMA HandsOff ==
  ASSUME [NextR]_allVars
  PROVE  \/ [Next]_vars
         \/ UNCHANGED <<cancel, boundary, routingVars, nodeVars, gatewayVars>>
<1>1. CASE UNCHANGED allVars
  BY <1>1 DEF allVars
<1>2. CASE SwitchStep
  BY <1>2 DEF SwitchStep, BestEffortFails, operationVars
<1>3. ASSUME NEW w \in Sweepers, SweepStep(w) \/ SweeperCrash(w)
      PROVE  UNCHANGED <<cancel, boundary, routingVars, nodeVars, gatewayVars>>
  <2>1. CASE Calm
    BY <2>1 DEF Calm, operationVars
  <2>2. CASE \E H \in SUBSET {d \in Deployments : Runs(d)} : Ruling(w, H)
    BY <2>2, RulingIs
  <2> QED BY <1>3, <2>1, <2>2, SweepIs
<1> QED BY <1>1, <1>2, <1>3 DEF NextR

\* ColdSwitch!AppliedVersionIsTruth, with the sweepers: what they compare with the rows is the
\* gateway's version, and it stands for the rows as of that version.
THEOREM VersionSwept == SpecR => []AppliedVersionIsTruth
<1>1. InitR => SweepInv /\ VersionInv
  BY TypesAtStart, VersionInit DEF InitR
<1>2. ASSUME SweepInv, VersionInv, [NextR]_allVars PROVE VersionInv'
  <2>1. CASE [Next]_vars
    BY <1>2, <2>1, VersionStep DEF SweepInv
  <2>2. CASE UNCHANGED <<cancel, boundary, routingVars, nodeVars, gatewayVars>>
    BY <1>2, <2>2 DEF VersionInv, AppliedVersionIsTruth, routingVars, gatewayVars
  <2> QED BY <1>2, <2>1, <2>2, HandsOff
<1>3. VersionInv => AppliedVersionIsTruth
  BY DEF VersionInv
<1> QED BY <1>1, <1>2, <1>3, TypesKept, PTL DEF SpecR

\* ColdSwitch!CancelBeatsBoundary, with the sweepers: resumed as often as may be, a cancelled
\* operation that has not crossed the boundary does not cross it.
THEOREM CancelWinsSwept == SpecR => CancelBeatsBoundary
<1>1. [NextR]_allVars => [cancel /\ ~boundary => ~boundary']_vars
  BY HandsOff, BoundaryStep
<1> QED BY <1>1, PTL DEF SpecR, CancelBeatsBoundary

\* ColdSwitch!ThirdPartyRouteKept, with the sweepers: none of them takes the endpoint away
\* from a deployment that is neither Source nor Target, nor makes a worker do so.
THEOREM ThirdPartySwept == SpecR => ThirdPartyRouteKept
<1>1. ASSUME SweepInv, [NextR]_allVars
      PROVE  [route = "other" /\ pc # "idle" => route' = "other"]_vars
  <2>1. CASE [Next]_vars
    BY <1>1, <2>1, MovesStep DEF SweepInv, RoutingMoves, SetTraffic, SetRoute, StartReload,
      FinishReload, operationVars, routingVars
  <2>2. CASE UNCHANGED <<cancel, boundary, routingVars, nodeVars, gatewayVars>>
    BY <2>2 DEF routingVars
  <2> QED BY <1>1, <2>1, <2>2, HandsOff
<1> QED BY <1>1, TypesAtStart, TypesKept, PTL DEF SpecR, ThirdPartyRouteKept

\* ColdSwitch!DrainedBeforeStop, with the sweepers: Source is stopped past the boundary only
\* and with no request in flight, unless a sweeper resumed from what was out of date.
THEOREM StopsDrainedSwept ==
  SpecR => [][~stale /\ OnTime' /\ cont["source"] = "running" /\ cont'["source"] # "running"
                => boundary /\ infl["source"] = 0]_vars
<1>1. ASSUME SweepInv, Undeceived, [NextR]_allVars
      PROVE  [~stale /\ OnTime' /\ cont["source"] = "running" /\ cont'["source"] # "running"
                => boundary /\ infl["source"] = 0]_vars
  <2>1. CASE [Next]_vars
    BY <1>1, <2>1, DrainStep DEF Undeceived, Sound
  <2>2. CASE UNCHANGED <<cancel, boundary, routingVars, nodeVars, gatewayVars>>
    BY <2>2 DEF nodeVars
  <2> QED BY <1>1, <2>1, <2>2, HandsOff
<1> QED BY <1>1, UndeceivedHolds, PTL DEF SpecR

=============================================================================
