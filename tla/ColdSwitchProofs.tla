-------------------------- MODULE ColdSwitchProofs --------------------------
(***************************************************************************)
(* Theorems of ColdSwitch, for every value of its constants: types, the    *)
(* meaning of the gateway's version, and three promises of the operation   *)
(* about cancellation, third-party routes and rollback.                    *)
(***************************************************************************)
EXTENDS ColdSwitch, TLAPS

-----------------------------------------------------------------------------
(*************************** the tables of steps ***************************)

\* The step tables are well typed: a traffic step names a traffic state, an activation
\* a deployment, a command a deployment and what to make of it (cold_switch.py:113-128).
LEMMA TablesType ==
  /\ \A s \in DOMAIN TrafficOf : TrafficOf[s] \in Traffics
  /\ \A s \in DOMAIN ActivateOf : ActivateOf[s] \in Deployments
  /\ \A s \in DOMAIN CommandOf :
       CommandOf[s] \in [dep : Deployments, to : {"stopped", "running"}]
  /\ \A s \in DOMAIN VersionFrom : VersionFrom[s] \in Recorded
  /\ DOMAIN TrafficOf \subseteq Recorded
  /\ DOMAIN ActivateOf \subseteq Recorded
  /\ "STOP_SOURCE" \in DOMAIN CommandOf
<1>1. \A s \in DOMAIN TrafficOf : TrafficOf[s] \in Traffics
  BY DEF TrafficOf, Traffics
<1>2. \A s \in DOMAIN ActivateOf : ActivateOf[s] \in Deployments
  BY DEF ActivateOf, Deployments
<1>3. \A s \in DOMAIN CommandOf :
        CommandOf[s] \in [dep : Deployments, to : {"stopped", "running"}]
  BY DEF CommandOf, Deployments
<1>4. \A s \in DOMAIN VersionFrom : VersionFrom[s] \in Recorded
  BY DEF VersionFrom, Recorded, TrafficOf, ActivateOf
<1>5. DOMAIN TrafficOf \subseteq Recorded /\ DOMAIN ActivateOf \subseteq Recorded
  BY DEF Recorded
<1>6. "STOP_SOURCE" \in DOMAIN CommandOf
  BY DEF CommandOf
<1> QED BY <1>1, <1>2, <1>3, <1>4, <1>5, <1>6

\* The two sequences, spelled out as sets.
LEMMA StepSets ==
  /\ ForwardSteps = {"VALIDATE", "PREFLIGHT", "PREPARE_TARGET", "DRAIN_TRAFFIC",
       "STOP_SOURCE", "WAIT_VRAM_RELEASE", "START_TARGET", "WAIT_TARGET_HEALTH",
       "PROBE_TARGET", "ACTIVATE_TARGET_ROUTE", "WAIT_ROUTE_APPLY",
       "RESTORE_TRAFFIC", "WAIT_TRAFFIC_APPLY", "FINALIZE"}
  /\ RollbackSteps = {"ROLLBACK_BEGIN", "ROLLBACK_BLOCK_TRAFFIC",
       "ROLLBACK_STOP_TARGET", "ROLLBACK_START_SOURCE", "ROLLBACK_WAIT_SOURCE_HEALTH",
       "ROLLBACK_PROBE_SOURCE", "ROLLBACK_ACTIVATE_SOURCE_ROUTE",
       "ROLLBACK_WAIT_ROUTE_APPLY", "ROLLBACK_RESTORE_TRAFFIC", "ROLLBACK_FINALIZE"}
<1>1. DOMAIN Forward = 1 .. 14 BY DEF Forward
<1>2. DOMAIN Rollback = 1 .. 10 BY DEF Rollback
<1> QED BY <1>1, <1>2 DEF ForwardSteps, RollbackSteps, Forward, Rollback

\* No step belongs to both sequences, STOP_SOURCE and the steps whose failure starts
\* a rollback are forward steps, and "no step" is in neither.
LEMMA StepsDisjoint ==
  /\ ForwardSteps \cap RollbackSteps = {}
  /\ "STOP_SOURCE" \in ForwardSteps
  /\ RollbackEnterSteps \subseteq ForwardSteps
  /\ NoStep \notin Steps
BY StepSets DEF Steps, RollbackEnterSteps, NoStep

-----------------------------------------------------------------------------
(******************************** types ************************************)

\* What the types rest on: a container is commanded only in a step that commands one,
\* and the boundary is decided only in STOP_SOURCE.
PhaseOK ==
  /\ pc = "call" => cur \in DOMAIN CommandOf
  /\ pc = "decide" => cur = "STOP_SOURCE"
TypeInv == TypeOK /\ PhaseOK

\* An action that leaves the variables of a part of TypeOK alone keeps that part.
LEMMA PartsKept ==
  /\ JobType /\ UNCHANGED <<status, job, attempts, cancel, boundary>> => JobType'
  /\ StepType /\ UNCHANGED <<step, reqVer>> => StepType'
  /\ RoutingType /\ UNCHANGED <<traffic, route, ver>> => RoutingType'
  /\ DeployType /\ UNCHANGED <<rt, hl, desired>> => DeployType'
  /\ NodeType /\ UNCHANGED <<cont, late>> => NodeType'
  /\ GatewayType /\ UNCHANGED <<gw, load, infl>> => GatewayType'
  /\ WorkerType /\ UNCHANGED <<pc, cur, want>> => WorkerType'
  /\ BoundType /\ UNCHANGED <<faults, edits>> => BoundType'
  /\ HistoryType /\ UNCHANGED <<anomaly>> => HistoryType'
  /\ PhaseOK /\ UNCHANGED <<pc, cur>> => PhaseOK'
BY DEF JobType, StepType, RoutingType, DeployType, NodeType, GatewayType, WorkerType,
       BoundType, HistoryType, PhaseOK

\* The initial state of a switch request is well typed.
LEMMA TypeInit == Init => TypeInv
<1> SUFFICES ASSUME Init PROVE TypeInv OBVIOUS
<1>1. JobType BY DEF Init, JobType
<1>2. StepType BY DEF Init, StepType
<1>3. RoutingType BY DEF Init, RoutingType, Traffics, Routes, Deployments
<1>4. DeployType BY DEF Init, DeployType, RunningOnly
<1>5. NodeType BY DEF Init, NodeType
<1>6. GatewayType BY DEF Init, GatewayType, Snapshot, Traffics, Routes, Deployments
<1>7. WorkerType BY DEF Init, WorkerType, Phases
<1>8. BoundType /\ HistoryType BY DEF Init, BoundType, HistoryType
<1>9. PhaseOK BY DEF Init, PhaseOK
<1> QED BY <1>1, <1>2, <1>3, <1>4, <1>5, <1>6, <1>7, <1>8, <1>9 DEF TypeInv, TypeOK

\* Every action keeps the types: what it disturbs is shown part by part, the rest is
\* PartsKept.
LEMMA TypeStep == ASSUME TypeInv, [Next]_vars PROVE TypeInv'
<1> USE DEF operationVars, routingVars, deployVars, nodeVars, gatewayVars, workerVars,
            boundVars, OthersUnchanged
<1> JobType /\ StepType /\ RoutingType /\ DeployType /\ NodeType /\ GatewayType
      /\ WorkerType /\ BoundType /\ HistoryType /\ PhaseOK
  BY DEF TypeInv, TypeOK
<1>1. CASE Claim
  <2>1. JobType' BY <1>1 DEF Claim, JobType, Terminal
  <2>2. WorkerType' BY <1>1 DEF Claim, WorkerType, Phases
  <2>3. PhaseOK' BY <1>1, TablesType DEF Claim, PhaseOK
  <2> QED BY <1>1, <2>1, <2>2, <2>3, PartsKept DEF Claim, TypeInv, TypeOK
<1>2. CASE RecoverStale
  <2>1. JobType' BY <1>2 DEF RecoverStale, JobType, Terminal
  <2> QED BY <1>2, <2>1, PartsKept DEF RecoverStale, TypeInv, TypeOK
<1>3. CASE Resume
  <2>1. WorkerType' BY <1>3 DEF Resume, ResumeAt, WorkerType, Phases
  <2>2. PhaseOK' BY <1>3, TablesType DEF Resume, ResumeAt, PhaseOK
  <2> QED BY <1>3, <2>1, <2>2, PartsKept DEF Resume, TypeInv, TypeOK
<1>4. CASE ObserveCancel
  <2>1. WorkerType' BY <1>4 DEF ObserveCancel, WorkerType, Phases
  <2>2. PhaseOK' BY <1>4, TablesType DEF ObserveCancel, PhaseOK
  <2> QED BY <1>4, <2>1, <2>2, PartsKept DEF ObserveCancel, TypeInv, TypeOK
<1>5. CASE BeginForward
  <2>1. StepType' BY <1>5 DEF BeginForward, Begin, ForwardSteps, Steps, StepType
  <2>2. WorkerType' BY <1>5 DEF BeginForward, Begin, ForwardSteps, Steps, WorkerType,
      Phases
  <2>3. HistoryType' BY <1>5 DEF BeginForward, Begin, ForwardSteps, Steps, HistoryType
  <2>4. PhaseOK' BY <1>5, TablesType DEF BeginForward, Begin, PhaseOK
  <2> QED BY <1>5, <2>1, <2>2, <2>3, <2>4, PartsKept DEF BeginForward, TypeInv, TypeOK
<1>6. CASE FinalizeDesired
  <2>1. DeployType' BY <1>6 DEF FinalizeDesired, FinalDesired, RunningOnly, Deployments,
      DeployType
  <2>2. WorkerType' BY <1>6 DEF FinalizeDesired, FinalDesired, RunningOnly, Deployments,
      WorkerType, Phases
  <2>3. HistoryType' BY <1>6 DEF FinalizeDesired, FinalDesired, RunningOnly, Deployments,
      HistoryType
  <2>4. PhaseOK' BY <1>6, TablesType DEF FinalizeDesired, PhaseOK
  <2> QED BY <1>6, <2>1, <2>2, <2>3, <2>4, PartsKept DEF FinalizeDesired, TypeInv, TypeOK
<1>7. CASE Succeed
  <2>1. JobType' BY <1>7 DEF Succeed, Forget, JobType, Terminal
  <2>2. WorkerType' BY <1>7 DEF Succeed, Forget, WorkerType, Phases
  <2>3. PhaseOK' BY <1>7, TablesType DEF Succeed, Forget, PhaseOK
  <2> QED BY <1>7, <2>1, <2>2, <2>3, PartsKept DEF Succeed, TypeInv, TypeOK
<1>8. CASE EnterTraffic
  <2>1. RoutingType' BY <1>8, TablesType DEF EnterTraffic, SetTraffic, StepType,
      RoutingType
  <2>2. WorkerType' BY <1>8, TablesType DEF EnterTraffic, SetTraffic, StepType,
      RoutingType, WorkerType, Phases
  <2>3. PhaseOK' BY <1>8, TablesType DEF EnterTraffic, PhaseOK
  <2> QED BY <1>8, <2>1, <2>2, <2>3, PartsKept DEF EnterTraffic, SetTraffic, TypeInv,
      TypeOK
<1>9. CASE RecordVersion
  <2>1. StepType' BY <1>9 DEF RecordVersion, WorkerType, StepType
  <2>2. WorkerType' BY <1>9 DEF RecordVersion, WorkerType, Phases
  <2>3. PhaseOK' BY <1>9, TablesType DEF RecordVersion, PhaseOK
  <2> QED BY <1>9, <2>1, <2>2, <2>3, PartsKept DEF RecordVersion, TypeInv, TypeOK
<1>10. CASE ActivateRoute
  <2>1. StepType' BY <1>10, TablesType DEF ActivateRoute, SetRoute, Routes, StepType,
      RoutingType
  <2>2. RoutingType' BY <1>10, TablesType DEF ActivateRoute, SetRoute, Routes, StepType,
      RoutingType
  <2>3. WorkerType' BY <1>10, TablesType DEF ActivateRoute, SetRoute, Routes, StepType,
      RoutingType, WorkerType, Phases
  <2>4. PhaseOK' BY <1>10, TablesType DEF ActivateRoute, PhaseOK
  <2> QED BY <1>10, <2>1, <2>2, <2>3, <2>4, PartsKept DEF ActivateRoute, SetRoute,
      TypeInv, TypeOK
<1>11. CASE StartWait
  <2>1. WorkerType' BY <1>11, TablesType DEF StartWait, StepType, RoutingType,
      WorkerType, Phases
  <2>2. PhaseOK' BY <1>11, TablesType DEF StartWait, PhaseOK
  <2> QED BY <1>11, <2>1, <2>2, PartsKept DEF StartWait, TypeInv, TypeOK
<1>12. CASE WaitSatisfied
  <2>1. WorkerType' BY <1>12 DEF WaitSatisfied, WorkerType, Phases
  <2>2. PhaseOK' BY <1>12, TablesType DEF WaitSatisfied, PhaseOK
  <2> QED BY <1>12, <2>1, <2>2, PartsKept DEF WaitSatisfied, TypeInv, TypeOK
<1>13. CASE WaitTimesOut
  <2>1. RoutingType' BY <1>13 DEF WaitTimesOut, SetTraffic, Traffics, RoutingType
  <2>2. WorkerType' BY <1>13 DEF WaitTimesOut, SetTraffic, Traffics, WorkerType, Phases
  <2>3. PhaseOK' BY <1>13, TablesType DEF WaitTimesOut, PhaseOK
  <2> QED BY <1>13, <2>1, <2>2, <2>3, PartsKept DEF WaitTimesOut, SetTraffic, TypeInv,
      TypeOK
<1>14. CASE FailTimedOut
  <2>1. StepType' BY <1>14 DEF FailTimedOut, StepType
  <2>2. WorkerType' BY <1>14 DEF FailTimedOut, WorkerType, Phases
  <2>3. PhaseOK' BY <1>14, TablesType DEF FailTimedOut, PhaseOK
  <2> QED BY <1>14, <2>1, <2>2, <2>3, PartsKept DEF FailTimedOut, TypeInv, TypeOK
<1>15. CASE DecideBoundary
  <2>1. JobType' BY <1>15, TablesType DEF DecideBoundary, JobType, Terminal
  <2>2. WorkerType' BY <1>15, TablesType DEF DecideBoundary, WorkerType, Phases
  <2>3. HistoryType' BY <1>15, TablesType DEF DecideBoundary, HistoryType
  <2>4. PhaseOK' BY <1>15, TablesType DEF DecideBoundary, PhaseOK
  <2> QED BY <1>15, <2>1, <2>2, <2>3, <2>4, PartsKept DEF DecideBoundary, TypeInv, TypeOK
<1>16. CASE CallSucceeds
  <2>1. NodeType' BY <1>16, TablesType DEF CallSucceeds, NodeType, PhaseOK
  <2>2. WorkerType' BY <1>16, TablesType DEF CallSucceeds, WorkerType, Phases
  <2>3. PhaseOK' BY <1>16, TablesType DEF CallSucceeds, PhaseOK
  <2> QED BY <1>16, <2>1, <2>2, <2>3, PartsKept DEF CallSucceeds, TypeInv, TypeOK
<1>17. CASE RetryableError
  <2>1. JobType' BY <1>17, TablesType DEF RetryableError, Fault, LosesAnswer, Forget,
      JobType, Terminal
  <2>2. StepType' BY <1>17, TablesType DEF RetryableError, Fault, LosesAnswer, Forget,
      StepType
  <2>3. DeployType' BY <1>17, TablesType DEF RetryableError, Fault, LosesAnswer, Forget,
      DeployType
  <2>4. NodeType' BY <1>17, TablesType DEF RetryableError, Fault, LosesAnswer, Forget,
      NodeType, PhaseOK
  <2>5. WorkerType' BY <1>17, TablesType DEF RetryableError, Fault, LosesAnswer, Forget,
      WorkerType, Phases
  <2>6. BoundType' BY <1>17, TablesType, BoundsAssumption DEF RetryableError, Fault,
      BoundType
  <2>7. PhaseOK' BY <1>17, TablesType DEF RetryableError, Fault, Forget, PhaseOK
  <2> QED BY <1>17, <2>1, <2>2, <2>3, <2>4, <2>5, <2>6, <2>7, PartsKept DEF
      RetryableError, Fault, TypeInv, TypeOK
<1>18. CASE PermanentError
  <2>1. StepType' BY <1>18 DEF PermanentError, Fault, StepType
  <2>2. DeployType' BY <1>18 DEF PermanentError, Fault, DeployType
  <2>3. WorkerType' BY <1>18 DEF PermanentError, Fault, WorkerType, Phases
  <2>4. BoundType' BY <1>18, BoundsAssumption DEF PermanentError, Fault, BoundType
  <2>5. PhaseOK' BY <1>18, TablesType DEF PermanentError, Fault, PhaseOK
  <2> QED BY <1>18, <2>1, <2>2, <2>3, <2>4, <2>5, PartsKept DEF PermanentError, Fault,
      TypeInv, TypeOK
<1>19. CASE UnexpectedError
  <2>1. StepType' BY <1>19 DEF UnexpectedError, Fault, StepType
  <2>2. WorkerType' BY <1>19 DEF UnexpectedError, Fault, WorkerType, Phases
  <2>3. BoundType' BY <1>19, BoundsAssumption DEF UnexpectedError, Fault, BoundType
  <2>4. PhaseOK' BY <1>19, TablesType DEF UnexpectedError, Fault, PhaseOK
  <2> QED BY <1>19, <2>1, <2>2, <2>3, <2>4, PartsKept DEF UnexpectedError, Fault,
      TypeInv, TypeOK
<1>20. CASE MarkRuntime
  <2>1. DeployType' BY <1>20 DEF MarkRuntime, DeployType
  <2>2. WorkerType' BY <1>20 DEF MarkRuntime, WorkerType, Phases
  <2>3. PhaseOK' BY <1>20, TablesType DEF MarkRuntime, PhaseOK
  <2> QED BY <1>20, <2>1, <2>2, <2>3, PartsKept DEF MarkRuntime, TypeInv, TypeOK
<1>21. CASE CheckPasses
  <2>1. DeployType' BY <1>21 DEF CheckPasses, Deployments, RunningOnly, DeployType
  <2>2. NodeType' BY <1>21 DEF CheckPasses, Deployments, RunningOnly, NodeType
  <2>3. WorkerType' BY <1>21 DEF CheckPasses, Deployments, RunningOnly, WorkerType,
      Phases
  <2>4. PhaseOK' BY <1>21, TablesType DEF CheckPasses, PhaseOK
  <2> QED BY <1>21, <2>1, <2>2, <2>3, <2>4, PartsKept DEF CheckPasses, TypeInv, TypeOK
<1>22. CASE CheckFails
  <2>1. StepType' BY <1>22 DEF CheckFails, StepType
  <2>2. DeployType' BY <1>22 DEF CheckFails, DeployType
  <2>3. WorkerType' BY <1>22 DEF CheckFails, WorkerType, Phases
  <2>4. PhaseOK' BY <1>22, TablesType DEF CheckFails, PhaseOK
  <2> QED BY <1>22, <2>1, <2>2, <2>3, <2>4, PartsKept DEF CheckFails, TypeInv, TypeOK
<1>23. CASE Commit
  <2>1. StepType' BY <1>23 DEF Commit, WorkerType, StepType
  <2>2. WorkerType' BY <1>23 DEF Commit, WorkerType, Phases
  <2>3. PhaseOK' BY <1>23, TablesType DEF Commit, PhaseOK
  <2> QED BY <1>23, <2>1, <2>2, <2>3, PartsKept DEF Commit, TypeInv, TypeOK
<1>24. CASE StopSourceFailed
  <2>1. JobType' BY <1>24 DEF StopSourceFailed, Fault, JobType, Terminal
  <2>2. DeployType' BY <1>24 DEF StopSourceFailed, Fault, DeployType
  <2>3. WorkerType' BY <1>24 DEF StopSourceFailed, Fault, WorkerType, Phases
  <2>4. BoundType' BY <1>24, BoundsAssumption DEF StopSourceFailed, Fault, BoundType
  <2>5. PhaseOK' BY <1>24, TablesType DEF StopSourceFailed, Fault, PhaseOK
  <2> QED BY <1>24, <2>1, <2>2, <2>3, <2>4, <2>5, PartsKept DEF StopSourceFailed, Fault,
      TypeInv, TypeOK
<1>25. CASE StepFailed
  <2>1. WorkerType' BY <1>25 DEF StepFailed, WorkerType, Phases
  <2>2. PhaseOK' BY <1>25, TablesType DEF StepFailed, PhaseOK
  <2> QED BY <1>25, <2>1, <2>2, PartsKept DEF StepFailed, TypeInv, TypeOK
<1>26. CASE BlockForOperator
  <2>1. RoutingType' BY <1>26 DEF BlockForOperator, SetTraffic, TrafficAtEnd, Traffics,
      RoutingType
  <2>2. WorkerType' BY <1>26 DEF BlockForOperator, SetTraffic, TrafficAtEnd, Traffics,
      WorkerType, Phases
  <2>3. PhaseOK' BY <1>26, TablesType DEF BlockForOperator, PhaseOK
  <2> QED BY <1>26, <2>1, <2>2, <2>3, PartsKept DEF BlockForOperator, SetTraffic,
      TypeInv, TypeOK
<1>27. CASE Escalate
  <2>1. JobType' BY <1>27 DEF Escalate, Forget, JobType, Terminal
  <2>2. WorkerType' BY <1>27 DEF Escalate, Forget, WorkerType, Phases
  <2>3. PhaseOK' BY <1>27, TablesType DEF Escalate, Forget, PhaseOK
  <2> QED BY <1>27, <2>1, <2>2, <2>3, PartsKept DEF Escalate, TypeInv, TypeOK
<1>28. CASE Reopen
  <2>1. RoutingType' BY <1>28 DEF Reopen, SetTraffic, TrafficAtEnd, Traffics, RoutingType
  <2>2. WorkerType' BY <1>28 DEF Reopen, SetTraffic, TrafficAtEnd, Traffics, WorkerType,
      Phases
  <2>3. PhaseOK' BY <1>28, TablesType DEF Reopen, PhaseOK
  <2> QED BY <1>28, <2>1, <2>2, <2>3, PartsKept DEF Reopen, SetTraffic, TypeInv, TypeOK
<1>29. CASE Fail
  <2>1. JobType' BY <1>29 DEF Fail, Forget, JobType, Terminal
  <2>2. WorkerType' BY <1>29 DEF Fail, Forget, WorkerType, Phases
  <2>3. PhaseOK' BY <1>29, TablesType DEF Fail, Forget, PhaseOK
  <2> QED BY <1>29, <2>1, <2>2, <2>3, PartsKept DEF Fail, TypeInv, TypeOK
<1>30. CASE RestoreForCancel
  <2>1. RoutingType' BY <1>30 DEF RestoreForCancel, SetTraffic, Traffics, RoutingType
  <2>2. WorkerType' BY <1>30 DEF RestoreForCancel, SetTraffic, Traffics, RoutingType,
      WorkerType, Phases
  <2>3. PhaseOK' BY <1>30, TablesType DEF RestoreForCancel, PhaseOK
  <2> QED BY <1>30, <2>1, <2>2, <2>3, PartsKept DEF RestoreForCancel, SetTraffic,
      TypeInv, TypeOK
<1>31. CASE RestoreTimesOut
  <2>1. WorkerType' BY <1>31 DEF RestoreTimesOut, WorkerType, Phases
  <2>2. PhaseOK' BY <1>31, TablesType DEF RestoreTimesOut, PhaseOK
  <2> QED BY <1>31, <2>1, <2>2, PartsKept DEF RestoreTimesOut, TypeInv, TypeOK
<1>32. CASE CancelOperation
  <2>1. JobType' BY <1>32 DEF CancelOperation, Forget, SkipOpen, JobType, Terminal
  <2>2. StepType' BY <1>32 DEF CancelOperation, Forget, SkipOpen, StepType
  <2>3. WorkerType' BY <1>32 DEF CancelOperation, Forget, SkipOpen, WorkerType, Phases
  <2>4. PhaseOK' BY <1>32, TablesType DEF CancelOperation, Forget, PhaseOK
  <2> QED BY <1>32, <2>1, <2>2, <2>3, <2>4, PartsKept DEF CancelOperation, TypeInv,
      TypeOK
<1>33. CASE MarkRollingBack
  <2>1. JobType' BY <1>33 DEF MarkRollingBack, JobType, Terminal
  <2>2. WorkerType' BY <1>33 DEF MarkRollingBack, WorkerType, Phases
  <2>3. PhaseOK' BY <1>33, TablesType DEF MarkRollingBack, PhaseOK
  <2> QED BY <1>33, <2>1, <2>2, <2>3, PartsKept DEF MarkRollingBack, TypeInv, TypeOK
<1>34. CASE EnsureRollback
  <2>1. StepType' BY <1>34 DEF EnsureRollback, SetTraffic, Traffics, SkipOpen, StepType
  <2>2. RoutingType'
    <3>1. SetTraffic("MAINTENANCE") BY <1>34 DEF EnsureRollback
    <3> QED BY <3>1 DEF SetTraffic, Traffics, RoutingType
  <2>3. WorkerType' BY <1>34 DEF EnsureRollback, SetTraffic, Traffics, SkipOpen,
      WorkerType, Phases
  <2>4. HistoryType' BY <1>34 DEF EnsureRollback, HistoryType
  <2>5. PhaseOK' BY <1>34, TablesType DEF EnsureRollback, PhaseOK
  <2> QED BY <1>34, <2>1, <2>2, <2>3, <2>4, <2>5, PartsKept DEF EnsureRollback,
      SetTraffic, TypeInv, TypeOK
<1>35. CASE BeginRollback
  <2>1. StepType' BY <1>35 DEF BeginRollback, Begin, RollbackSteps, Steps, StepType
  <2>2. WorkerType' BY <1>35 DEF BeginRollback, Begin, RollbackSteps, Steps, WorkerType,
      Phases
  <2>3. PhaseOK' BY <1>35, TablesType DEF BeginRollback, Begin, PhaseOK
  <2> QED BY <1>35, <2>1, <2>2, <2>3, PartsKept DEF BeginRollback, TypeInv, TypeOK
<1>36. CASE FinishRollback
  <2>1. JobType' BY <1>36 DEF FinishRollback, Forget, JobType, Terminal
  <2>2. WorkerType' BY <1>36 DEF FinishRollback, Forget, WorkerType, Phases
  <2>3. PhaseOK' BY <1>36, TablesType DEF FinishRollback, Forget, PhaseOK
  <2> QED BY <1>36, <2>1, <2>2, <2>3, PartsKept DEF FinishRollback, TypeInv, TypeOK
<1>37. CASE Crash
  <2>1. WorkerType' BY <1>37 DEF Crash, Fault, Forget, WorkerType, Phases
  <2>2. BoundType'
    <3>1. Fault("crash") BY <1>37 DEF Crash
    <3> QED BY <3>1, BoundsAssumption DEF Fault, BoundType
  <2>3. HistoryType' BY <1>37 DEF Crash, Fault, HistoryType
  <2>4. PhaseOK' BY <1>37, TablesType DEF Crash, Fault, Forget, PhaseOK
  <2> QED BY <1>37, <2>1, <2>2, <2>3, <2>4, PartsKept DEF Crash, Fault, TypeInv, TypeOK
<1>38. CASE RequestCancel
  <2>1. JobType' BY <1>38 DEF RequestCancel, SkipOpen, JobType, Terminal
  <2>2. StepType' BY <1>38 DEF RequestCancel, SkipOpen, StepType
  <2> QED BY <1>38, <2>1, <2>2, PartsKept DEF RequestCancel, TypeInv, TypeOK
<1>39. CASE OperatorSetsRoute
  <2>1. RoutingType' BY <1>39 DEF OperatorSetsRoute, SetRoute, RoutingType
  <2>2. BoundType' BY <1>39, BoundsAssumption DEF OperatorSetsRoute, BoundType
  <2> QED BY <1>39, <2>1, <2>2, PartsKept DEF OperatorSetsRoute, SetRoute, TypeInv,
      TypeOK
<1>40. CASE LateEffect
  <2>1. NodeType' BY <1>40 DEF LateEffect, NodeType
  <2>2. HistoryType' BY <1>40 DEF LateEffect, HistoryType, TypeInv, TypeOK
  <2> QED BY <1>40, <2>1, <2>2, PartsKept DEF LateEffect, TypeInv, TypeOK
<1>41. CASE StartReload
  <2>1. GatewayType' BY <1>41 DEF StartReload, RoutingType, GatewayType
  <2> QED BY <1>41, <2>1, PartsKept DEF StartReload, TypeInv, TypeOK
<1>42. CASE FinishReload
  <2>1. GatewayType' BY <1>42 DEF FinishReload, RoutingType, Loaded, Snapshot,
      GatewayType
  <2> QED BY <1>42, <2>1, PartsKept DEF FinishReload, TypeInv, TypeOK
<1>43. CASE Admit
  <2>1. GatewayType' BY <1>43 DEF Admit, GatewayType
  <2> QED BY <1>43, <2>1, PartsKept DEF Admit, TypeInv, TypeOK
<1>44. CASE Release
  <2>1. GatewayType' BY <1>44 DEF Release, GatewayType
  <2> QED BY <1>44, <2>1, PartsKept DEF Release, TypeInv, TypeOK
<1>45. CASE UNCHANGED vars
  BY <1>45, PartsKept DEF vars, TypeInv, TypeOK
<1> QED BY <1>1, <1>2, <1>3, <1>4, <1>5, <1>6, <1>7, <1>8, <1>9, <1>10, <1>11, <1>12,
           <1>13, <1>14, <1>15, <1>16, <1>17, <1>18, <1>19, <1>20, <1>21, <1>22,
           <1>23, <1>24, <1>25, <1>26, <1>27, <1>28, <1>29, <1>30, <1>31, <1>32,
           <1>33, <1>34, <1>35, <1>36, <1>37, <1>38, <1>39, <1>40, <1>41, <1>42,
           <1>43, <1>44, <1>45
        DEF Next, WorkerStep

\* ColdSwitch!TypeOK, for every value of the constants.
THEOREM Typing == Spec => []TypeOK
<1>1. TypeInv => TypeOK BY DEF TypeInv
<1> QED BY <1>1, TypeInit, TypeStep, PTL DEF Spec

-----------------------------------------------------------------------------
(************************ the version and the rows *************************)

\* Every change of the routing rows goes through SetTraffic or SetRoute, and only the
\* operator, with no worker about, moves the route of a third party.
RoutingMoves ==
  \/ UNCHANGED <<traffic, route, ver, gw, load>>
  \/ (\E t \in Traffics : SetTraffic(t)) /\ UNCHANGED <<gw, load>>
  \/ (\E r \in Routes : SetRoute(r)) /\ (route = "other" => pc = "idle")
        /\ UNCHANGED <<gw, load>>
  \/ StartReload
  \/ FinishReload

\* Each action of the specification is one of these moves (cold_switch.py:153-176).
LEMMA MovesStep == ASSUME TypeInv, [Next]_vars PROVE RoutingMoves
<1> USE DEF operationVars, routingVars, deployVars, nodeVars, gatewayVars, workerVars,
            boundVars, OthersUnchanged
<1>1. CASE Claim
  BY <1>1 DEF Claim, RoutingMoves
<1>2. CASE RecoverStale
  BY <1>2 DEF RecoverStale, RoutingMoves
<1>3. CASE Resume
  BY <1>3 DEF Resume, RoutingMoves
<1>4. CASE ObserveCancel
  BY <1>4 DEF ObserveCancel, RoutingMoves
<1>5. CASE BeginForward
  BY <1>5 DEF BeginForward, RoutingMoves
<1>6. CASE FinalizeDesired
  BY <1>6 DEF FinalizeDesired, RoutingMoves
<1>7. CASE Succeed
  BY <1>7 DEF Succeed, RoutingMoves
<1>8. CASE EnterTraffic
  <2>1. SetTraffic(TrafficOf[cur]) /\ UNCHANGED <<gw, load>> BY <1>8 DEF EnterTraffic
  <2>2. TrafficOf[cur] \in Traffics BY <1>8, TablesType DEF EnterTraffic
  <2> QED BY <2>1, <2>2 DEF RoutingMoves
<1>9. CASE RecordVersion
  BY <1>9 DEF RecordVersion, RoutingMoves
<1>10. CASE ActivateRoute
  <2>1. CASE UNCHANGED routingVars
    BY <1>10, <2>1 DEF ActivateRoute, RoutingMoves
  <2>2. CASE ~ UNCHANGED routingVars
    <3>1. ~ThirdParty /\ SetRoute(ActivateOf[cur]) /\ UNCHANGED <<gw, load>>
      BY <1>10, <2>2 DEF ActivateRoute
    <3>2. ActivateOf[cur] \in Routes
      BY <1>10, TablesType DEF ActivateRoute, Routes
    <3> QED BY <3>1, <3>2 DEF RoutingMoves, ThirdParty
  <2> QED BY <2>1, <2>2
<1>11. CASE StartWait
  BY <1>11 DEF StartWait, RoutingMoves
<1>12. CASE WaitSatisfied
  BY <1>12 DEF WaitSatisfied, RoutingMoves
<1>13. CASE WaitTimesOut
  <2>1. (SetTraffic("MAINTENANCE") \/ UNCHANGED routingVars) /\ UNCHANGED <<gw, load>>
    BY <1>13 DEF WaitTimesOut
  <2> QED BY <2>1 DEF RoutingMoves, Traffics
<1>14. CASE FailTimedOut
  BY <1>14 DEF FailTimedOut, RoutingMoves
<1>15. CASE DecideBoundary
  BY <1>15 DEF DecideBoundary, RoutingMoves
<1>16. CASE CallSucceeds
  BY <1>16 DEF CallSucceeds, RoutingMoves
<1>17. CASE RetryableError
  BY <1>17 DEF RetryableError, RoutingMoves
<1>18. CASE PermanentError
  BY <1>18 DEF PermanentError, RoutingMoves
<1>19. CASE UnexpectedError
  BY <1>19 DEF UnexpectedError, RoutingMoves
<1>20. CASE MarkRuntime
  BY <1>20 DEF MarkRuntime, RoutingMoves
<1>21. CASE CheckPasses
  BY <1>21 DEF CheckPasses, RoutingMoves
<1>22. CASE CheckFails
  BY <1>22 DEF CheckFails, RoutingMoves
<1>23. CASE Commit
  BY <1>23 DEF Commit, RoutingMoves
<1>24. CASE StopSourceFailed
  BY <1>24 DEF StopSourceFailed, RoutingMoves
<1>25. CASE StepFailed
  BY <1>25 DEF StepFailed, RoutingMoves
<1>26. CASE BlockForOperator
  <2>1. SetTraffic(TrafficAtEnd) /\ UNCHANGED <<gw, load>> BY <1>26 DEF BlockForOperator
  <2>2. TrafficAtEnd \in Traffics BY DEF TrafficAtEnd, Traffics, TypeInv, TypeOK,
      RoutingType
  <2> QED BY <2>1, <2>2 DEF RoutingMoves
<1>27. CASE Escalate
  BY <1>27 DEF Escalate, RoutingMoves
<1>28. CASE Reopen
  <2>1. SetTraffic(TrafficAtEnd) /\ UNCHANGED <<gw, load>> BY <1>28 DEF Reopen
  <2>2. TrafficAtEnd \in Traffics BY DEF TrafficAtEnd, Traffics, TypeInv, TypeOK,
      RoutingType
  <2> QED BY <2>1, <2>2 DEF RoutingMoves
<1>29. CASE Fail
  BY <1>29 DEF Fail, RoutingMoves
<1>30. CASE RestoreForCancel
  <2>1. (SetTraffic("SERVING") \/ UNCHANGED routingVars) /\ UNCHANGED <<gw, load>>
    BY <1>30 DEF RestoreForCancel
  <2> QED BY <2>1 DEF RoutingMoves, Traffics
<1>31. CASE RestoreTimesOut
  BY <1>31 DEF RestoreTimesOut, RoutingMoves
<1>32. CASE CancelOperation
  BY <1>32 DEF CancelOperation, RoutingMoves
<1>33. CASE MarkRollingBack
  BY <1>33 DEF MarkRollingBack, RoutingMoves
<1>34. CASE EnsureRollback
  <2>1. SetTraffic("MAINTENANCE") /\ UNCHANGED <<gw, load>> BY <1>34 DEF EnsureRollback
  <2> QED BY <2>1 DEF RoutingMoves, Traffics
<1>35. CASE BeginRollback
  BY <1>35 DEF BeginRollback, RoutingMoves
<1>36. CASE FinishRollback
  BY <1>36 DEF FinishRollback, RoutingMoves
<1>37. CASE Crash
  BY <1>37 DEF Crash, RoutingMoves
<1>38. CASE RequestCancel
  BY <1>38 DEF RequestCancel, RoutingMoves
<1>39. CASE OperatorSetsRoute
  <2>1. PICK r \in Routes : SetRoute(r) BY <1>39 DEF OperatorSetsRoute
  <2>2. pc = "idle" /\ UNCHANGED <<gw, load>> BY <1>39 DEF OperatorSetsRoute
  <2> QED BY <2>1, <2>2 DEF RoutingMoves
<1>40. CASE LateEffect
  BY <1>40 DEF LateEffect, RoutingMoves
<1>41. CASE StartReload
  BY <1>41 DEF StartReload, RoutingMoves
<1>42. CASE FinishReload
  BY <1>42 DEF FinishReload, RoutingMoves
<1>43. CASE Admit
  BY <1>43 DEF Admit, RoutingMoves
<1>44. CASE Release
  BY <1>44 DEF Release, RoutingMoves
<1>45. CASE UNCHANGED vars
  BY <1>45 DEF vars, RoutingMoves
<1> QED BY <1>1, <1>2, <1>3, <1>4, <1>5, <1>6, <1>7, <1>8, <1>9, <1>10, <1>11, <1>12,
           <1>13, <1>14, <1>15, <1>16, <1>17, <1>18, <1>19, <1>20, <1>21, <1>22,
           <1>23, <1>24, <1>25, <1>26, <1>27, <1>28, <1>29, <1>30, <1>31, <1>32,
           <1>33, <1>34, <1>35, <1>36, <1>37, <1>38, <1>39, <1>40, <1>41, <1>42,
           <1>43, <1>44, <1>45
        DEF Next, WorkerStep

\* Why the gateway may compare versions: neither the version it applied nor the one a
\* reload in progress has read is ahead of the database, and equality means the same
\* rows.  The reload reads the version first, so its rows are at least that new.
VersionInv == gw.ver <= ver /\ load <= ver /\ AppliedVersionIsTruth

\* Both parties start from version 1.
LEMMA VersionInit == Init => VersionInv
BY DEF Init, VersionInv, AppliedVersionIsTruth

\* One case per way to move: a change of the rows outruns the gateway's version.
LEMMA VersionStep == ASSUME TypeInv, VersionInv, [Next]_vars PROVE VersionInv'
<1> USE DEF VersionInv, AppliedVersionIsTruth, TypeInv, TypeOK, RoutingType,
            GatewayType, Snapshot
<1>1. RoutingMoves BY MovesStep
<1>2. CASE UNCHANGED <<traffic, route, ver, gw, load>>
  BY <1>2
<1>3. CASE (\E t \in Traffics : SetTraffic(t)) /\ UNCHANGED <<gw, load>>
  BY <1>3 DEF SetTraffic
<1>4. CASE (\E r \in Routes : SetRoute(r)) /\ UNCHANGED <<gw, load>>
  BY <1>4 DEF SetRoute
<1>5. CASE StartReload
  BY <1>5 DEF StartReload, operationVars, routingVars
<1>6. CASE FinishReload
  BY <1>6 DEF FinishReload, Loaded, operationVars, routingVars
<1> QED BY <1>1, <1>2, <1>3, <1>4, <1>5, <1>6 DEF RoutingMoves

\* ColdSwitch!AppliedVersionIsTruth: the version the gateway reports stands for the rows
\* as of that version, for any number of switches, edits and reloads.
THEOREM VersionIsTruth == Spec => []AppliedVersionIsTruth
<1>1. VersionInv => AppliedVersionIsTruth BY DEF VersionInv
<1> QED BY <1>1, TypeInit, TypeStep, VersionInit, VersionStep, PTL DEF Spec

\* ColdSwitch!ThirdPartyRouteKept: a worker at work leaves a third party's route alone.
THEOREM ThirdPartyKept == Spec => ThirdPartyRouteKept
<1>1. ASSUME TypeInv, [Next]_vars
      PROVE  [route = "other" /\ pc # "idle" => route' = "other"]_vars
  BY <1>1, MovesStep DEF RoutingMoves, SetTraffic, SetRoute, StartReload, FinishReload,
     operationVars, routingVars
<1> QED BY <1>1, TypeInit, TypeStep, PTL DEF Spec, ThirdPartyRouteKept

-----------------------------------------------------------------------------
(************************ cancellation and rollback ************************)

\* The boundary is crossed in one action, which looks for a cancellation first.
LEMMA BoundaryStep == [Next]_vars /\ cancel /\ ~boundary => ~boundary'
<1> SUFFICES ASSUME [Next]_vars, cancel, ~boundary PROVE ~boundary'
  OBVIOUS
<1> USE DEF operationVars, routingVars, deployVars, nodeVars, gatewayVars, workerVars,
            boundVars, OthersUnchanged
<1>1. CASE DecideBoundary
  BY <1>1 DEF DecideBoundary, CancelObserved
<1>2. CASE StopSourceFailed
  BY <1>2 DEF StopSourceFailed
<1>3. CASE Claim \/ RecoverStale \/ Resume \/ ObserveCancel \/ BeginForward \/
    FinalizeDesired
  BY <1>3 DEF Claim, RecoverStale, Resume, ObserveCancel, BeginForward, FinalizeDesired
<1>4. CASE Succeed \/ EnterTraffic \/ RecordVersion \/ ActivateRoute \/ StartWait \/
    WaitSatisfied
  BY <1>4 DEF Succeed, EnterTraffic, RecordVersion, ActivateRoute, StartWait,
      WaitSatisfied
<1>5. CASE WaitTimesOut \/ FailTimedOut \/ CallSucceeds \/ RetryableError \/
    PermanentError \/ UnexpectedError
  BY <1>5 DEF WaitTimesOut, FailTimedOut, CallSucceeds, RetryableError, PermanentError,
      UnexpectedError
<1>6. CASE MarkRuntime \/ CheckPasses \/ CheckFails \/ Commit \/ StepFailed \/
    BlockForOperator
  BY <1>6 DEF MarkRuntime, CheckPasses, CheckFails, Commit, StepFailed, BlockForOperator
<1>7. CASE Escalate \/ Reopen \/ Fail \/ RestoreForCancel \/ RestoreTimesOut \/
    CancelOperation
  BY <1>7 DEF Escalate, Reopen, Fail, RestoreForCancel, RestoreTimesOut, CancelOperation
<1>8. CASE MarkRollingBack \/ EnsureRollback \/ BeginRollback \/ FinishRollback \/ Crash
    \/ RequestCancel
  BY <1>8 DEF MarkRollingBack, EnsureRollback, BeginRollback, FinishRollback, Crash,
      RequestCancel
<1>9. CASE OperatorSetsRoute \/ LateEffect \/ StartReload \/ FinishReload \/ Admit \/
    Release
  BY <1>9 DEF OperatorSetsRoute, LateEffect, StartReload, FinishReload, Admit, Release
<1>10. CASE UNCHANGED vars BY <1>10 DEF vars
<1> QED BY <1>1, <1>2, <1>3, <1>4, <1>5, <1>6, <1>7, <1>8, <1>9, <1>10
        DEF Next, WorkerStep

\* ColdSwitch!CancelBeatsBoundary: once recorded, a cancellation keeps an operation that
\* has not crossed the destructive boundary from ever crossing it.
THEOREM CancelWins == Spec => CancelBeatsBoundary
<1>1. [Next]_vars => [cancel /\ ~boundary => ~boundary']_vars
  BY BoundaryStep
<1> QED BY <1>1, PTL DEF Spec, CancelBeatsBoundary

\* While rolling back, the worker is in no phase that only the forward direction has,
\* and whatever step it executes is a rollback step: a resumed worker never takes the
\* forward loop again (cold_switch.py:391-741).
ForwardPhases == {"next", "decide", "succeed", "failsafe", "cancel", "restore"}
StepPhases == {"body", "record", "wait", "call", "mark", "commit", "failing", "failed",
               "aborted"}
RollingInv ==
  status = "ROLLING_BACK" => /\ pc \notin ForwardPhases
                             /\ pc \in StepPhases => cur \in RollbackSteps

\* What one step of the specification may do to an operation that is rolling back.
OneWay ==
  status = "ROLLING_BACK"
    => /\ status' \in {"ROLLING_BACK", "ROLLED_BACK", "MANUAL_INTERVENTION_REQUIRED"}
       /\ cur' \in ForwardSteps => cur' = cur

\* Nothing rolls back at first.
LEMMA RollingInit == Init => RollingInv
BY DEF Init, RollingInv

\* Each action keeps RollingInv and goes one way.
LEMMA RollingStep == ASSUME RollingInv, [Next]_vars PROVE RollingInv' /\ OneWay
<1> USE DEF RollingInv, OneWay, ForwardPhases, StepPhases, operationVars, routingVars,
            deployVars, nodeVars, gatewayVars, workerVars, boundVars, OthersUnchanged
<1>1. CASE Claim
  BY <1>1 DEF Claim
<1>2. CASE RecoverStale
  BY <1>2 DEF RecoverStale
<1>3. CASE Resume
  BY <1>3 DEF Resume, ResumeAt
<1>4. CASE ObserveCancel
  BY <1>4 DEF ObserveCancel
<1>5. CASE BeginForward
  BY <1>5, StepsDisjoint DEF BeginForward, Begin
<1>6. CASE FinalizeDesired
  BY <1>6 DEF FinalizeDesired
<1>7. CASE Succeed
  BY <1>7, StepsDisjoint DEF Succeed, Forget, Steps
<1>8. CASE EnterTraffic
  BY <1>8 DEF EnterTraffic
<1>9. CASE RecordVersion
  BY <1>9 DEF RecordVersion
<1>10. CASE ActivateRoute
  BY <1>10 DEF ActivateRoute
<1>11. CASE StartWait
  BY <1>11 DEF StartWait
<1>12. CASE WaitSatisfied
  BY <1>12, StepsDisjoint DEF WaitSatisfied
<1>13. CASE WaitTimesOut
  BY <1>13 DEF WaitTimesOut
<1>14. CASE FailTimedOut
  BY <1>14 DEF FailTimedOut
<1>15. CASE DecideBoundary
  BY <1>15 DEF DecideBoundary
<1>16. CASE CallSucceeds
  BY <1>16 DEF CallSucceeds
<1>17. CASE RetryableError
  BY <1>17, StepsDisjoint DEF RetryableError, Forget, Steps
<1>18. CASE PermanentError
  BY <1>18 DEF PermanentError
<1>19. CASE UnexpectedError
  BY <1>19 DEF UnexpectedError
<1>20. CASE MarkRuntime
  BY <1>20 DEF MarkRuntime
<1>21. CASE CheckPasses
  BY <1>21 DEF CheckPasses
<1>22. CASE CheckFails
  BY <1>22 DEF CheckFails
<1>23. CASE Commit
  BY <1>23, StepsDisjoint DEF Commit
<1>24. CASE StopSourceFailed
  BY <1>24, StepsDisjoint DEF StopSourceFailed
<1>25. CASE StepFailed
  BY <1>25, StepsDisjoint DEF StepFailed
<1>26. CASE BlockForOperator
  BY <1>26 DEF BlockForOperator, Destructive
<1>27. CASE Escalate
  BY <1>27, StepsDisjoint DEF Escalate, Forget, Steps
<1>28. CASE Reopen
  BY <1>28 DEF Reopen, Destructive
<1>29. CASE Fail
  BY <1>29, StepsDisjoint DEF Fail, Forget, Steps
<1>30. CASE RestoreForCancel
  BY <1>30 DEF RestoreForCancel
<1>31. CASE RestoreTimesOut
  BY <1>31 DEF RestoreTimesOut
<1>32. CASE CancelOperation
  BY <1>32, StepsDisjoint DEF CancelOperation, Forget, Steps
<1>33. CASE MarkRollingBack
  BY <1>33 DEF MarkRollingBack
<1>34. CASE EnsureRollback
  BY <1>34 DEF EnsureRollback
<1>35. CASE BeginRollback
  <2>1. cur' \in RollbackSteps BY <1>35 DEF BeginRollback, Begin, RollbackSteps
  <2> QED BY <1>35, <2>1, StepsDisjoint DEF BeginRollback, Begin
<1>36. CASE FinishRollback
  BY <1>36, StepsDisjoint DEF FinishRollback, Forget, Steps
<1>37. CASE Crash
  BY <1>37, StepsDisjoint DEF Crash, Forget, Steps
<1>38. CASE RequestCancel
  BY <1>38 DEF RequestCancel
<1>39. CASE OperatorSetsRoute
  BY <1>39 DEF OperatorSetsRoute
<1>40. CASE LateEffect
  BY <1>40 DEF LateEffect
<1>41. CASE StartReload
  BY <1>41 DEF StartReload
<1>42. CASE FinishReload
  BY <1>42 DEF FinishReload
<1>43. CASE Admit
  BY <1>43 DEF Admit
<1>44. CASE Release
  BY <1>44 DEF Release
<1>45. CASE UNCHANGED vars
  BY <1>45 DEF vars
<1> QED BY <1>1, <1>2, <1>3, <1>4, <1>5, <1>6, <1>7, <1>8, <1>9, <1>10, <1>11, <1>12,
           <1>13, <1>14, <1>15, <1>16, <1>17, <1>18, <1>19, <1>20, <1>21, <1>22,
           <1>23, <1>24, <1>25, <1>26, <1>27, <1>28, <1>29, <1>30, <1>31, <1>32,
           <1>33, <1>34, <1>35, <1>36, <1>37, <1>38, <1>39, <1>40, <1>41, <1>42,
           <1>43, <1>44, <1>45
        DEF Next, WorkerStep

\* ColdSwitch!RollbackIsOneWay: through crashes and retries, an operation that has begun
\* to roll back ends rolled back or with the operator, and begins no forward step.
THEOREM OneWayRollback == Spec => RollbackIsOneWay
<1>1. RollingInv /\ [Next]_vars
        => [status = "ROLLING_BACK"
              => /\ status' \in {"ROLLING_BACK", "ROLLED_BACK",
                                 "MANUAL_INTERVENTION_REQUIRED"}
                 /\ cur' \in ForwardSteps => cur' = cur]_vars
  BY RollingStep DEF OneWay
<1> QED BY <1>1, RollingInit, RollingStep, PTL DEF Spec, RollbackIsOneWay

=============================================================================
