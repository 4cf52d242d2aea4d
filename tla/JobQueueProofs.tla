--------------------------- MODULE JobQueueProofs ---------------------------
(***************************************************************************)
(* Theorems of JobQueue, for every number of workers, deployments, nodes,  *)
(* operations, attempts and faults: types, one operation per node at a     *)
(* time, no succeeded step run again, a live job for an active operation;  *)
(* and, until a lease is lost, attempts within their limit and rows that   *)
(* say what was seen on the node.                                          *)
(***************************************************************************)
EXTENDS JobQueue, SequenceTheorems, TLAPS

-----------------------------------------------------------------------------
(******************************** types ************************************)

\* Every kind of operation has between one and five steps (operations.py:36-61).
LEMMA StepTable == \A k \in Kinds : \E n \in 1 .. 5 : DOMAIN StepsOf[k] = 1 .. n
<1> SUFFICES ASSUME NEW k \in Kinds PROVE \E n \in 1 .. 5 : DOMAIN StepsOf[k] = 1 .. n
  OBVIOUS
<1>1. CASE k = "START"
  <2>1. DOMAIN StepsOf[k] = 1 .. 5 BY <1>1 DEF StepsOf, Kinds
  <2> QED BY <2>1
<1>2. CASE k = "STOP"
  <2>1. DOMAIN StepsOf[k] = 1 .. 1 BY <1>2 DEF StepsOf, Kinds
  <2> QED BY <2>1
<1>3. CASE k = "RESTART"
  <2>1. DOMAIN StepsOf[k] = 1 .. 3 BY <1>3 DEF StepsOf, Kinds
  <2> QED BY <2>1
<1>4. CASE k = "DELETE"
  <2>1. DOMAIN StepsOf[k] = 1 .. 2 BY <1>4 DEF StepsOf, Kinds
  <2> QED BY <2>1
<1> QED BY <1>1, <1>2, <1>3, <1>4 DEF Kinds

\* What the types rest on: an operation has the steps of its kind once it is created,
\* and none before.
StepShape ==
  \A o \in Ops : IF Created(o) THEN DOMAIN step[o] = DOMAIN StepsOf[kind[o]]
                               ELSE step[o] = << >>
TypeInv == TypeOK /\ StepShape

\* An action that leaves the variables of a part of TypeInv alone keeps that part.
LEMMA PartsKept ==
  /\ OperationType /\ UNCHANGED <<kind, target, status, step>> => OperationType'
  /\ JobType /\ UNCHANGED <<job, owner, stale, attempts, ready>> => JobType'
  /\ RowType /\ UNCHANGED <<desired, runtime, health>> => RowType'
  /\ NodeType /\ UNCHANGED <<cont, held>> => NodeType'
  /\ WorkerType /\ UNCHANGED <<pc, cur, pos, seenJob, seenAttempts, seenStatus,
                               seenDesired, kind>> => WorkerType'
  /\ HistoryType /\ UNCHANGED <<asked, faults, disturbed, orphaned>> => HistoryType'
  /\ StepShape /\ UNCHANGED <<kind, step>> => StepShape'
BY DEF OperationType, JobType, RowType, NodeType, WorkerType, HistoryType, StepShape,
       Created

\* A worker that moves to another phase keeps its types, if the phase does not need a
\* step it has not begun.
LEMMA GotoKeeps ==
  ASSUME WorkerType, NEW w \in Workers, NEW p \in Phases, Goto(w, p), pc[w] # "idle",
         p \in StepPhases => pc[w] \in StepPhases,
         UNCHANGED <<cur, pos, seenJob, seenAttempts, seenStatus, seenDesired, kind>>
  PROVE  WorkerType'
BY DEF WorkerType, Goto, Created

\* A worker that leaves its job keeps its types.
LEMMA LeaveKeeps ==
  ASSUME WorkerType, NEW w \in Workers, Leave(w), kind' = kind
  PROVE  WorkerType'
BY DEF WorkerType, Leave, Goto, Created, Phases, NoOp, Active, Finished, StepPhases

\* Writing one step of an operation keeps the types and the shape of the steps.
LEMMA WriteStepKeeps ==
  ASSUME OperationType, StepShape, NEW o \in Ops, Created(o), NEW i \in DOMAIN step[o],
         NEW to \in OpenSteps \cup Finished, step' = [step EXCEPT ![o][i] = to],
         UNCHANGED <<kind, target, status>>
  PROVE  OperationType' /\ StepShape'
<1>1. step[o] \in Seq(OpenSteps \cup Finished) BY DEF OperationType
<1>2. /\ [step[o] EXCEPT ![i] = to] \in Seq(OpenSteps \cup Finished)
      /\ DOMAIN [step[o] EXCEPT ![i] = to] = DOMAIN step[o]
  BY <1>1, ExceptSeq
<1>3. step' = [step EXCEPT ![o] = [step[o] EXCEPT ![i] = to]]
  OBVIOUS
<1>4. OperationType'
  BY <1>2, <1>3 DEF OperationType, Created
<1>5. StepShape'
  BY <1>2, <1>3 DEF StepShape, Created, OperationType
<1> QED BY <1>4, <1>5

\* A worker in a step phase works on a step that exists.
LEMMA AtStep ==
  ASSUME WorkerType, StepShape, NEW w \in Workers, pc[w] \in StepPhases
  PROVE  cur[w] \in Ops /\ Created(cur[w]) /\ pos[w] \in DOMAIN step[cur[w]]
BY DEF WorkerType, StepShape, StepPhases

\* The empty system is well typed.
LEMMA TypeInit == Init => TypeInv
<1> SUFFICES ASSUME Init PROVE TypeInv OBVIOUS
<1>1. << >> \in Seq(OpenSteps \cup Finished) BY EmptySeq
<1>2. OperationType BY <1>1 DEF Init, OperationType, Created, Active, Finished
<1>3. JobType BY DEF Init, JobType
<1>4. RowType BY DEF Init, RowType
<1>5. NodeType BY DEF Init, NodeType
<1>6. WorkerType BY DEF Init, WorkerType, Phases, Active, StepPhases
<1>7. HistoryType BY DEF Init, HistoryType
<1>8. StepShape BY DEF Init, StepShape, Created
<1> QED BY <1>2, <1>3, <1>4, <1>5, <1>6, <1>7, <1>8 DEF TypeInv, TypeOK

\* A command leaves a container in one of its states.
LEMMA EffectType ==
  ASSUME NEW c \in {"absent", "stopped", "running"}, NEW x
  PROVE  Effect(x, c) \in {"absent", "stopped", "running"}
BY DEF Effect

\* Every action keeps the types: what it disturbs is shown part by part, the rest is
\* PartsKept.
LEMMA TypeStep == ASSUME TypeInv, [Next]_vars PROVE TypeInv'
<1> USE DEF operationVars, jobVars, rowVars, seenVars, workerVars, historyVars
<1> OperationType /\ JobType /\ RowType /\ NodeType /\ WorkerType /\ HistoryType
      /\ StepShape
  BY DEF TypeInv, TypeOK
<1>1. ASSUME NEW d \in Deployments, NEW k \in Kinds, Check(d, k) PROVE TypeInv'
  <2>1. HistoryType' BY <1>1 DEF Check, HistoryType
  <2> QED BY <1>1, <2>1, PartsKept DEF Check, TypeInv, TypeOK
<1>2. ASSUME NEW a \in asked, NEW o \in Ops, Enqueue(a, o) PROVE TypeInv'
  <2>1. a.dep \in Deployments /\ a.kind \in Kinds BY DEF HistoryType
  <2>2. PICK n \in 1 .. 5 : DOMAIN StepsOf[a.kind] = 1 .. n BY <2>1, StepTable
  <2>3. [i \in 1 .. n |-> "PENDING"] \in Seq(OpenSteps \cup Finished) BY DEF OpenSteps
  <2>4. OperationType' BY <1>2, <2>1, <2>2, <2>3 DEF Enqueue, OperationType, Created,
      Kinds
  <2>5. StepShape' BY <1>2, <2>1, <2>2 DEF Enqueue, OperationType, StepShape, Created,
      Kinds
  <2>6. JobType' BY <1>2 DEF Enqueue, JobType
  <2>7. DesiredOf[a.kind] \in {"RUNNING", "STOPPED", "REMOVED"} BY <2>1 DEF DesiredOf,
      Kinds
  <2>8. RowType' BY <1>2, <2>1, <2>7 DEF Enqueue, RowType
  <2>9. WorkerType' BY <1>2 DEF Enqueue, WorkerType, OperationType, Created, StepPhases
  <2>10. HistoryType' BY <1>2 DEF Enqueue, HistoryType
  <2> QED BY <1>2, <2>1, <2>2, <2>3, <2>4, <2>5, <2>6, <2>7, <2>8, <2>9, <2>10, PartsKept
      DEF Enqueue, TypeInv, TypeOK
<1>3. ASSUME NEW w \in Workers, RecoverStale(w) PROVE TypeInv'
  <2>1. JobType' BY <1>3 DEF RecoverStale, JobType, WorkerType
  <2> QED BY <1>3, <2>1, PartsKept DEF RecoverStale, TypeInv, TypeOK
<1>4. ASSUME NEW w \in Workers, NEW o \in Ops, Claim(w, o) PROVE TypeInv'
  <2>1. JobType' BY <1>4 DEF Claim, JobType
  <2>2. OperationType' BY <1>4 DEF Claim, OperationType, Created, Active, Finished
  <2>3. StepShape' BY <1>4 DEF Claim, StepShape, Created
  <2>4. WorkerType' BY <1>4 DEF Claim, Claimable, Goto, WorkerType, Created, Phases,
      StepPhases
  <2> QED BY <1>4, <2>1, <2>2, <2>3, <2>4, PartsKept DEF Claim, TypeInv, TypeOK
<1>5. ASSUME NEW w \in Workers, TryAcquire(w) PROVE TypeInv'
  <2>1. Place(w) \in Deployments BY <1>5 DEF TryAcquire, WorkerType, OperationType, Place
  <2>2. LockKeys(Place(w)) \subseteq Deployments \cup Nodes BY <2>1, QueueAssumption DEF
      LockKeys
  <2>3. NodeType' BY <1>5, <2>2 DEF TryAcquire, NodeType
  <2>4. WorkerType' BY <1>5, GotoKeeps DEF TryAcquire, Phases, RunPhases, StepPhases
  <2> QED BY <1>5, <2>1, <2>2, <2>3, <2>4, PartsKept DEF TryAcquire, TypeInv, TypeOK
<1>6. ASSUME NEW w \in Workers, ReadBusyJob(w) PROVE TypeInv'
  <2>1. WorkerType' BY <1>6 DEF ReadBusyJob, Goto, WorkerType, JobType, Created, Phases,
      StepPhases
  <2> QED BY <1>6, <2>1, PartsKept DEF ReadBusyJob, TypeInv, TypeOK
<1>7. ASSUME NEW w \in Workers, GiveBack(w) PROVE TypeInv'
  <2>1. cur[w] \in Ops BY <1>7 DEF GiveBack, WorkerType
  <2>2. seenAttempts[w] # 0 => seenAttempts[w] - 1 \in Nat BY DEF WorkerType
  <2>3. JobType' BY <1>7, <2>1, <2>2 DEF GiveBack, Requeue, JobType
  <2>4. WorkerType' BY <1>7, LeaveKeeps DEF GiveBack
  <2> QED BY <1>7, <2>1, <2>2, <2>3, <2>4, PartsKept DEF GiveBack, TypeInv, TypeOK
<1>8. ASSUME NEW w \in Workers, Load(w) PROVE TypeInv'
  <2>1. Place(w) \in Deployments BY <1>8 DEF Load, WorkerType, OperationType, Place
  <2>2. WorkerType' BY <1>8, <2>1 DEF Load, Goto, WorkerType, JobType, OperationType,
      RowType, Created, Place, Phases, RunPhases, StepPhases
  <2> QED BY <1>8, <2>1, <2>2, PartsKept DEF Load, TypeInv, TypeOK
<1>9. ASSUME NEW w \in Workers, NEW i \in 1 .. 5, BeginStep(w, i) PROVE TypeInv'
  <2>1. cur[w] \in Ops /\ Created(cur[w]) BY <1>9 DEF BeginStep, WorkerType
  <2>2. i \in DOMAIN step[cur[w]] BY <1>9 DEF BeginStep, Open
  <2>3. i \in DOMAIN StepsOf[kind[cur[w]]] BY <2>1, <2>2 DEF StepShape
  <2>4. WorkerType' BY <1>9, <2>1, <2>3 DEF BeginStep, Goto, WorkerType, Created, Phases,
      RunPhases, StepPhases
  <2>5. OperationType' /\ StepShape' BY <1>9, <2>1, <2>2, WriteStepKeeps DEF BeginStep,
      OpenSteps
  <2> QED BY <1>9, <2>1, <2>2, <2>3, <2>4, <2>5, PartsKept DEF BeginStep, TypeInv, TypeOK
<1>10. ASSUME NEW w \in Workers, CallNode(w) PROVE TypeInv'
  <2>1. Place(w) \in Deployments BY <1>10 DEF CallNode, WorkerType, OperationType, Place
  <2>2. NodeType' BY <1>10, <2>1, EffectType DEF CallNode, Command, NodeType
  <2>3. WorkerType' BY <1>10, GotoKeeps DEF CallNode, Command, Phases, RunPhases,
      StepPhases
  <2> QED BY <1>10, <2>1, <2>2, <2>3, PartsKept DEF CallNode, TypeInv, TypeOK
<1>11. ASSUME NEW w \in Workers, CommitRow(w) PROVE TypeInv'
  <2>1. Place(w) \in Deployments BY <1>11 DEF CommitRow, WorkerType, OperationType, Place
  <2>2. RowType' BY <1>11, <2>1 DEF CommitRow, RowType
  <2>3. WorkerType' BY <1>11, GotoKeeps DEF CommitRow, Phases, RunPhases, StepPhases
  <2> QED BY <1>11, <2>1, <2>2, <2>3, PartsKept DEF CommitRow, TypeInv, TypeOK
<1>12. ASSUME NEW w \in Workers, SucceedStep(w) PROVE TypeInv'
  <2>1. OperationType' /\ StepShape' BY <1>12, AtStep, WriteStepKeeps DEF SucceedStep,
      SetStep, OpenSteps, Finished, StepPhases
  <2>2. WorkerType' BY <1>12, GotoKeeps DEF SucceedStep, Phases, RunPhases, StepPhases
  <2> QED BY <1>12, <2>1, <2>2, PartsKept DEF SucceedStep, TypeInv, TypeOK
<1>13. ASSUME NEW w \in Workers, BumpStep(w) PROVE TypeInv'
  <2>1. Place(w) \in Deployments BY <1>13 DEF BumpStep, WorkerType, OperationType, Place
  <2>2. OperationType' /\ StepShape' BY <1>13, AtStep, WriteStepKeeps DEF BumpStep,
      SetStep, OpenSteps, Finished, StepPhases
  <2>3. RowType' BY <1>13, <2>1 DEF BumpStep, RecordHealth, RowType
  <2>4. WorkerType' BY <1>13, GotoKeeps DEF BumpStep, Phases, RunPhases, StepPhases
  <2> QED BY <1>13, <2>1, <2>2, <2>3, <2>4, PartsKept DEF BumpStep, TypeInv, TypeOK
<1>14. ASSUME NEW w \in Workers, RequeueRetry(w) PROVE TypeInv'
  <2>1. cur[w] \in Ops BY <1>14 DEF RequeueRetry, WorkerType
  <2>2. JobType' BY <1>14, <2>1 DEF RequeueRetry, Requeue, JobType
  <2>3. WorkerType' BY <1>14, GotoKeeps DEF RequeueRetry, Phases, RunPhases, StepPhases
  <2> QED BY <1>14, <2>1, <2>2, <2>3, PartsKept DEF RequeueRetry, TypeInv, TypeOK
<1>15. ASSUME NEW w \in Workers, FailStep(w) PROVE TypeInv'
  <2>1. Place(w) \in Deployments BY <1>15 DEF FailStep, WorkerType, OperationType, Place
  <2>2. OperationType' /\ StepShape' BY <1>15, AtStep, WriteStepKeeps DEF FailStep,
      SetStep, OpenSteps, Finished, StepPhases
  <2>3. RowType' BY <1>15, <2>1 DEF FailStep, RecordHealth, RowType
  <2>4. WorkerType' BY <1>15, GotoKeeps DEF FailStep, Phases, RunPhases, StepPhases
  <2> QED BY <1>15, <2>1, <2>2, <2>3, <2>4, PartsKept DEF FailStep, TypeInv, TypeOK
<1>16. ASSUME NEW w \in Workers, FailOperation(w) PROVE TypeInv'
  <2>1. OperationType' BY <1>16 DEF FailOperation, EndOperation, OperationType, Created,
      Active, Finished
  <2>2. WorkerType' BY <1>16, GotoKeeps DEF FailOperation, Phases, RunPhases, StepPhases
  <2> QED BY <1>16, <2>1, <2>2, PartsKept DEF FailOperation, TypeInv, TypeOK
<1>17. ASSUME NEW w \in Workers, FailJob(w) PROVE TypeInv'
  <2>1. JobType' BY <1>17 DEF FailJob, WriteJob, JobType
  <2>2. WorkerType' BY <1>17, GotoKeeps DEF FailJob, Phases, RunPhases, StepPhases
  <2> QED BY <1>17, <2>1, <2>2, PartsKept DEF FailJob, TypeInv, TypeOK
<1>18. ASSUME NEW w \in Workers, ApplySuccess(w) PROVE TypeInv'
  <2>1. Place(w) \in Deployments BY <1>18 DEF ApplySuccess, WorkerType, OperationType,
      Place
  <2>2. kind[cur[w]] \in Kinds BY <1>18 DEF ApplySuccess, WorkerType, OperationType,
      Created
  <2>3. DesiredOf[kind[cur[w]]] \in {"RUNNING", "STOPPED", "REMOVED"} /\
      RuntimeOf[kind[cur[w]]] \in {"RUNNING", "STOPPED"} BY <2>2 DEF DesiredOf,
      RuntimeOf, Kinds
  <2>4. RowType' BY <1>18, <2>1, <2>3 DEF ApplySuccess, RowType
  <2>5. WorkerType' BY <1>18, GotoKeeps DEF ApplySuccess, Phases, RunPhases, StepPhases
  <2> QED BY <1>18, <2>1, <2>2, <2>3, <2>4, <2>5, PartsKept DEF ApplySuccess, TypeInv,
      TypeOK
<1>19. ASSUME NEW w \in Workers, SucceedOperation(w) PROVE TypeInv'
  <2>1. OperationType' BY <1>19 DEF SucceedOperation, EndOperation, OperationType,
      Created, Active, Finished
  <2>2. WorkerType' BY <1>19, GotoKeeps DEF SucceedOperation, Phases, RunPhases,
      StepPhases
  <2> QED BY <1>19, <2>1, <2>2, PartsKept DEF SucceedOperation, TypeInv, TypeOK
<1>20. ASSUME NEW w \in Workers, FinishJob(w) PROVE TypeInv'
  <2>1. JobType' BY <1>20 DEF FinishJob, WriteJob, JobType
  <2>2. WorkerType' BY <1>20, GotoKeeps DEF FinishJob, Phases, RunPhases, StepPhases
  <2> QED BY <1>20, <2>1, <2>2, PartsKept DEF FinishJob, TypeInv, TypeOK
<1>21. ASSUME NEW w \in Workers, Release(w) PROVE TypeInv'
  <2>1. NodeType' BY <1>21 DEF Release, NodeType
  <2>2. WorkerType' BY <1>21, LeaveKeeps DEF Release
  <2> QED BY <1>21, <2>1, <2>2, PartsKept DEF Release, TypeInv, TypeOK
<1>22. ASSUME NEW w \in Workers, AbandonJob(w) PROVE TypeInv'
  <2>1. JobType' BY <1>22 DEF AbandonJob, JobType
  <2>2. WorkerType' BY <1>22, GotoKeeps DEF AbandonJob, Phases, RunPhases, StepPhases
  <2> QED BY <1>22, <2>1, <2>2, PartsKept DEF AbandonJob, TypeInv, TypeOK
<1>23. ASSUME NEW w \in Workers, AbandonOperation(w) PROVE TypeInv'
  <2>1. OperationType' BY <1>23 DEF AbandonOperation, OperationType, Created, Finished
  <2>2. WorkerType' BY <1>23, LeaveKeeps DEF AbandonOperation
  <2> QED BY <1>23, <2>1, <2>2, PartsKept DEF AbandonOperation, TypeInv, TypeOK
<1>24. ASSUME NEW w \in Workers, Heartbeat(w) PROVE TypeInv'
  <2>1. JobType' BY <1>24 DEF Heartbeat, JobType, WorkerType
  <2> QED BY <1>24, <2>1, PartsKept DEF Heartbeat, TypeInv, TypeOK
<1>25. ASSUME NEW w \in Workers, CallFails(w) PROVE TypeInv'
  <2>1. Place(w) \in Deployments BY <1>25 DEF CallFails, WorkerType, OperationType, Place
  <2>2. NodeType' BY <1>25, <2>1, EffectType DEF CallFails, NodeType
  <2>3. faults + 1 \in Nat BY DEF HistoryType
  <2>4. HistoryType' BY <1>25, <2>3 DEF CallFails, Fault, HistoryType
  <2>5. WorkerType' BY <1>25, GotoKeeps DEF CallFails, Phases, RunPhases, StepPhases
  <2> QED BY <1>25, <2>1, <2>2, <2>3, <2>4, <2>5, PartsKept DEF CallFails, TypeInv,
      TypeOK
<1>26. ASSUME NEW w \in Workers, Exception(w) PROVE TypeInv'
  <2>1. NodeType' BY <1>26 DEF Exception, NodeType
  <2>2. faults + 1 \in Nat BY DEF HistoryType
  <2>3. HistoryType' BY <1>26, <2>2 DEF Exception, Fault, HistoryType
  <2>4. WorkerType' BY <1>26, GotoKeeps DEF Exception, Phases, RunPhases, StepPhases
  <2> QED BY <1>26, <2>1, <2>2, <2>3, <2>4, PartsKept DEF Exception, TypeInv, TypeOK
<1>27. ASSUME NEW w \in Workers, Crash(w) PROVE TypeInv'
  <2>1. Place(w) \in Deployments BY <1>27 DEF Crash, WorkerType, OperationType, Place
  <2>2. NodeType' BY <1>27, <2>1, EffectType DEF Crash, NodeType
  <2>3. faults + 1 \in Nat /\ cur[w] \in Ops BY <1>27 DEF HistoryType, Crash, WorkerType
  <2>4. HistoryType' BY <1>27, <2>3 DEF Crash, Fault, HistoryType
  <2>5. WorkerType' BY <1>27, LeaveKeeps DEF Crash
  <2> QED BY <1>27, <2>1, <2>2, <2>3, <2>4, <2>5, PartsKept DEF Crash, TypeInv, TypeOK
<1>28. ASSUME NEW w \in Workers, Pause(w) PROVE TypeInv'
  <2>1. JobType' BY <1>28 DEF Pause, JobType, WorkerType
  <2>2. faults + 1 \in Nat BY DEF HistoryType
  <2>3. HistoryType' BY <1>28, <2>2 DEF Pause, Fault, HistoryType
  <2> QED BY <1>28, <2>1, <2>2, <2>3, PartsKept DEF Pause, TypeInv, TypeOK
<1>29. ASSUME NEW o \in Ops, Time(o) PROVE TypeInv'
  <2>1. JobType' BY <1>29 DEF Time, LeaseExpires, BecomesReady, JobType
  <2> QED BY <1>29, <2>1, PartsKept DEF Time, LeaseExpires, BecomesReady, TypeInv, TypeOK
<1>30. CASE UNCHANGED vars
  <2> QED BY <1>30, PartsKept DEF vars, TypeInv, TypeOK
<1> QED BY <1>1, <1>2, <1>3, <1>4, <1>5, <1>6, <1>7, <1>8, <1>9, <1>10, <1>11, <1>12,
    <1>13, <1>14, <1>15, <1>16, <1>17, <1>18, <1>19, <1>20, <1>21, <1>22, <1>23, <1>24,
    <1>25, <1>26, <1>27, <1>28, <1>29, <1>30 DEF Next, Poll, Work, Trouble

\* Typing (JobQueue's TypeOK) holds in every reachable state.
THEOREM Typing == Spec => []TypeOK
<1>1. TypeInv => TypeOK BY DEF TypeInv
<1> QED BY <1>1, TypeInit, TypeStep, PTL DEF Spec

-----------------------------------------------------------------------------
(***************************** advisory locks ******************************)

\* A worker holds its deployment's and its node's key exactly while it runs an
\* operation, and no key has two holders (execute, SessionAdvisoryLockSet).
HoldsItsKeys ==
  \A w \in Workers : held[w] = IF Running(w) THEN LockKeys(Place(w)) ELSE {}
KeysDisjoint == \A v, w \in Workers : v # w => held[v] \cap held[w] = {}
LockInv == HoldsItsKeys /\ KeysDisjoint

\* A step that moves no worker into or out of the run phases, and leaves the workers
\* in them at their operations, keeps the locks in order.
LEMMA LockKept ==
  ASSUME LockInv, held' = held,
         \A w \in Workers : pc'[w] \in RunPhases <=> pc[w] \in RunPhases,
         \A w \in Workers : pc[w] \in RunPhases =>
           cur'[w] = cur[w] /\ target'[cur[w]] = target[cur[w]]
  PROVE  LockInv'
BY DEF LockInv, HoldsItsKeys, KeysDisjoint, Running, Place, LockKeys

\* So does a worker that gives its locks back and leaves the run phases.
LEMMA LockDropped ==
  ASSUME LockInv, NodeType, NEW w \in Workers, held' = [held EXCEPT ![w] = {}],
         target' = target, pc'[w] \notin RunPhases,
         \A v \in Workers \ {w} : pc'[v] = pc[v] /\ cur'[v] = cur[v]
  PROVE  LockInv'
BY DEF LockInv, HoldsItsKeys, KeysDisjoint, Running, Place, LockKeys, NodeType

\* No worker holds a key at the start.
LEMMA LockInit == Init => LockInv
BY DEF Init, LockInv, HoldsItsKeys, KeysDisjoint, Running, RunPhases

\* The steps of a worker that has the locks and keeps them.
HoldingStep(w) ==
  \/ Load(w) \/ (\E i \in 1 .. 5 : BeginStep(w, i)) \/ CallNode(w) \/ CallFails(w)
  \/ CommitRow(w) \/ SucceedStep(w) \/ BumpStep(w) \/ RequeueRetry(w)
  \/ FailStep(w) \/ FailOperation(w) \/ FailJob(w)
  \/ ApplySuccess(w) \/ SucceedOperation(w) \/ FinishJob(w)

\* A step inside a run keeps the worker's keys until it ends the run.
LEMMA HoldingMoves ==
  ASSUME NEW w \in Workers, HoldingStep(w)
  PROVE  /\ pc[w] \in RunPhases
         /\ \E p \in RunPhases : pc' = [pc EXCEPT ![w] = p]
         /\ UNCHANGED <<cur, held, kind, target>>
<1> USE DEF HoldingStep, Goto, Command, RunPhases, operationVars, workerVars, seenVars
<1>1. CASE Load(w) BY <1>1 DEF Load
<1>2. CASE \E i \in 1 .. 5 : BeginStep(w, i) BY <1>2 DEF BeginStep
<1>3. CASE CallNode(w) BY <1>3 DEF CallNode
<1>4. CASE CallFails(w) BY <1>4 DEF CallFails
<1>5. CASE CommitRow(w) BY <1>5 DEF CommitRow
<1>6. CASE SucceedStep(w) BY <1>6 DEF SucceedStep
<1>7. CASE BumpStep(w) BY <1>7 DEF BumpStep
<1>8. CASE RequeueRetry(w) BY <1>8 DEF RequeueRetry
<1>9. CASE FailStep(w) BY <1>9 DEF FailStep
<1>10. CASE FailOperation(w) BY <1>10 DEF FailOperation
<1>11. CASE FailJob(w) BY <1>11 DEF FailJob
<1>12. CASE ApplySuccess(w) BY <1>12 DEF ApplySuccess
<1>13. CASE SucceedOperation(w) BY <1>13 DEF SucceedOperation
<1>14. CASE FinishJob(w) BY <1>14 DEF FinishJob
<1> QED BY <1>1, <1>2, <1>3, <1>4, <1>5, <1>6, <1>7, <1>8, <1>9, <1>10, <1>11, <1>12,
          <1>13, <1>14

\* The steps of a worker without locks that stays without: before the locks, or after
\* they are gone.
BareStep(w) ==
  \/ (\E o \in Ops : Claim(w, o)) \/ (TryAcquire(w) /\ ~LocksFree(w))
  \/ ReadBusyJob(w) \/ GiveBack(w) \/ AbandonJob(w) \/ AbandonOperation(w)

\* A step outside a run touches no key.
LEMMA BareMoves ==
  ASSUME WorkerType, NEW w \in Workers, BareStep(w)
  PROVE  /\ pc[w] \notin RunPhases /\ pc'[w] \notin RunPhases
         /\ \A v \in Workers \ {w} : pc'[v] = pc[v] /\ cur'[v] = cur[v] /\ pos'[v] = pos[v]
         /\ UNCHANGED <<held, kind, target, step>>
<1> USE DEF BareStep, Goto, Leave, RunPhases, operationVars, workerVars, WorkerType
<1>1. CASE \E o \in Ops : Claim(w, o) BY <1>1 DEF Claim
<1>2. CASE TryAcquire(w) /\ ~LocksFree(w) BY <1>2 DEF TryAcquire
<1>3. CASE ReadBusyJob(w) BY <1>3 DEF ReadBusyJob
<1>4. CASE GiveBack(w) BY <1>4 DEF GiveBack
<1>5. CASE AbandonJob(w) BY <1>5 DEF AbandonJob
<1>6. CASE AbandonOperation(w) BY <1>6 DEF AbandonOperation
<1> QED BY <1>1, <1>2, <1>3, <1>4, <1>5, <1>6

\* The steps of a worker that loses or returns its locks.
DroppingStep(w) == Release(w) \/ Exception(w) \/ Crash(w)

\* A step that ends a run drops every key.
LEMMA DroppingMoves ==
  ASSUME WorkerType, NEW w \in Workers, DroppingStep(w)
  PROVE  /\ held' = [held EXCEPT ![w] = {}] /\ pc'[w] \notin RunPhases
         /\ \A v \in Workers \ {w} : pc'[v] = pc[v] /\ cur'[v] = cur[v] /\ pos'[v] = pos[v]
         /\ UNCHANGED <<kind, target, step>>
<1> USE DEF DroppingStep, Goto, Leave, RunPhases, operationVars, workerVars, WorkerType
<1>1. CASE Release(w) BY <1>1 DEF Release
<1>2. CASE Exception(w) BY <1>2 DEF Exception
<1>3. CASE Crash(w) BY <1>3 DEF Crash
<1> QED BY <1>1, <1>2, <1>3

\* The steps that move no worker.
QuietStep ==
  \/ \E d \in Deployments, k \in Kinds : Check(d, k)
  \/ \E w \in Workers : RecoverStale(w) \/ Heartbeat(w) \/ Pause(w)
  \/ \E o \in Ops : Time(o)
  \/ UNCHANGED vars

\* Sweeps, heartbeats and time touch no worker's run.
LEMMA QuietMoves ==
  ASSUME QuietStep PROVE UNCHANGED <<pc, cur, pos, held, kind, target, step>>
BY DEF QuietStep, Check, RecoverStale, Heartbeat, Pause, Time, LeaseExpires,
       BecomesReady, vars, operationVars, workerVars

\* Every step is one of these, an enqueue, or a worker taking its locks.
LEMMA StepKinds ==
  ASSUME [Next]_vars
  PROVE  \/ QuietStep
         \/ \E a \in asked, o \in Ops : Enqueue(a, o)
         \/ \E w \in Workers :
              \/ HoldingStep(w) \/ BareStep(w) \/ DroppingStep(w)
              \/ TryAcquire(w) /\ LocksFree(w)
BY DEF Next, Poll, Work, Trouble, QuietStep, HoldingStep, BareStep, DroppingStep

\* Every action keeps the locks in order.
LEMMA LockStep == ASSUME TypeInv, LockInv, [Next]_vars PROVE LockInv'
<1> WorkerType /\ NodeType /\ OperationType BY DEF TypeInv, TypeOK
<1>1. CASE QuietStep
  BY <1>1, QuietMoves, LockKept
<1>2. ASSUME NEW a \in asked, NEW o \in Ops, Enqueue(a, o) PROVE LockInv'
  <2>1. UNCHANGED <<pc, cur, held>> /\ ~Created(o) /\ target' = [target EXCEPT ![o] = a.dep]
    BY <1>2 DEF Enqueue, workerVars
  <2>2. \A w \in Workers : pc[w] \in RunPhases => cur[w] \in Ops /\ cur[w] # o
    BY <2>1 DEF WorkerType, RunPhases
  <2>3. \A w \in Workers : pc[w] \in RunPhases => target'[cur[w]] = target[cur[w]]
    BY <2>1, <2>2 DEF OperationType
  <2> QED BY <2>1, <2>3, LockKept
<1>3. ASSUME NEW w \in Workers, HoldingStep(w) PROVE LockInv'
  BY <1>3, HoldingMoves, LockKept DEF WorkerType
<1>4. ASSUME NEW w \in Workers, BareStep(w) PROVE LockInv'
  <2>1. \A v \in Workers : pc'[v] \in RunPhases <=> pc[v] \in RunPhases
    BY <1>4, BareMoves
  <2>2. \A v \in Workers : pc[v] \in RunPhases => cur'[v] = cur[v]
    BY <1>4, BareMoves
  <2>3. UNCHANGED <<held, target>> BY <1>4, BareMoves
  <2> QED BY <2>1, <2>2, <2>3, LockKept
<1>5. ASSUME NEW w \in Workers, DroppingStep(w) PROVE LockInv'
  BY <1>5, DroppingMoves, LockDropped
<1>6. ASSUME NEW w \in Workers, TryAcquire(w), LocksFree(w) PROVE LockInv'
  <2>1. /\ held' = [held EXCEPT ![w] = LockKeys(Place(w))]
        /\ pc' = [pc EXCEPT ![w] = "load"] /\ UNCHANGED <<cur, target>>
    BY <1>6 DEF TryAcquire, Goto, operationVars
  <2>2. HoldsItsKeys'
    BY <2>1 DEF LockInv, HoldsItsKeys, Running, Place, LockKeys, NodeType, WorkerType,
                RunPhases
  <2>3. \A v \in Workers \ {w} : LockKeys(Place(w)) \cap held[v] = {}
    BY <1>6 DEF LocksFree
  <2>4. KeysDisjoint'
    BY <2>1, <2>3 DEF LockInv, KeysDisjoint, NodeType
  <2> QED BY <2>2, <2>4 DEF LockInv
<1> QED BY <1>1, <1>2, <1>3, <1>4, <1>5, <1>6, StepKinds

\* Two workers with locks work on different nodes.
LEMMA Apart ==
  ASSUME LockInv, NEW v \in Workers, NEW w \in Workers, v # w, Running(v), Running(w)
  PROVE  NodeOf[Place(v)] # NodeOf[Place(w)]
<1>1. NodeOf[Place(v)] \in held[v] /\ NodeOf[Place(w)] \in held[w]
  BY DEF LockInv, HoldsItsKeys, LockKeys
<1> QED BY <1>1 DEF LockInv, KeysDisjoint

\* OneRunnerPerNode: whatever happens to the leases of their jobs, two workers never
\* run operations on one node at the same time (operation_executor.py:190-225).
THEOREM LocksKeepApart == Spec => []OneRunnerPerNode
<1>1. LockInv => OneRunnerPerNode BY Apart DEF OneRunnerPerNode
<1>2. Init => TypeInv /\ LockInv BY TypeInit, LockInit
<1>3. TypeInv /\ LockInv /\ [Next]_vars => (TypeInv /\ LockInv)' BY TypeStep, LockStep
<1> QED BY <1>1, <1>2, <1>3, PTL DEF Spec

-----------------------------------------------------------------------------
(*************************** succeeded steps *******************************)

\* The step a worker is at is RUNNING: begin_step marked it, and nobody else writes it.
OpenAt == \A w \in Workers : pc[w] \in StepPhases => step[cur[w]][pos[w]] = "RUNNING"

\* No run is open at the start.
LEMMA OpenInit == Init => OpenAt
BY DEF Init, OpenAt, StepPhases

\* What a worker with locks does to steps: nothing, begin an open one, or write the
\* one it is at and leave it.
LEMMA HoldingWrites ==
  ASSUME WorkerType, NEW w \in Workers, HoldingStep(w)
  PROVE  \/ /\ UNCHANGED <<step, pos>>
            /\ pc'[w] \in StepPhases => pc[w] \in StepPhases
         \/ \E i \in 1 .. 5 : BeginStep(w, i)
         \/ /\ pc[w] \in StepPhases /\ pc'[w] \notin StepPhases
            /\ (\E to \in OpenSteps \cup Finished : SetStep(w, to)) /\ pos' = pos
<1> USE DEF HoldingStep, Goto, StepPhases, operationVars, workerVars, seenVars
<1>1. CASE Load(w) \/ RequeueRetry(w) \/ FailOperation(w) \/ FailJob(w)
             \/ ApplySuccess(w) \/ SucceedOperation(w) \/ FinishJob(w)
  BY <1>1 DEF Load, RequeueRetry, FailOperation, FailJob, ApplySuccess, SucceedOperation,
              FinishJob, WorkerType
<1>2. CASE CallNode(w) \/ CallFails(w) \/ CommitRow(w)
  BY <1>2 DEF CallNode, CallFails, CommitRow, Command, WorkerType
<1>3. CASE SucceedStep(w)
  BY <1>3 DEF SucceedStep, WorkerType, Finished
<1>4. CASE BumpStep(w)
  BY <1>4 DEF BumpStep, WorkerType, OpenSteps
<1>5. CASE FailStep(w)
  BY <1>5 DEF FailStep, WorkerType, Finished
<1> QED BY <1>1, <1>2, <1>3, <1>4, <1>5

\* A worker with locks writes steps of its own operation only, and no other worker
\* with locks is at that operation.
LEMMA HoldingWritesOwn ==
  ASSUME TypeInv, LockInv, NEW w \in Workers, HoldingStep(w)
  PROVE  /\ \A o \in Ops : o # cur[w] => step'[o] = step[o]
         /\ \A v \in Workers \ {w} :
              /\ pc'[v] = pc[v] /\ cur'[v] = cur[v] /\ pos'[v] = pos[v]
              /\ pc[v] \in StepPhases => cur[v] \in Ops /\ cur[v] # cur[w]
<1> WorkerType /\ OperationType BY DEF TypeInv, TypeOK
<1>1. Running(w) BY HoldingMoves DEF Running
<1>2. \A o \in Ops : o # cur[w] => step'[o] = step[o]
  <2>1. CASE UNCHANGED <<step, pos>> BY <2>1
  <2>2. CASE \E i \in 1 .. 5 : BeginStep(w, i) BY <2>2 DEF BeginStep, OperationType
  <2>3. CASE \E to \in OpenSteps \cup Finished : SetStep(w, to)
    BY <2>3 DEF SetStep, OperationType
  <2> QED BY <2>1, <2>2, <2>3, HoldingWrites
<1>3. \A v \in Workers \ {w} : pc'[v] = pc[v] /\ cur'[v] = cur[v]
  BY HoldingMoves DEF WorkerType
<1>4. \A v \in Workers \ {w} : pos'[v] = pos[v]
  BY HoldingWrites DEF BeginStep, WorkerType
<1>5. \A v \in Workers \ {w} : pc[v] \in StepPhases => cur[v] \in Ops /\ cur[v] # cur[w]
  <2> SUFFICES ASSUME NEW v \in Workers \ {w}, pc[v] \in StepPhases
               PROVE  cur[v] \in Ops /\ cur[v] # cur[w]
    OBVIOUS
  <2>1. Running(v) BY DEF StepPhases, Running, RunPhases
  <2>2. cur[v] \in Ops BY DEF WorkerType, StepPhases
  <2>3. NodeOf[Place(v)] # NodeOf[Place(w)] BY <1>1, <2>1, Apart
  <2> QED BY <2>2, <2>3 DEF Place
<1> QED BY <1>2, <1>3, <1>4, <1>5

\* Every action keeps the worker's step RUNNING.
LEMMA OpenStep == ASSUME TypeInv, LockInv, OpenAt, [Next]_vars PROVE OpenAt'
<1> WorkerType /\ OperationType /\ StepShape BY DEF TypeInv, TypeOK
<1>1. CASE QuietStep
  BY <1>1, QuietMoves DEF OpenAt
<1>2. ASSUME NEW a \in asked, NEW o \in Ops, Enqueue(a, o) PROVE OpenAt'
  <2>1. UNCHANGED <<pc, cur, pos>> /\ ~Created(o)
    BY <1>2 DEF Enqueue, workerVars
  <2>2. \A w \in Workers : pc[w] \in StepPhases => cur[w] \in Ops /\ cur[w] # o
    BY <2>1 DEF WorkerType, StepPhases
  <2>3. \A p \in Ops : p # o => step'[p] = step[p]
    BY <1>2 DEF Enqueue, OperationType
  <2> QED BY <2>1, <2>2, <2>3 DEF OpenAt
<1>3. ASSUME NEW w \in Workers, HoldingStep(w) PROVE OpenAt'
  <2>1. \A v \in Workers \ {w} : pc'[v] \in StepPhases => step'[cur'[v]][pos'[v]] = "RUNNING"
    BY <1>3, HoldingWritesOwn DEF OpenAt
  <2>2. pc'[w] \in StepPhases => step'[cur'[w]][pos'[w]] = "RUNNING"
    <3>1. cur' = cur BY <1>3, HoldingMoves
    <3>2. CASE UNCHANGED <<step, pos>> /\ (pc'[w] \in StepPhases => pc[w] \in StepPhases)
      BY <3>1, <3>2 DEF OpenAt
    <3>3. ASSUME NEW i \in 1 .. 5, BeginStep(w, i) PROVE step'[cur'[w]][pos'[w]] = "RUNNING"
      <4>1. cur[w] \in Ops /\ i \in DOMAIN step[cur[w]]
        BY <3>3 DEF BeginStep, Open, WorkerType
      <4>2. pos'[w] = i /\ step' = [step EXCEPT ![cur[w]][i] = "RUNNING"]
        BY <3>3 DEF BeginStep, WorkerType
      <4> QED BY <3>1, <4>1, <4>2 DEF OperationType
    <3> QED BY <1>3, <3>2, <3>3, HoldingWrites
  <2> QED BY <2>1, <2>2 DEF OpenAt
<1>4. ASSUME NEW w \in Workers, BareStep(w) PROVE OpenAt'
  <2>1. pc'[w] \notin StepPhases BY <1>4, BareMoves DEF StepPhases, RunPhases
  <2> QED BY <1>4, <2>1, BareMoves DEF OpenAt
<1>5. ASSUME NEW w \in Workers, DroppingStep(w) PROVE OpenAt'
  <2>1. pc'[w] \notin StepPhases BY <1>5, DroppingMoves DEF StepPhases, RunPhases
  <2> QED BY <1>5, <2>1, DroppingMoves DEF OpenAt
<1>6. ASSUME NEW w \in Workers, TryAcquire(w), LocksFree(w) PROVE OpenAt'
  <2>1. pc' = [pc EXCEPT ![w] = "load"] /\ UNCHANGED <<cur, pos, step>>
    BY <1>6 DEF TryAcquire, Goto, operationVars
  <2> QED BY <2>1 DEF OpenAt, WorkerType, StepPhases
<1> QED BY <1>1, <1>2, <1>3, <1>4, <1>5, <1>6, StepKinds

\* No action touches a succeeded step.
LEMMA SucceededKept ==
  ASSUME TypeInv, OpenAt, [Next]_vars,
         NEW o \in Ops, NEW i \in DOMAIN step[o], step[o][i] = "SUCCEEDED"
  PROVE  step'[o][i] = "SUCCEEDED"
<1> WorkerType /\ OperationType /\ StepShape BY DEF TypeInv, TypeOK
<1>1. CASE QuietStep
  BY <1>1, QuietMoves
<1>2. ASSUME NEW a \in asked, NEW p \in Ops, Enqueue(a, p) PROVE step'[o][i] = "SUCCEEDED"
  <2>1. ~Created(p) /\ \A q \in Ops : q # p => step'[q] = step[q]
    BY <1>2 DEF Enqueue, OperationType
  <2>2. o # p BY <2>1 DEF StepShape
  <2> QED BY <2>1, <2>2
<1>3. ASSUME NEW w \in Workers, HoldingStep(w) PROVE step'[o][i] = "SUCCEEDED"
  <2>1. CASE UNCHANGED <<step, pos>>
    BY <2>1
  <2>2. ASSUME NEW k \in 1 .. 5, BeginStep(w, k) PROVE step'[o][i] = "SUCCEEDED"
    <3>1. step[cur[w]][k] \in OpenSteps /\ step' = [step EXCEPT ![cur[w]][k] = "RUNNING"]
      BY <2>2 DEF BeginStep, Open
    <3>2. ~(cur[w] = o /\ k = i) BY <3>1 DEF OpenSteps
    <3> QED BY <3>1, <3>2 DEF OperationType
  <2>3. ASSUME pc[w] \in StepPhases, NEW to \in OpenSteps \cup Finished, SetStep(w, to)
        PROVE  step'[o][i] = "SUCCEEDED"
    <3>1. step[cur[w]][pos[w]] = "RUNNING" BY <2>3 DEF OpenAt
    <3>2. ~(cur[w] = o /\ pos[w] = i) BY <3>1
    <3> QED BY <2>3, <3>2 DEF SetStep, OperationType
  <2> QED BY <1>3, <2>1, <2>2, <2>3, HoldingWrites
<1>4. ASSUME NEW w \in Workers, BareStep(w) PROVE step'[o][i] = "SUCCEEDED"
  BY <1>4, BareMoves
<1>5. ASSUME NEW w \in Workers, DroppingStep(w) PROVE step'[o][i] = "SUCCEEDED"
  BY <1>5, DroppingMoves
<1>6. ASSUME NEW w \in Workers, TryAcquire(w) PROVE step'[o][i] = "SUCCEEDED"
  BY <1>6 DEF TryAcquire, operationVars
<1> QED BY <1>1, <1>2, <1>3, <1>4, <1>5, <1>6, StepKinds

\* StepsNeverRepeat: a step that has succeeded is never marked anything else, though
\* several workers may believe they own its job (job_runner.py, operation_executor.py).
THEOREM SucceededForGood == Spec => StepsNeverRepeat
<1>1. Init => TypeInv /\ LockInv /\ OpenAt BY TypeInit, LockInit, OpenInit
<1>2. TypeInv /\ LockInv /\ OpenAt /\ [Next]_vars => (TypeInv /\ LockInv /\ OpenAt)'
  BY TypeStep, LockStep, OpenStep
<1>3. TypeInv /\ OpenAt /\ [Next]_vars =>
        [\A o \in Ops : \A i \in DOMAIN step[o] :
           step[o][i] = "SUCCEEDED" => step'[o][i] = "SUCCEEDED"]_vars
  BY SucceededKept
<1> QED BY <1>1, <1>2, <1>3, PTL DEF Spec, StepsNeverRepeat

-----------------------------------------------------------------------------
(***************************** live jobs ***********************************)

\* Why an active operation keeps a live job: a job is ended only after its operation
\* has ended, and a session that has seen a terminal status is right for ever.
SeenIsTrue ==
  \A w \in Workers :
    seenStatus[w] \in Finished => pc[w] # "idle" /\ status[cur[w]] \in Finished
EndedFirst ==
  \A w \in Workers : pc[w] \in {"failjob", "done"} => status[cur[w]] \in Finished
FreshQueued == \A o \in Ops : ~Created(o) => job[o] = "QUEUED"
EndInv == SeenIsTrue /\ EndedFirst /\ FreshQueued /\ ActiveHasLiveJob

\* No operation has ended at the start.
LEMMA EndInit == Init => EndInv
BY DEF Init, EndInv, SeenIsTrue, EndedFirst, FreshQueued, ActiveHasLiveJob, Finished,
       Active, Created

\* A step that ends no operation, puts jobs back at most, and moves no worker to the
\* end of a job or away from one, keeps EndInv.
LEMMA EndKept ==
  ASSUME EndInv, UNCHANGED <<status, orphaned, kind, cur, seenStatus>>,
         \A o \in Ops : job'[o] \in {job[o], "QUEUED"},
         \A w \in Workers : /\ pc'[w] \in {"failjob", "done"} => pc'[w] = pc[w]
                            /\ pc[w] = "abandon" => pc'[w] = "abandon"
                            /\ pc[w] # "idle" => pc'[w] # "idle"
  PROVE  EndInv'
<1>1. SeenIsTrue' BY DEF EndInv, SeenIsTrue
<1>2. EndedFirst' BY DEF EndInv, EndedFirst
<1>3. FreshQueued' BY DEF EndInv, FreshQueued, Created
<1>4. ActiveHasLiveJob' BY DEF EndInv, ActiveHasLiveJob, Created
<1> QED BY <1>1, <1>2, <1>3, <1>4 DEF EndInv

\* A worker that leaves a job it was not about to end for the operation, with the
\* rows as they are or its job put back, keeps EndInv.
LEMMA EndLeft ==
  ASSUME EndInv, WorkerType, NEW w \in Workers, Leave(w), UNCHANGED <<status, kind>>,
         \A o \in Ops : job'[o] \in {job[o], "QUEUED"}, orphaned \subseteq orphaned',
         pc[w] = "abandon" /\ status[cur[w]] \in Active => cur[w] \in orphaned'
  PROVE  EndInv'
<1>1. SeenIsTrue' BY DEF EndInv, SeenIsTrue, Leave, Goto, Finished, WorkerType
<1>2. EndedFirst' BY DEF EndInv, EndedFirst, Leave, Goto, WorkerType
<1>3. FreshQueued' BY DEF EndInv, FreshQueued, Created
<1>4. ActiveHasLiveJob'
  <2> SUFFICES ASSUME NEW o \in Ops, Created(o)', status'[o] \in Active
               PROVE  \/ job'[o] \in {"QUEUED", "RUNNING"}
                      \/ \E v \in Workers : cur'[v] = o /\ pc'[v] = "abandon"
                      \/ o \in orphaned'
    BY DEF ActiveHasLiveJob
  <2>1. \/ job[o] \in {"QUEUED", "RUNNING"}
        \/ \E v \in Workers : cur[v] = o /\ pc[v] = "abandon"
        \/ o \in orphaned
    BY DEF EndInv, ActiveHasLiveJob, Created
  <2>2. ASSUME NEW v \in Workers, cur[v] = o, pc[v] = "abandon", v # w
        PROVE  cur'[v] = o /\ pc'[v] = "abandon"
    BY <2>2 DEF Leave, Goto, WorkerType
  <2> QED BY <2>1, <2>2
<1> QED BY <1>1, <1>2, <1>3, <1>4 DEF EndInv

\* Every action keeps EndInv.
LEMMA EndStep == ASSUME TypeInv, EndInv, [Next]_vars PROVE EndInv'
<1> USE DEF operationVars, jobVars, rowVars, seenVars, workerVars, historyVars
<1> OperationType /\ JobType /\ WorkerType BY DEF TypeInv, TypeOK
<1>1. ASSUME NEW d \in Deployments, NEW k \in Kinds, Check(d, k) PROVE EndInv'
  BY <1>1, EndKept DEF Check
<1>2. ASSUME NEW a \in asked, NEW o \in Ops, Enqueue(a, o) PROVE EndInv'
  <2>1. /\ UNCHANGED <<status, job, pc, cur, seenStatus, orphaned>>
        /\ ~Created(o) /\ kind' = [kind EXCEPT ![o] = a.kind]
    BY <1>2 DEF Enqueue
  <2>2. SeenIsTrue' /\ EndedFirst' BY <2>1 DEF EndInv, SeenIsTrue, EndedFirst
  <2>3. FreshQueued' /\ ActiveHasLiveJob'
    <3>1. \A p \in Ops \ {o} : Created(p)' <=> Created(p)
      BY <2>1 DEF Created, OperationType
    <3>2. job[o] = "QUEUED" BY <2>1 DEF EndInv, FreshQueued
    <3>3. FreshQueued' BY <2>1, <3>1, <3>2 DEF EndInv, FreshQueued
    <3>4. ActiveHasLiveJob' BY <2>1, <3>1, <3>2 DEF EndInv, ActiveHasLiveJob
    <3> QED BY <3>3, <3>4
  <2> QED BY <2>2, <2>3 DEF EndInv
<1>3. ASSUME NEW w \in Workers, RecoverStale(w) PROVE EndInv'
  BY <1>3, EndKept DEF RecoverStale
<1>4. ASSUME NEW w \in Workers, NEW o \in Ops, Claim(w, o) PROVE EndInv'
  <2>1. /\ job' = [job EXCEPT ![o] = "RUNNING"] /\ UNCHANGED <<kind, seenStatus, orphaned>>
        /\ status' = [status EXCEPT ![o] = IF @ = "QUEUED" THEN "RUNNING" ELSE @]
        /\ cur' = [cur EXCEPT ![w] = o] /\ pc' = [pc EXCEPT ![w] = "claimed"]
        /\ pc[w] = "idle" /\ Created(o)
    BY <1>4 DEF Claim, Claimable, Goto
  <2>2. \A p \in Ops : (status[p] \in Finished <=> status'[p] \in Finished)
                      /\ (status[p] \in Active <=> status'[p] \in Active)
    BY <2>1 DEF OperationType, Finished, Active
  <2>3. \A v \in Workers \ {w} : pc'[v] = pc[v] /\ cur'[v] = cur[v]
    BY <2>1 DEF WorkerType
  <2>4. pc'[w] = "claimed" /\ seenStatus[w] \notin Finished
    BY <2>1 DEF WorkerType, EndInv, SeenIsTrue
  <2>5. \A v \in Workers : pc[v] # "idle" => cur[v] \in Ops
    BY DEF WorkerType
  <2>6. SeenIsTrue' BY <2>1, <2>2, <2>3, <2>4, <2>5 DEF EndInv, SeenIsTrue
  <2>7. EndedFirst' BY <2>2, <2>3, <2>4, <2>5 DEF EndInv, EndedFirst
  <2>8. FreshQueued' BY <2>1 DEF EndInv, FreshQueued, Created, JobType
  <2>9. ActiveHasLiveJob'
    <3>1. \A p \in Ops \ {o} : job'[p] = job[p] BY <2>1 DEF JobType
    <3>2. job'[o] = "RUNNING" BY <2>1 DEF JobType
    <3>3. \A v \in Workers : pc[v] = "abandon" => pc'[v] = pc[v] /\ cur'[v] = cur[v]
      BY <2>1, <2>3
    <3> QED BY <2>1, <2>2, <3>1, <3>2, <3>3 DEF EndInv, ActiveHasLiveJob, Created
  <2> QED BY <2>6, <2>7, <2>8, <2>9 DEF EndInv
<1>5. ASSUME NEW w \in Workers,
             \/ TryAcquire(w) \/ ReadBusyJob(w) \/ (\E i \in 1 .. 5 : BeginStep(w, i))
             \/ CommitRow(w) \/ SucceedStep(w) \/ BumpStep(w) \/ FailStep(w)
             \/ ApplySuccess(w)
      PROVE  EndInv'
  BY <1>5, EndKept DEF TryAcquire, ReadBusyJob, BeginStep, CommitRow, SucceedStep,
                       BumpStep, FailStep, ApplySuccess, Goto, WorkerType
<1>6. ASSUME NEW w \in Workers, CallNode(w) \/ CallFails(w) \/ Exception(w) PROVE EndInv'
  BY <1>6, EndKept DEF CallNode, Command, CallFails, Exception, Goto, WorkerType
<1>7. ASSUME NEW w \in Workers, Heartbeat(w) \/ Pause(w) PROVE EndInv'
  BY <1>7, EndKept DEF Heartbeat, Pause
<1>8. ASSUME NEW o \in Ops, Time(o) PROVE EndInv'
  BY <1>8, EndKept DEF Time, LeaseExpires, BecomesReady
<1>9. ASSUME NEW w \in Workers, RequeueRetry(w) PROVE EndInv'
  <2>1. \A o \in Ops : job'[o] \in {job[o], "QUEUED"}
    BY <1>9 DEF RequeueRetry, Requeue, JobType
  <2> QED BY <1>9, <2>1, EndKept DEF RequeueRetry, Goto, WorkerType
<1>10. ASSUME NEW w \in Workers, GiveBack(w) PROVE EndInv'
  <2>1. \A o \in Ops : job'[o] \in {job[o], "QUEUED"}
    BY <1>10 DEF GiveBack, Requeue, JobType
  <2> QED BY <1>10, <2>1, EndLeft DEF GiveBack
<1>11. ASSUME NEW w \in Workers, Release(w) PROVE EndInv'
  BY <1>11, EndLeft DEF Release
<1>12. ASSUME NEW w \in Workers, Crash(w) PROVE EndInv'
  BY <1>12, EndLeft DEF Crash
<1>13. ASSUME NEW w \in Workers, Load(w) PROVE EndInv'
  <2>1. /\ seenStatus' = [seenStatus EXCEPT ![w] = status[cur[w]]]
        /\ pc' = [pc EXCEPT ![w] = "next"] /\ pc[w] = "load"
        /\ UNCHANGED <<status, job, kind, orphaned, cur>>
    BY <1>13 DEF Load, Goto
  <2>2. SeenIsTrue' BY <2>1 DEF EndInv, SeenIsTrue, WorkerType
  <2>3. EndedFirst' BY <2>1 DEF EndInv, EndedFirst, WorkerType
  <2>4. FreshQueued' BY <2>1 DEF EndInv, FreshQueued, Created
  <2>5. ActiveHasLiveJob' BY <2>1 DEF EndInv, ActiveHasLiveJob, Created, WorkerType
  <2> QED BY <2>2, <2>3, <2>4, <2>5 DEF EndInv
<1>14. ASSUME NEW w \in Workers, FailOperation(w) \/ SucceedOperation(w) PROVE EndInv'
  <2>1. PICK to \in Finished :
          /\ status' = [status EXCEPT ![cur[w]] = IF seenStatus[w] \in Finished THEN @ ELSE to]
          /\ pc[w] \in {"failed", "succeed"}
          /\ \E p \in {"failjob", "done"} : pc' = [pc EXCEPT ![w] = p]
          /\ UNCHANGED <<job, kind, orphaned, cur, seenStatus>>
    BY <1>14 DEF FailOperation, SucceedOperation, EndOperation, Goto, Finished
  <2>2. cur[w] \in Ops /\ status'[cur[w]] \in Finished
    BY <2>1 DEF EndInv, SeenIsTrue, WorkerType, OperationType
  <2>3. \A o \in Ops : status'[o] \in Finished \/ status'[o] = status[o]
    BY <2>1, <2>2 DEF OperationType
  <2>4. \A v \in Workers : v # w => pc'[v] = pc[v]
    BY <2>1 DEF WorkerType
  <2>5. \A v \in Workers : pc[v] # "idle" => cur[v] \in Ops
    BY DEF WorkerType
  <2>6. pc'[w] \in {"failjob", "done"} BY <2>1 DEF WorkerType
  <2>7. SeenIsTrue' BY <2>1, <2>3, <2>4, <2>5, <2>6 DEF EndInv, SeenIsTrue
  <2>8. EndedFirst' BY <2>1, <2>2, <2>3, <2>4, <2>5 DEF EndInv, EndedFirst
  <2>9. FreshQueued' BY <2>1 DEF EndInv, FreshQueued, Created
  <2>10. Finished \cap Active = {} BY DEF Finished, Active
  <2>11. ActiveHasLiveJob'
    BY <2>1, <2>3, <2>4, <2>10 DEF EndInv, ActiveHasLiveJob, Created
  <2> QED BY <2>7, <2>8, <2>9, <2>11 DEF EndInv
<1>15. ASSUME NEW w \in Workers, FailJob(w) \/ FinishJob(w) PROVE EndInv'
  <2>1. /\ \E to \in {"DONE", "FAILED"} :
             job' = [job EXCEPT ![cur[w]] = IF seenJob[w] = to THEN @ ELSE to]
        /\ pc[w] \in {"failjob", "done"} /\ pc' = [pc EXCEPT ![w] = "release"]
        /\ UNCHANGED <<status, kind, orphaned, cur, seenStatus>>
    BY <1>15 DEF FailJob, FinishJob, WriteJob, Goto
  <2>2. status[cur[w]] \in Finished /\ Created(cur[w])
    BY <2>1 DEF EndInv, EndedFirst, WorkerType
  <2>3. \A o \in Ops : o # cur[w] => job'[o] = job[o]
    BY <2>1 DEF JobType
  <2>4. SeenIsTrue' BY <2>1 DEF EndInv, SeenIsTrue, WorkerType
  <2>5. EndedFirst' BY <2>1 DEF EndInv, EndedFirst, WorkerType
  <2>6. FreshQueued' BY <2>1, <2>2, <2>3 DEF EndInv, FreshQueued, Created
  <2>7. Finished \cap Active = {} BY DEF Finished, Active
  <2>8. ActiveHasLiveJob'
    BY <2>1, <2>2, <2>3, <2>7 DEF EndInv, ActiveHasLiveJob, Created, WorkerType
  <2> QED BY <2>4, <2>5, <2>6, <2>8 DEF EndInv
<1>16. ASSUME NEW w \in Workers, AbandonJob(w) PROVE EndInv'
  <2>1. /\ job' = [job EXCEPT ![cur[w]] = "FAILED"]
        /\ pc[w] = "unhandled" /\ pc' = [pc EXCEPT ![w] = "abandon"]
        /\ UNCHANGED <<status, kind, orphaned, cur, seenStatus>>
    BY <1>16 DEF AbandonJob, Goto
  <2>2. Created(cur[w]) BY <2>1 DEF WorkerType
  <2>3. \A o \in Ops : o # cur[w] => job'[o] = job[o]
    BY <2>1 DEF JobType
  <2>4. SeenIsTrue' BY <2>1 DEF EndInv, SeenIsTrue, WorkerType
  <2>5. EndedFirst' BY <2>1 DEF EndInv, EndedFirst, WorkerType
  <2>6. FreshQueued' BY <2>1, <2>2, <2>3 DEF EndInv, FreshQueued, Created
  <2>7. ActiveHasLiveJob'
    BY <2>1, <2>3 DEF EndInv, ActiveHasLiveJob, Created, WorkerType
  <2> QED BY <2>4, <2>5, <2>6, <2>7 DEF EndInv
<1>17. ASSUME NEW w \in Workers, AbandonOperation(w) PROVE EndInv'
  <2>1. /\ status' = [status EXCEPT ![cur[w]] = IF @ = "SUCCEEDED" THEN @ ELSE "FAILED"]
        /\ pc[w] = "abandon" /\ Leave(w) /\ UNCHANGED <<job, kind, orphaned>>
    BY <1>17 DEF AbandonOperation
  <2>2. cur[w] \in Ops BY <2>1 DEF WorkerType
  <2>3. /\ status'[cur[w]] \in Finished
        /\ \A o \in Ops : o # cur[w] => status'[o] = status[o]
    BY <2>1, <2>2 DEF OperationType, Finished
  <2>4. \A v \in Workers \ {w} : /\ pc'[v] = pc[v] /\ cur'[v] = cur[v]
                                 /\ seenStatus'[v] = seenStatus[v]
    BY <2>1 DEF Leave, Goto, WorkerType
  <2>5. pc'[w] = "idle" /\ seenStatus'[w] = "RUNNING"
    BY <2>1 DEF Leave, Goto, WorkerType
  <2>6. \A v \in Workers : pc[v] # "idle" => cur[v] \in Ops
    BY DEF WorkerType
  <2>7. SeenIsTrue' BY <2>3, <2>4, <2>5, <2>6 DEF EndInv, SeenIsTrue, Finished
  <2>8. EndedFirst' BY <2>3, <2>4, <2>5, <2>6 DEF EndInv, EndedFirst
  <2>9. FreshQueued' BY <2>1 DEF EndInv, FreshQueued, Created
  <2>10. Finished \cap Active = {} BY DEF Finished, Active
  <2>11. ActiveHasLiveJob'
    BY <2>1, <2>3, <2>4, <2>10 DEF EndInv, ActiveHasLiveJob, Created
  <2> QED BY <2>7, <2>8, <2>9, <2>11 DEF EndInv
<1>18. CASE UNCHANGED vars
  BY <1>18, EndKept DEF vars
<1> QED BY <1>1, <1>2, <1>3, <1>4, <1>5, <1>6, <1>7, <1>8, <1>9, <1>10, <1>11, <1>12,
          <1>13, <1>14, <1>15, <1>16, <1>17, <1>18 DEF Next, Poll, Work, Trouble

\* ActiveHasLiveJob: no interleaving of workers, failures and crashes leaves an active
\* operation whose job nobody will take, but for the one in poll_once that `orphaned`
\* names; such an operation would block its deployment for good.
THEOREM ActiveKeepsJob == Spec => []ActiveHasLiveJob
<1>1. EndInv => ActiveHasLiveJob BY DEF EndInv
<1>2. Init => TypeInv /\ EndInv BY TypeInit, EndInit
<1>3. TypeInv /\ EndInv /\ [Next]_vars => (TypeInv /\ EndInv)' BY TypeStep, EndStep
<1> QED BY <1>1, <1>2, <1>3, PTL DEF Spec

-----------------------------------------------------------------------------
(******************************* leases ************************************)

\* Until a worker crashes or misses its heartbeats a lease is a fence: a worker busy with
\* a job owns it, and nobody else touches it ...
Engaged(w) == pc[w] \notin {"idle", "release", "abandon"}
OwnerWorks == \A w \in Workers : Engaged(w) => job[cur[w]] = "RUNNING" /\ owner[cur[w]] = w
RunningIsOwned ==
  \A o \in Ops : job[o] = "RUNNING" =>
    /\ owner[o] \in Workers /\ Engaged(owner[o]) /\ cur[owner[o]] = o
    /\ ~stale[o]

\* ... so that what its session has read of the job is what the row says.
Sessions == (RunPhases \ {"load", "release"}) \cup {"giveback"}
SeenIsNow ==
  \A w \in Workers : pc[w] \in Sessions =>
    seenJob[w] = "RUNNING" /\ seenAttempts[w] = attempts[cur[w]]
AttemptsHeld ==
  /\ \A o \in Ops : attempts[o] <= MaxAttempts
  /\ \A o \in Ops : job[o] = "QUEUED" => attempts[o] < MaxAttempts
  /\ \A w \in Workers : pc[w] = "requeue" => attempts[cur[w]] < MaxAttempts
Fenced == OwnerWorks /\ RunningIsOwned /\ SeenIsNow /\ AttemptsHeld
LeaseInv == ~disturbed => Fenced

\* No job is leased at the start.
LEMMA LeaseInit == Init => LeaseInv
BY QueueAssumption DEF Init, LeaseInv, Fenced, OwnerWorks, RunningIsOwned, SeenIsNow,
   AttemptsHeld, Engaged, Sessions, RunPhases

\* A step that leaves jobs and what sessions know of them alone, and moves workers only
\* within the phases a lease covers, keeps the fence.
LEMMA FenceKept ==
  ASSUME Fenced, UNCHANGED <<job, owner, stale, attempts, cur, seenJob, seenAttempts>>,
         \A w \in Workers :
           /\ Engaged(w)' <=> Engaged(w)
           /\ pc'[w] \in Sessions => pc[w] \in Sessions
           /\ pc'[w] = "requeue" => pc[w] = "requeue" \/ seenAttempts[w] < MaxAttempts
  PROVE  Fenced'
<1>1. OwnerWorks' BY DEF Fenced, OwnerWorks
<1>2. RunningIsOwned' BY DEF Fenced, RunningIsOwned
<1>3. SeenIsNow' BY DEF Fenced, SeenIsNow
<1>4. AttemptsHeld'
  <2>1. \A w \in Workers : pc'[w] = "requeue" => pc'[w] \in Sessions BY DEF Sessions, RunPhases
  <2> QED BY <2>1 DEF Fenced, AttemptsHeld, SeenIsNow
<1> QED BY <1>1, <1>2, <1>3, <1>4 DEF Fenced

\* A job is owned by one worker.
LEMMA OneOwner ==
  ASSUME Fenced, NEW v \in Workers, NEW w \in Workers, Engaged(v), Engaged(w), v # w
  PROVE  cur[v] # cur[w]
BY DEF Fenced, OwnerWorks

\* A worker that ends its lease and writes the job anew, with an attempt to spare if it
\* goes back to the queue, keeps the fence.
LEMMA FenceEnded ==
  ASSUME Fenced, TypeInv, NEW w \in Workers, Engaged(w),
         ~Engaged(w)', pc'[w] # "requeue", pc'[w] \notin Sessions,
         \A v \in Workers \ {w} :
           /\ pc'[v] = pc[v] /\ cur'[v] = cur[v]
           /\ seenJob'[v] = seenJob[v] /\ seenAttempts'[v] = seenAttempts[v],
         \A o \in Ops \ {cur[w]} :
           /\ job'[o] = job[o] /\ owner'[o] = owner[o]
           /\ stale'[o] = stale[o] /\ attempts'[o] = attempts[o],
         job'[cur[w]] # "RUNNING",
         attempts'[cur[w]] <= attempts[cur[w]],
         attempts'[cur[w]] \in Nat,
         job'[cur[w]] = "QUEUED" => attempts'[cur[w]] < MaxAttempts
  PROVE  Fenced'
<1> WorkerType /\ JobType BY DEF TypeInv, TypeOK
<1>1. \A v \in Workers \ {w} : Engaged(v)' = Engaged(v) BY DEF Engaged
<1>2. \A v \in Workers \ {w} : Engaged(v) => cur[v] \in Ops \ {cur[w]}
  BY OneOwner DEF WorkerType, Engaged
<1>3. \A v \in Workers \ {w} : pc[v] \in Sessions => Engaged(v)
  BY DEF Engaged, Sessions, RunPhases
<1>4. OwnerWorks' BY <1>1, <1>2 DEF Fenced, OwnerWorks
<1>5. RunningIsOwned'
  <2> SUFFICES ASSUME NEW o \in Ops, job'[o] = "RUNNING"
               PROVE  /\ owner'[o] \in Workers /\ Engaged(owner[o])' /\ cur'[owner'[o]] = o
                      /\ ~stale'[o] /\ owner'[o] = owner[o]
    BY DEF RunningIsOwned
  <2>1. o # cur[w] /\ job[o] = "RUNNING" OBVIOUS
  <2>2. owner[o] \in Workers \ {w} BY <2>1 DEF Fenced, RunningIsOwned
  <2> QED BY <1>1, <2>1, <2>2 DEF Fenced, RunningIsOwned
<1>6. SeenIsNow' BY <1>2, <1>3 DEF Fenced, SeenIsNow
<1>7. AttemptsHeld'
  <2>1. \A o \in Ops : attempts[o] \in Nat BY DEF JobType
  <2>2. cur[w] \in Ops BY DEF WorkerType, Engaged
  <2>3. \A o \in Ops : attempts'[o] <= MaxAttempts
    BY <2>1, <2>2, QueueAssumption DEF Fenced, AttemptsHeld
  <2>4. \A o \in Ops : job'[o] = "QUEUED" => attempts'[o] < MaxAttempts
    BY DEF Fenced, AttemptsHeld
  <2>5. \A v \in Workers : pc'[v] = "requeue" => attempts'[cur'[v]] < MaxAttempts
    <3> SUFFICES ASSUME NEW v \in Workers, pc'[v] = "requeue"
                 PROVE  attempts'[cur'[v]] < MaxAttempts
      OBVIOUS
    <3>1. v # w /\ pc[v] = "requeue" OBVIOUS
    <3>2. Engaged(v) BY <3>1 DEF Engaged
    <3> QED BY <1>2, <3>1, <3>2 DEF Fenced, AttemptsHeld
  <2> QED BY <2>3, <2>4, <2>5 DEF AttemptsHeld
<1> QED BY <1>4, <1>5, <1>6, <1>7 DEF Fenced

\* What is disturbed stays so.
LEMMA DisturbedStays == ASSUME [Next]_vars, disturbed PROVE disturbed'
<1> USE DEF historyVars
<1>1. ASSUME NEW w \in Workers, Poll(w) \/ Work(w) PROVE disturbed'
  BY <1>1 DEF Poll, RecoverStale, Claim, Work, TryAcquire, ReadBusyJob, GiveBack, Load,
    BeginStep, CallNode, CommitRow, SucceedStep, BumpStep, RequeueRetry, FailStep,
    FailOperation, FailJob, ApplySuccess, SucceedOperation, FinishJob, Release,
    AbandonJob, AbandonOperation
<1>2. ASSUME NEW w \in Workers, Heartbeat(w) \/ Trouble(w) PROVE disturbed'
  BY <1>2 DEF Heartbeat, Trouble, CallFails, Exception, Crash, Pause
<1> QED BY <1>1, <1>2 DEF Next, Check, Enqueue, Time, LeaseExpires, BecomesReady, vars

\* Every action keeps the fence, as long as no worker crashes or is late.
LEMMA LeaseStep == ASSUME TypeInv, LeaseInv, [Next]_vars PROVE LeaseInv'
<1> SUFFICES ASSUME ~disturbed' PROVE Fenced' BY DEF LeaseInv
<1> Fenced BY DisturbedStays DEF LeaseInv
<1> WorkerType /\ JobType BY DEF TypeInv, TypeOK
<1> USE DEF jobVars, seenVars, workerVars
<1>1. ASSUME \/ \E d \in Deployments, k \in Kinds : Check(d, k)
             \/ \E a \in asked, o \in Ops : Enqueue(a, o)
             \/ \E o \in Ops : BecomesReady(o)
             \/ UNCHANGED vars
      PROVE  Fenced'
  BY <1>1, FenceKept DEF Check, Enqueue, BecomesReady, vars, Engaged
<1>2. ASSUME NEW w \in Workers, RecoverStale(w) PROVE Fenced'
  BY <1>2 DEF RecoverStale, Fenced, RunningIsOwned
<1>3. ASSUME NEW w \in Workers, NEW o \in Ops, Claim(w, o) PROVE Fenced'
  <2>1. /\ pc[w] = "idle" /\ pc' = [pc EXCEPT ![w] = "claimed"]
        /\ job[o] = "QUEUED" /\ job' = [job EXCEPT ![o] = "RUNNING"]
        /\ owner' = [owner EXCEPT ![o] = w] /\ stale' = [stale EXCEPT ![o] = FALSE]
        /\ attempts' = [attempts EXCEPT ![o] = @ + 1]
        /\ cur' = [cur EXCEPT ![w] = o] /\ UNCHANGED <<seenJob, seenAttempts>>
    BY <1>3 DEF Claim, Claimable, Goto
  <2>2. \A v \in Workers \ {w} : Engaged(v) => cur[v] \in Ops \ {o}
    BY <2>1 DEF Fenced, OwnerWorks, WorkerType, Engaged
  <2>3. /\ \A v \in Workers \ {w} : /\ pc'[v] = pc[v] /\ cur'[v] = cur[v]
                                    /\ Engaged(v)' = Engaged(v)
        /\ pc'[w] = "claimed" /\ cur'[w] = o /\ Engaged(w)' /\ ~Engaged(w)
    BY <2>1 DEF WorkerType, Engaged
  <2>4. OwnerWorks' BY <2>1, <2>2, <2>3 DEF Fenced, OwnerWorks, JobType
  <2>5. RunningIsOwned'
    <3> SUFFICES ASSUME NEW p \in Ops, job'[p] = "RUNNING"
                 PROVE  /\ owner'[p] \in Workers /\ Engaged(owner[p])'
                        /\ cur'[owner'[p]] = p /\ ~stale'[p]
      BY DEF RunningIsOwned
    <3>1. CASE p = o BY <2>1, <2>3, <3>1 DEF JobType, Engaged
    <3>2. CASE p # o
      <4>1. job[p] = "RUNNING" /\ owner'[p] = owner[p] /\ stale'[p] = stale[p]
        BY <2>1, <3>2 DEF JobType
      <4>2. owner[p] \in Workers \ {w} /\ Engaged(owner[p]) /\ cur[owner[p]] = p /\ ~stale[p]
        BY <2>3, <4>1 DEF Fenced, RunningIsOwned
      <4> QED BY <2>3, <4>1, <4>2 DEF Engaged
    <3> QED BY <3>1, <3>2
  <2>6. SeenIsNow'
    <3>1. \A v \in Workers : pc'[v] \in Sessions => v # w /\ Engaged(v) /\ pc[v] \in Sessions
      BY <2>3 DEF Sessions, RunPhases, Engaged
    <3> QED BY <2>1, <2>2, <2>3, <3>1 DEF Fenced, SeenIsNow, JobType
  <2>7. AttemptsHeld'
    <3>1. attempts[o] \in Nat /\ attempts[o] < MaxAttempts BY <2>1 DEF Fenced, AttemptsHeld, JobType
    <3>2. attempts'[o] <= MaxAttempts BY <2>1, <3>1, QueueAssumption DEF JobType
    <3>3. \A p \in Ops \ {o} : job'[p] = job[p] /\ attempts'[p] = attempts[p]
      BY <2>1 DEF JobType
    <3>4. \A v \in Workers : pc'[v] = "requeue" => v # w /\ Engaged(v) /\ pc[v] = "requeue"
      BY <2>3 DEF Engaged
    <3>5. job'[o] = "RUNNING" BY <2>1 DEF JobType
    <3>6. \A p \in Ops : attempts'[p] <= MaxAttempts
      BY <3>2, <3>3 DEF Fenced, AttemptsHeld
    <3>7. \A p \in Ops : job'[p] = "QUEUED" => attempts'[p] < MaxAttempts
      BY <3>3, <3>5 DEF Fenced, AttemptsHeld
    <3>8. \A v \in Workers : pc'[v] = "requeue" => attempts'[cur'[v]] < MaxAttempts
      BY <2>2, <2>3, <3>3, <3>4 DEF Fenced, AttemptsHeld
    <3> QED BY <3>6, <3>7, <3>8 DEF AttemptsHeld
  <2> QED BY <2>4, <2>5, <2>6, <2>7 DEF Fenced
<1>4. ASSUME NEW w \in Workers,
             \/ TryAcquire(w) \/ (\E i \in 1 .. 5 : BeginStep(w, i)) \/ CallNode(w)
             \/ CommitRow(w) \/ SucceedStep(w) \/ FailStep(w) \/ FailOperation(w)
             \/ ApplySuccess(w) \/ SucceedOperation(w)
      PROVE  Fenced'
  <2>1. /\ UNCHANGED <<job, owner, stale, attempts, cur, seenJob, seenAttempts>>
        /\ \E p \in RunPhases \cup {"busy"} :
             /\ pc' = [pc EXCEPT ![w] = p] /\ p \notin {"requeue", "release"}
             /\ Engaged(w) /\ (p \in {"load", "busy"} \/ pc[w] \in Sessions)
    BY <1>4 DEF TryAcquire, BeginStep, CallNode, Command, CommitRow, SucceedStep, FailStep,
      FailOperation, ApplySuccess, SucceedOperation, Goto, Engaged, RunPhases, Sessions
  <2> QED BY <2>1, FenceKept DEF WorkerType, Engaged, Sessions, RunPhases
<1>5. ASSUME NEW w \in Workers, CallFails(w) \/ BumpStep(w) \/ Exception(w) PROVE Fenced'
  <2>1. /\ UNCHANGED <<job, owner, stale, attempts, cur, seenJob, seenAttempts>>
        /\ \E p \in {"retry", "fail", "requeue", "unhandled"} :
             /\ pc' = [pc EXCEPT ![w] = p] /\ Engaged(w)
             /\ p = "unhandled" \/ pc[w] \in Sessions
             /\ p = "requeue" => seenAttempts[w] < MaxAttempts
    BY <1>5 DEF CallFails, BumpStep, AttemptsLeft, Exception, Goto, Engaged, RunPhases, Sessions
  <2> QED BY <2>1, FenceKept DEF WorkerType, Engaged, Sessions, RunPhases
<1>6. ASSUME NEW w \in Workers, ReadBusyJob(w) \/ Load(w) PROVE Fenced'
  <2>1. /\ UNCHANGED <<job, owner, stale, attempts, cur>>
        /\ seenJob' = [seenJob EXCEPT ![w] = job[cur[w]]]
        /\ seenAttempts' = [seenAttempts EXCEPT ![w] = attempts[cur[w]]]
        /\ Engaged(w)
        /\ \E p \in {"giveback", "next"} : pc' = [pc EXCEPT ![w] = p]
    BY <1>6 DEF ReadBusyJob, Load, Goto, Engaged
  <2>2. \A v \in Workers : Engaged(v)' <=> Engaged(v) BY <2>1 DEF WorkerType, Engaged
  <2>3. OwnerWorks' /\ RunningIsOwned' BY <2>1, <2>2 DEF Fenced, OwnerWorks, RunningIsOwned
  <2>4. SeenIsNow' BY <2>1 DEF Fenced, SeenIsNow, OwnerWorks, WorkerType
  <2>5. AttemptsHeld' BY <2>1 DEF Fenced, AttemptsHeld, WorkerType
  <2> QED BY <2>3, <2>4, <2>5 DEF Fenced
<1>7. ASSUME NEW w \in Workers, GiveBack(w) PROVE Fenced'
  <2>1. /\ pc[w] = "giveback" /\ Leave(w) /\ cur[w] \in Ops
        /\ attempts' = [attempts EXCEPT ![cur[w]] = IF seenAttempts[w] = 0 THEN @
                                                      ELSE seenAttempts[w] - 1]
    BY <1>7 DEF GiveBack, WorkerType
  <2>2. seenJob[w] = "RUNNING" /\ seenAttempts[w] = attempts[cur[w]]
    BY <2>1 DEF Fenced, SeenIsNow, Sessions
  <2>3. Requeue(w) BY <1>7, <2>2 DEF GiveBack
  <2>4. attempts[cur[w]] \in Nat /\ attempts[cur[w]] <= MaxAttempts
    BY <2>1 DEF JobType, Fenced, AttemptsHeld
  <2>5. /\ attempts'[cur[w]] <= attempts[cur[w]] /\ attempts'[cur[w]] \in Nat
        /\ attempts'[cur[w]] < MaxAttempts
    BY <2>1, <2>2, <2>4, QueueAssumption DEF JobType
  <2>6. \A o \in Ops \ {cur[w]} : /\ job'[o] = job[o] /\ owner'[o] = owner[o]
                                  /\ stale'[o] = stale[o] /\ attempts'[o] = attempts[o]
    BY <2>1, <2>3 DEF Requeue, JobType
  <2>7. job'[cur[w]] # "RUNNING" BY <2>1, <2>3 DEF Requeue, JobType
  <2>8. /\ Engaged(w) /\ ~Engaged(w)' /\ pc'[w] = "idle"
        /\ \A v \in Workers \ {w} :
             /\ pc'[v] = pc[v] /\ cur'[v] = cur[v]
             /\ seenJob'[v] = seenJob[v] /\ seenAttempts'[v] = seenAttempts[v]
    BY <2>1 DEF Leave, Goto, Engaged, WorkerType
  <2> QED BY <2>5, <2>6, <2>7, <2>8, FenceEnded DEF Sessions, RunPhases
<1>8. ASSUME NEW w \in Workers,
             RequeueRetry(w) \/ FailJob(w) \/ FinishJob(w) \/ AbandonJob(w)
      PROVE  Fenced'
  <2>1. /\ Engaged(w) /\ cur[w] \in Ops
        /\ UNCHANGED <<attempts, cur, seenJob, seenAttempts>>
        /\ \E p \in {"release", "abandon"} : pc' = [pc EXCEPT ![w] = p]
    BY <1>8 DEF RequeueRetry, FailJob, FinishJob, AbandonJob, Goto, Engaged, WorkerType
  <2>2. pc[w] \in {"failjob", "done"} => seenJob[w] = "RUNNING"
    BY DEF Fenced, SeenIsNow, Sessions, RunPhases
  <2>3. /\ \A o \in Ops \ {cur[w]} : /\ job'[o] = job[o] /\ owner'[o] = owner[o]
                                     /\ stale'[o] = stale[o]
        /\ job'[cur[w]] # "RUNNING"
        /\ job'[cur[w]] = "QUEUED" => pc[w] = "requeue"
    BY <1>8, <2>1, <2>2 DEF RequeueRetry, Requeue, FailJob, FinishJob, WriteJob, AbandonJob,
      JobType
  <2>4. attempts[cur[w]] \in Nat BY <2>1 DEF JobType
  <2>5. job'[cur[w]] = "QUEUED" => attempts'[cur[w]] < MaxAttempts
    BY <2>1, <2>3 DEF Fenced, AttemptsHeld
  <2>6. /\ ~Engaged(w)' /\ pc'[w] \in {"release", "abandon"}
        /\ \A v \in Workers \ {w} : pc'[v] = pc[v]
    BY <2>1 DEF WorkerType, Engaged
  <2> QED BY <2>1, <2>3, <2>4, <2>5, <2>6, FenceEnded DEF Sessions, RunPhases
<1>9. ASSUME NEW w \in Workers, Release(w) \/ AbandonOperation(w) PROVE Fenced'
  <2>1. /\ UNCHANGED <<job, owner, stale, attempts>> /\ Leave(w) /\ ~Engaged(w)
    BY <1>9 DEF Release, AbandonOperation, Engaged
  <2>2. /\ ~Engaged(w)' /\ pc'[w] = "idle"
        /\ \A v \in Workers \ {w} :
             /\ pc'[v] = pc[v] /\ cur'[v] = cur[v] /\ Engaged(v)' = Engaged(v)
             /\ seenJob'[v] = seenJob[v] /\ seenAttempts'[v] = seenAttempts[v]
    BY <2>1 DEF Leave, Goto, Engaged, WorkerType
  <2>3. OwnerWorks' BY <2>1, <2>2 DEF Fenced, OwnerWorks
  <2>4. RunningIsOwned' BY <2>1, <2>2 DEF Fenced, RunningIsOwned
  <2>5. SeenIsNow' BY <2>1, <2>2 DEF Fenced, SeenIsNow, Sessions, RunPhases
  <2>6. AttemptsHeld' BY <2>1, <2>2 DEF Fenced, AttemptsHeld
  <2> QED BY <2>3, <2>4, <2>5, <2>6 DEF Fenced
<1>10. ASSUME NEW w \in Workers, Heartbeat(w) PROVE Fenced'
  <2>1. job[cur[w]] = "RUNNING" /\ stale[cur[w]] /\ cur[w] \in Ops
    BY <1>10 DEF Heartbeat, Leases, WorkerType
  <2> QED BY <2>1 DEF Fenced, RunningIsOwned
<1>11. ASSUME NEW w \in Workers, Crash(w) \/ Pause(w) PROVE Fenced'
  BY <1>11 DEF Crash, Pause
<1>12. ASSUME NEW o \in Ops, LeaseExpires(o) PROVE Fenced'
  <2>1. owner[o] \in Workers /\ Engaged(owner[o]) /\ cur[owner[o]] = o
    BY <1>12 DEF LeaseExpires, Fenced, RunningIsOwned
  <2> QED BY <1>12, <2>1 DEF LeaseExpires, Leases, Engaged
<1> QED BY <1>1, <1>2, <1>3, <1>4, <1>5, <1>6, <1>7, <1>8, <1>9, <1>10, <1>11, <1>12
    DEF Next, Poll, Work, Trouble, Time

\* UndisturbedAttempts: as long as leases are kept, no job has more attempts counted than
\* it is allowed, and one put back because its locks were busy has not spent any
\* (worker operations.py:120, requeue_job).
THEOREM AttemptsCounted == Spec => []UndisturbedAttempts
<1>1. LeaseInv => UndisturbedAttempts BY DEF LeaseInv, Fenced, AttemptsHeld, UndisturbedAttempts
<1>2. Init => TypeInv /\ LeaseInv BY TypeInit, LeaseInit
<1>3. TypeInv /\ LeaseInv /\ [Next]_vars => (TypeInv /\ LeaseInv)' BY TypeStep, LeaseStep
<1> QED BY <1>1, <1>2, <1>3, PTL DEF Spec

-----------------------------------------------------------------------------
(**************************** observed rows ********************************)

\* Steps are worked through in order: what comes after an open one has not begun.
InOrder ==
  \A o \in Ops : \A i, j \in DOMAIN step[o] :
    i < j /\ step[o][i] \in OpenSteps => step[o][j] = "PENDING"

\* A job that is taken, or may be, has a step to do.
WorkLeft ==
  /\ \A o \in Ops : Created(o) /\ job[o] = "QUEUED" => Open(o) # {}
  /\ \A w \in Workers : pc[w] \in {"claimed", "busy", "giveback", "load", "requeue"} =>
       Open(cur[w]) # {}

\* After a command that the node accepted its container is in the state the command is
\* for, and stays so while the worker has the locks.
Fits(s, c) ==
  /\ s \in {"START_CONTAINER", "RESTART_CONTAINER", "WAIT_HEALTH", "PROBE_INFERENCE"} =>
       c = "running"
  /\ s \in {"STOP_CONTAINER", "REMOVE_CONTAINER"} => c # "running"
Accepted ==
  \A w \in Workers : pc[w] \in {"commit", "mark"} => Fits(Code(w), cont[Place(w)])

\* The last step of each kind leaves the container as the operation wants it.
LastFits ==
  \A w \in Workers : pc[w] = "next" /\ Open(cur[w]) = {} =>
    (cont[Place(w)] = "running" <=> RuntimeOf[kind[cur[w]]] = "RUNNING")

ObserveInv ==
  /\ InOrder /\ Accepted
  /\ ~disturbed => WorkLeft /\ LastFits

\* Nothing has been observed at the start.
LEMMA ObserveInit == Init => ObserveInv
BY DEF Init, ObserveInv, InOrder, Accepted, WorkLeft, LastFits, Created

\* What the steps of the kinds come to.
LEMMA LastSteps ==
  ASSUME NEW k \in Kinds, NEW i \in DOMAIN StepsOf[k],
         \A j \in DOMAIN StepsOf[k] : j <= i, NEW c, Fits(StepsOf[k][i], c)
  PROVE  c = "running" <=> RuntimeOf[k] = "RUNNING"
<1>1. CASE k = "START"
  <2>1. DOMAIN StepsOf[k] = 1 .. 5 /\ StepsOf[k][5] = "PROBE_INFERENCE"
    BY <1>1 DEF StepsOf, Kinds
  <2>2. i = 5 BY <2>1
  <2> QED BY <1>1, <2>1, <2>2 DEF Fits, RuntimeOf, Kinds
<1>2. CASE k = "STOP"
  <2>1. DOMAIN StepsOf[k] = 1 .. 1 /\ StepsOf[k][1] = "STOP_CONTAINER"
    BY <1>2 DEF StepsOf, Kinds
  <2>2. i = 1 BY <2>1
  <2> QED BY <1>2, <2>1, <2>2 DEF Fits, RuntimeOf, Kinds
<1>3. CASE k = "RESTART"
  <2>1. DOMAIN StepsOf[k] = 1 .. 3 /\ StepsOf[k][3] = "PROBE_INFERENCE"
    BY <1>3 DEF StepsOf, Kinds
  <2>2. i = 3 BY <2>1
  <2> QED BY <1>3, <2>1, <2>2 DEF Fits, RuntimeOf, Kinds
<1>4. CASE k = "DELETE"
  <2>1. DOMAIN StepsOf[k] = 1 .. 2 /\ StepsOf[k][2] = "REMOVE_CONTAINER"
    BY <1>4 DEF StepsOf, Kinds
  <2>2. i = 2 BY <2>1
  <2> QED BY <1>4, <2>1, <2>2 DEF Fits, RuntimeOf, Kinds
<1> QED BY <1>1, <1>2, <1>3, <1>4 DEF Kinds

\* A command the node does not refuse, of a runtime that is ready, fits.
LEMMA CommandFits ==
  ASSUME NEW k, NEW s, NEW c \in {"absent", "stopped", "running"},
         ~Refused(k, s, c), ~NotReady(s, c)
  PROVE  Fits(s, Effect(s, c))
BY DEF Fits, Effect, Refused, NotReady, NeedContainer

\* How each step changes the steps of operations.
LEMMA StepWrites ==
  ASSUME TypeInv, OpenAt, [Next]_vars
  PROVE  \/ step' = step
         \/ \E a \in asked, o \in Ops : Enqueue(a, o)
         \/ \E w \in Workers : (\E i \in 1 .. 5 : BeginStep(w, i))
         \/ \E w \in Workers : SucceedStep(w) \/ BumpStep(w) \/ FailStep(w)
<1> WorkerType BY DEF TypeInv, TypeOK
<1>1. CASE QuietStep BY <1>1, QuietMoves
<1>2. ASSUME NEW w \in Workers, BareStep(w) \/ DroppingStep(w) PROVE step' = step
  BY <1>2, BareMoves, DroppingMoves
<1>3. ASSUME NEW w \in Workers, TryAcquire(w) PROVE step' = step
  BY <1>3 DEF TryAcquire, operationVars
<1>4. ASSUME NEW w \in Workers, HoldingStep(w)
      PROVE  \/ step' = step
             \/ \E i \in 1 .. 5 : BeginStep(w, i)
             \/ SucceedStep(w) \/ BumpStep(w) \/ FailStep(w)
  BY <1>4 DEF HoldingStep, Load, CallNode, CallFails, CommitRow, RequeueRetry,
    FailOperation, FailJob, ApplySuccess, SucceedOperation, FinishJob, operationVars
<1> QED BY <1>1, <1>2, <1>3, <1>4, StepKinds

\* Every action keeps the steps in order.
LEMMA OrderKept == ASSUME TypeInv, OpenAt, InOrder, [Next]_vars PROVE InOrder'
<1> WorkerType /\ OperationType /\ StepShape /\ HistoryType BY DEF TypeInv, TypeOK
<1>1. CASE step' = step BY <1>1 DEF InOrder
<1>2. ASSUME NEW a \in asked, NEW o \in Ops, Enqueue(a, o) PROVE InOrder'
  <2>1. step' = [step EXCEPT ![o] = [i \in DOMAIN StepsOf[a.kind] |-> "PENDING"]]
    BY <1>2 DEF Enqueue
  <2> QED BY <2>1 DEF InOrder, OperationType
<1>3. ASSUME NEW w \in Workers, NEW k \in 1 .. 5, BeginStep(w, k) PROVE InOrder'
  <2>1. /\ cur[w] \in Ops /\ k \in DOMAIN step[cur[w]] /\ step[cur[w]][k] \in OpenSteps
        /\ \A i \in Open(cur[w]) : k <= i
        /\ step' = [step EXCEPT ![cur[w]][k] = "RUNNING"]
    BY <1>3 DEF BeginStep, Open, WorkerType
  <2>2. \A o \in Ops : DOMAIN step'[o] = DOMAIN step[o] BY <2>1 DEF OperationType
  <2>3. \A o \in Ops : DOMAIN step[o] \subseteq Nat BY DEF OperationType
  <2>4. \A i \in DOMAIN step[cur[w]] : i < k => step[cur[w]][i] \notin OpenSteps
    BY <2>1, <2>3 DEF Open
  <2>5. \A o \in Ops : \A i \in DOMAIN step[o] :
          step'[o][i] = IF o = cur[w] /\ i = k THEN "RUNNING" ELSE step[o][i]
    BY <2>1 DEF OperationType
  <2> QED BY <2>1, <2>2, <2>3, <2>4, <2>5 DEF InOrder
<1>4. ASSUME NEW w \in Workers, SucceedStep(w) \/ BumpStep(w) \/ FailStep(w) PROVE InOrder'
  <2>1. /\ pc[w] \in StepPhases
        /\ \E to \in {"PENDING", "SUCCEEDED", "FAILED"} :
             step' = [step EXCEPT ![cur[w]][pos[w]] = to]
    BY <1>4 DEF SucceedStep, BumpStep, FailStep, SetStep, StepPhases
  <2>2. /\ cur[w] \in Ops /\ pos[w] \in DOMAIN step[cur[w]]
        /\ step[cur[w]][pos[w]] = "RUNNING"
    BY <2>1, AtStep DEF OpenAt
  <2>3. \A o \in Ops : DOMAIN step'[o] = DOMAIN step[o] BY <2>1 DEF OperationType
  <2>4. \A o \in Ops : DOMAIN step[o] \subseteq Nat BY DEF OperationType
  <2>5. \A i \in DOMAIN step[cur[w]] : i < pos[w] => step[cur[w]][i] \notin OpenSteps
    BY <2>2 DEF InOrder
  <2>6. PICK to \in {"PENDING", "SUCCEEDED", "FAILED"} :
          \A o \in Ops : \A i \in DOMAIN step[o] :
            step'[o][i] = IF o = cur[w] /\ i = pos[w] THEN to ELSE step[o][i]
    BY <2>1, <2>2 DEF OperationType
  <2>7. \A i \in DOMAIN step[cur[w]] : pos[w] < i => step[cur[w]][i] = "PENDING"
    BY <2>2 DEF InOrder, OpenSteps
  <2> QED BY <2>2, <2>3, <2>4, <2>5, <2>6, <2>7 DEF InOrder
<1> QED BY <1>1, <1>2, <1>3, <1>4, StepWrites

\* A worker gets its locks in "load" and has them from there.
LEMMA LocksFirst ==
  ASSUME TypeInv, [Next]_vars, NEW w \in Workers, ~Running(w), Running(w)'
  PROVE  TryAcquire(w) /\ pc'[w] = "load"
<1> WorkerType BY DEF TypeInv, TypeOK
<1>1. CASE QuietStep BY <1>1, QuietMoves DEF Running
<1>2. ASSUME NEW a \in asked, NEW o \in Ops, Enqueue(a, o) PROVE FALSE
  BY <1>2 DEF Enqueue, workerVars, Running
<1>3. ASSUME NEW v \in Workers, HoldingStep(v) PROVE FALSE
  BY <1>3, HoldingMoves DEF Running, WorkerType
<1>4. ASSUME NEW v \in Workers, BareStep(v) \/ DroppingStep(v) PROVE FALSE
  BY <1>4, BareMoves, DroppingMoves DEF Running
<1>5. ASSUME NEW v \in Workers, TryAcquire(v), LocksFree(v)
      PROVE  TryAcquire(w) /\ pc'[w] = "load"
  BY <1>5 DEF TryAcquire, Goto, Running, WorkerType
<1> QED BY <1>1, <1>2, <1>3, <1>4, <1>5, StepKinds

\* While a worker has the locks nobody else moves it, its operation or its container.
LEMMA WhoMoves ==
  ASSUME TypeInv, LockInv, [Next]_vars, NEW w \in Workers, Running(w),
         ~HoldingStep(w), ~DroppingStep(w)
  PROVE  /\ pc'[w] = pc[w] /\ cur'[w] = cur[w] /\ pos'[w] = pos[w]
         /\ kind'[cur[w]] = kind[cur[w]] /\ target'[cur[w]] = target[cur[w]]
         /\ step'[cur[w]] = step[cur[w]]
         /\ cont'[Place(w)] = cont[Place(w)]
<1> WorkerType /\ OperationType /\ NodeType BY DEF TypeInv, TypeOK
<1> cur[w] \in Ops /\ Created(cur[w]) /\ Place(w) \in Deployments
  BY DEF WorkerType, OperationType, Running, RunPhases, Place
<1>1. CASE QuietStep
  <2>1. cont' = cont
    BY <1>1 DEF QuietStep, Check, RecoverStale, Heartbeat, Pause, Time, LeaseExpires,
      BecomesReady, vars
  <2> QED BY <1>1, <2>1, QuietMoves
<1>2. ASSUME NEW a \in asked, NEW o \in Ops, Enqueue(a, o)
      PROVE  /\ pc'[w] = pc[w] /\ cur'[w] = cur[w] /\ pos'[w] = pos[w]
             /\ kind'[cur[w]] = kind[cur[w]] /\ target'[cur[w]] = target[cur[w]]
             /\ step'[cur[w]] = step[cur[w]] /\ cont' = cont
  BY <1>2 DEF Enqueue, OperationType, workerVars
<1>3. ASSUME NEW v \in Workers, HoldingStep(v)
      PROVE  /\ pc'[w] = pc[w] /\ cur'[w] = cur[w] /\ pos'[w] = pos[w]
             /\ kind' = kind /\ target' = target
             /\ step'[cur[w]] = step[cur[w]] /\ cont'[Place(w)] = cont[Place(w)]
  <2>1. v # w BY <1>3
  <2>2. Running(v) /\ Place(v) # Place(w) BY <1>3, <2>1, HoldingMoves, Apart DEF Running
  <2>3. cur[v] # cur[w] BY <2>2 DEF Place
  <2>4. \E c : cont' = [cont EXCEPT ![Place(v)] = c]
    <3>1. CASE CallNode(v) BY <3>1 DEF CallNode, Command
    <3>2. CASE CallFails(v) BY <3>2 DEF CallFails
    <3>3. CASE ~CallNode(v) /\ ~CallFails(v)
      <4>1. cont' = cont
        BY <1>3, <3>3 DEF HoldingStep, Load, BeginStep, CommitRow, SucceedStep, BumpStep,
          RequeueRetry, FailStep, FailOperation, FailJob, ApplySuccess, SucceedOperation,
          FinishJob
      <4>2. cont = [cont EXCEPT ![Place(v)] = cont[Place(v)]] BY DEF NodeType
      <4> QED BY <4>1, <4>2
    <3> QED BY <3>1, <3>2, <3>3
  <2>5. cont'[Place(w)] = cont[Place(w)] BY <2>2, <2>4 DEF NodeType
  <2> QED BY <1>3, <2>1, <2>3, <2>5, HoldingWritesOwn, HoldingMoves
<1>4. ASSUME NEW v \in Workers, BareStep(v)
      PROVE  /\ pc'[w] = pc[w] /\ cur'[w] = cur[w] /\ pos'[w] = pos[w]
             /\ kind' = kind /\ target' = target /\ step' = step /\ cont' = cont
  <2>1. v # w BY <1>4, BareMoves DEF Running
  <2>2. cont' = cont
    BY <1>4 DEF BareStep, Claim, TryAcquire, ReadBusyJob, GiveBack, AbandonJob,
      AbandonOperation
  <2> QED BY <1>4, <2>1, <2>2, BareMoves
<1>5. ASSUME NEW v \in Workers, DroppingStep(v)
      PROVE  /\ pc'[w] = pc[w] /\ cur'[w] = cur[w] /\ pos'[w] = pos[w]
             /\ kind' = kind /\ target' = target /\ step' = step
             /\ cont'[Place(w)] = cont[Place(w)]
  <2>1. v # w BY <1>5
  <2>2. CASE pc[v] = "call"
    <3>1. Place(v) # Place(w)
      BY <2>1, <2>2, Apart DEF Running, RunPhases
    <3>2. \E c : cont' = [cont EXCEPT ![Place(v)] = c] \/ cont' = cont
      BY <1>5 DEF DroppingStep, Release, Exception, Crash
    <3>3. cont'[Place(w)] = cont[Place(w)] BY <3>1, <3>2 DEF NodeType
    <3> QED BY <1>5, <2>1, <3>3, DroppingMoves
  <2>3. CASE pc[v] # "call"
    <3>1. cont' = cont \/ cont' = [cont EXCEPT ![Place(v)] = cont[Place(v)]]
      BY <1>5, <2>3 DEF DroppingStep, Release, Exception, Crash
    <3>2. cont'[Place(w)] = cont[Place(w)] BY <3>1 DEF NodeType
    <3> QED BY <1>5, <2>1, <3>2, DroppingMoves
  <2> QED BY <2>2, <2>3
<1>6. ASSUME NEW v \in Workers, TryAcquire(v)
      PROVE  /\ pc'[w] = pc[w] /\ cur'[w] = cur[w] /\ pos'[w] = pos[w]
             /\ kind' = kind /\ target' = target /\ step' = step /\ cont' = cont
  <2>1. v # w BY <1>6 DEF TryAcquire, Running, RunPhases
  <2> QED BY <1>6, <2>1 DEF TryAcquire, Goto, WorkerType, operationVars
<1> QED BY <1>1, <1>2, <1>3, <1>4, <1>5, <1>6, StepKinds

\* An accepted command stays true: Accepted is kept whether or not leases are.
LEMMA AcceptedKept == ASSUME TypeInv, LockInv, Accepted, [Next]_vars PROVE Accepted'
<1> SUFFICES ASSUME NEW w \in Workers, pc'[w] \in {"commit", "mark"}
             PROVE  Fits(Code(w)', cont'[Place(w)'])
  BY DEF Accepted
<1> WorkerType /\ OperationType /\ NodeType BY DEF TypeInv, TypeOK
<1>1. Running(w) BY LocksFirst DEF Running, RunPhases
<1>2. cur[w] \in Ops /\ Place(w) \in Deployments
  BY <1>1 DEF WorkerType, OperationType, Running, RunPhases, Place
<1>3. CASE ~HoldingStep(w) /\ ~DroppingStep(w)
  BY <1>1, <1>3, WhoMoves DEF Accepted, Code, Place
<1>4. CASE DroppingStep(w)
  BY <1>4, DroppingMoves DEF RunPhases
<1>5. CASE HoldingStep(w)
  <2>1. UNCHANGED <<cur, kind, target>> BY <1>5, HoldingMoves
  <2>2. CASE CallNode(w)
    <3>1. /\ pos' = pos /\ cont'[Place(w)] = Effect(Code(w), cont[Place(w)])
          /\ ~Refused(kind[cur[w]], Code(w), cont[Place(w)])
          /\ ~NotReady(Code(w), cont[Place(w)])
      BY <1>2, <2>2 DEF CallNode, Command, Goto, WorkerType, NodeType
    <3>2. cont[Place(w)] \in {"absent", "stopped", "running"} BY <1>2 DEF NodeType
    <3>3. Fits(Code(w), cont'[Place(w)]) BY <3>1, <3>2, CommandFits
    <3> QED BY <2>1, <3>1, <3>3 DEF Code, Place
  <2>3. CASE CommitRow(w)
    <3>1. pc[w] = "commit" /\ UNCHANGED <<pos, cont>> BY <2>3 DEF CommitRow
    <3> QED BY <2>1, <3>1 DEF Accepted, Code, Place
  <2>4. CASE ~CallNode(w) /\ ~CommitRow(w)
    BY <1>5, <2>4 DEF HoldingStep, Load, BeginStep, CallFails, SucceedStep, BumpStep,
      RequeueRetry, FailStep, FailOperation, FailJob, ApplySuccess, SucceedOperation,
      FinishJob, Goto, WorkerType
  <2> QED BY <2>2, <2>3, <2>4
<1> QED BY <1>3, <1>4, <1>5

\* The step after which nothing is open is the last of its kind, so LastFits is kept.
LEMMA LastFitsKept ==
  ASSUME TypeInv, LockInv, OpenAt, InOrder, Accepted, WorkLeft, LastFits, [Next]_vars
  PROVE  LastFits'
<1> SUFFICES ASSUME NEW w \in Workers, pc'[w] = "next", Open(cur[w])' = {}
             PROVE  cont'[Place(w)'] = "running" <=> RuntimeOf[kind'[cur'[w]]] = "RUNNING"
  BY DEF LastFits
<1> WorkerType /\ OperationType /\ NodeType BY DEF TypeInv, TypeOK
<1>1. Running(w) BY LocksFirst DEF Running, RunPhases
<1>2. cur[w] \in Ops /\ Created(cur[w]) BY <1>1 DEF WorkerType, Running, RunPhases
<1>3. CASE ~HoldingStep(w) /\ ~DroppingStep(w)
  BY <1>1, <1>3, WhoMoves DEF LastFits, Open, Place
<1>4. CASE DroppingStep(w)
  BY <1>4, DroppingMoves DEF RunPhases
<1>5. CASE HoldingStep(w)
  <2>1. UNCHANGED <<cur, kind, target>> BY <1>5, HoldingMoves
  <2>2. CASE Load(w)
    <3>1. pc[w] = "load" /\ step' = step BY <2>2 DEF Load, operationVars
    <3> QED BY <2>1, <3>1 DEF WorkLeft, Open
  <2>3. CASE SucceedStep(w)
    <3>1. /\ pc[w] = "mark" /\ UNCHANGED <<pos, cont>>
          /\ step' = [step EXCEPT ![cur[w]][pos[w]] = "SUCCEEDED"]
      BY <2>3 DEF SucceedStep, SetStep
    <3> DEFINE k == kind[cur[w]]
    <3>2. k \in Kinds /\ pos[w] \in DOMAIN StepsOf[k] /\ DOMAIN step[cur[w]] = DOMAIN StepsOf[k]
      BY <1>2, <3>1 DEF WorkerType, OperationType, StepShape, StepPhases, TypeInv, Created
    <3>3. step[cur[w]][pos[w]] = "RUNNING" BY <3>1 DEF OpenAt, StepPhases
    <3>4. \A j \in DOMAIN StepsOf[k] : j <= pos[w]
      <4> SUFFICES ASSUME NEW j \in DOMAIN StepsOf[k], pos[w] < j PROVE FALSE
        BY <3>2, StepTable
      <4>1. step[cur[w]][j] = "PENDING"
        BY <1>2, <3>2, <3>3 DEF InOrder, OpenSteps
      <4>2. pos[w] # j BY <3>2, StepTable
      <4>3. step'[cur[w]][j] = "PENDING" /\ j \in DOMAIN step'[cur[w]]
        BY <1>2, <3>1, <3>2, <4>1, <4>2 DEF OperationType
      <4>4. j \in Open(cur[w])' BY <2>1, <4>3 DEF Open, OpenSteps
      <4> QED BY <4>4
    <3>5. Fits(StepsOf[k][pos[w]], cont[Place(w)]) BY <3>1 DEF Accepted, Code
    <3>6. cont[Place(w)] = "running" <=> RuntimeOf[k] = "RUNNING"
      BY <3>2, <3>4, <3>5, LastSteps
    <3> QED BY <2>1, <3>1, <3>6 DEF Place
  <2>4. CASE ~Load(w) /\ ~SucceedStep(w)
    BY <1>5, <2>4 DEF HoldingStep, BeginStep, CallNode, Command, CallFails, CommitRow,
      BumpStep, RequeueRetry, FailStep, FailOperation, FailJob, ApplySuccess,
      SucceedOperation, FinishJob, Goto, WorkerType
  <2> QED BY <2>2, <2>3, <2>4
<1> QED BY <1>3, <1>4, <1>5

\* An operation that may be taken or is about to be worked on keeps an open step: its
\* steps are written by its one owner only.
LEMMA OpenKept ==
  ASSUME TypeInv, LockInv, OpenAt, [Next]_vars, NEW o \in Ops, Created(o), Open(o) # {},
         \A w \in Workers : pc[w] \in StepPhases => cur[w] # o
  PROVE  Open(o)' # {}
<1> WorkerType /\ OperationType BY DEF TypeInv, TypeOK
<1>1. CASE step' = step BY <1>1 DEF Open
<1>2. ASSUME NEW a \in asked, NEW p \in Ops, Enqueue(a, p) PROVE Open(o)' # {}
  BY <1>2 DEF Enqueue, Open, OperationType
<1>3. ASSUME NEW w \in Workers, NEW k \in 1 .. 5, BeginStep(w, k) PROVE Open(o)' # {}
  <2>1. PICK i \in DOMAIN step[o] : step[o][i] \in OpenSteps BY DEF Open
  <2>2. i \in DOMAIN step'[o] /\ step'[o][i] \in OpenSteps
    BY <1>3, <2>1 DEF BeginStep, Open, OpenSteps, OperationType
  <2> QED BY <2>2 DEF Open
<1>4. ASSUME NEW w \in Workers, SucceedStep(w) \/ BumpStep(w) \/ FailStep(w)
      PROVE  Open(o)' # {}
  <2>1. cur[w] # o BY <1>4 DEF SucceedStep, BumpStep, FailStep, StepPhases
  <2>2. step'[o] = step[o]
    BY <1>4, <2>1 DEF SucceedStep, BumpStep, FailStep, SetStep, OperationType
  <2> QED BY <2>2 DEF Open
<1> QED BY <1>1, <1>2, <1>3, <1>4, StepWrites

\* The rows of jobs that wait keep an open step.
LEMMA WorkLeftKept ==
  ASSUME TypeInv, LockInv, OpenAt, Fenced, ~disturbed', WorkLeft, [Next]_vars
  PROVE  WorkLeft'
<1> WorkerType /\ OperationType /\ JobType /\ StepShape /\ HistoryType
  BY DEF TypeInv, TypeOK
<1> DEFINE Early == {"claimed", "busy", "giveback", "load", "requeue"}
<1>1. ASSUME NEW o \in Ops, Created(o), job[o] = "QUEUED" PROVE Open(o)' # {}
  <2>1. \A w \in Workers : pc[w] \in StepPhases => cur[w] # o
    BY <1>1 DEF Fenced, OwnerWorks, Engaged, StepPhases
  <2> QED BY <1>1, <2>1, OpenKept DEF WorkLeft
<1>2. ASSUME NEW w \in Workers, pc[w] \in Early PROVE Open(cur[w])' # {} \/ cur'[w] # cur[w]
  <2>1. cur[w] \in Ops /\ Created(cur[w]) BY <1>2 DEF WorkerType
  <2>2. \A v \in Workers : pc[v] \in StepPhases => cur[v] # cur[w]
    BY <1>2, OneOwner DEF Engaged, StepPhases
  <2>3. Open(cur[w]) # {} BY <1>2 DEF WorkLeft
  <2>4. \A o \in Ops : o = cur[w] => Open(o)' # {} BY <2>1, <2>2, <2>3, OpenKept
  <2> QED BY <2>1, <2>4 DEF Open
<1>3. ASSUME NEW w \in Workers, BumpStep(w) PROVE Open(cur[w])' # {}
  <2>1. pc[w] = "retry" /\ cur' = cur /\ step' = [step EXCEPT ![cur[w]][pos[w]] = "PENDING"]
    BY <1>3 DEF BumpStep, SetStep
  <2>2. cur[w] \in Ops /\ pos[w] \in DOMAIN step[cur[w]] BY <2>1, AtStep DEF StepPhases
  <2>3. pos[w] \in DOMAIN step'[cur[w]] /\ step'[cur[w]][pos[w]] = "PENDING"
    BY <2>1, <2>2 DEF OperationType
  <2> QED BY <2>1, <2>3 DEF Open, OpenSteps
<1>4. ASSUME NEW o \in Ops, Created(o)', job'[o] = "QUEUED" PROVE Open(o)' # {}
  <2>1. CASE ~Created(o)
    <3>1. PICK a \in asked : Enqueue(a, o)
      <4>1. PICK a \in asked, p \in Ops : Enqueue(a, p)
        BY <1>4, <2>1, StepKinds, QuietMoves, HoldingMoves, BareMoves, DroppingMoves
        DEF Created, TryAcquire, operationVars
      <4>2. p = o BY <1>4, <2>1, <4>1 DEF Enqueue, Created, OperationType
      <4> QED BY <4>1, <4>2
    <3>2. /\ step' = [step EXCEPT ![o] = [i \in DOMAIN StepsOf[a.kind] |-> "PENDING"]]
          /\ a.kind \in Kinds
      BY <3>1 DEF Enqueue, HistoryType
    <3>3. 1 \in DOMAIN StepsOf[a.kind] BY <3>2, StepTable
    <3>4. 1 \in DOMAIN step'[o] /\ step'[o][1] = "PENDING" BY <3>2, <3>3 DEF OperationType
    <3> QED BY <3>4 DEF Open, OpenSteps
  <2>2. CASE Created(o) /\ job[o] = "QUEUED" BY <1>1, <2>2
  <2>3. CASE Created(o) /\ job[o] # "QUEUED"
    <3>1. PICK w \in Workers : (GiveBack(w) \/ RequeueRetry(w)) /\ cur[w] = o
      <4>1. CASE \E w \in Workers : RecoverStale(w)
        BY <4>1 DEF RecoverStale, Fenced, RunningIsOwned
      <4>2. ASSUME NEW w \in Workers, FailJob(w) \/ FinishJob(w) \/ AbandonJob(w)
            PROVE  job'[o] \in {job[o], "DONE", "FAILED"}
        BY <4>2 DEF FailJob, FinishJob, WriteJob, AbandonJob, JobType
      <4>3. ASSUME NEW w \in Workers, NEW p \in Ops, Claim(w, p)
            PROVE  job'[o] \in {job[o], "RUNNING"}
        BY <4>3 DEF Claim, JobType
      <4>4. ASSUME NEW w \in Workers, GiveBack(w) \/ RequeueRetry(w), cur[w] # o
            PROVE  job'[o] = job[o]
        BY <4>4 DEF GiveBack, RequeueRetry, Requeue, JobType
      <4>5. CASE job' = job BY <2>3, <4>5, <1>4
      <4>6. \/ job' = job \/ \E w \in Workers :
                 \/ RecoverStale(w) \/ FailJob(w) \/ FinishJob(w) \/ AbandonJob(w)
                 \/ GiveBack(w) \/ RequeueRetry(w) \/ \E p \in Ops : Claim(w, p)
        <5>1. CASE \/ \E d \in Deployments, k \in Kinds : Check(d, k)
                   \/ \E a \in asked, p \in Ops : Enqueue(a, p)
                   \/ \E p \in Ops : Time(p)
                   \/ UNCHANGED vars
          BY <5>1 DEF Check, Enqueue, Time, LeaseExpires, BecomesReady, vars, jobVars
        <5>2. ASSUME NEW w \in Workers,
                     TryAcquire(w) \/ ReadBusyJob(w) \/ AbandonOperation(w) \/ Release(w)
              PROVE  job' = job
          BY <5>2 DEF TryAcquire, ReadBusyJob, AbandonOperation, Release, jobVars
        <5>3. ASSUME NEW w \in Workers,
                     \/ Load(w) \/ \E i \in 1 .. 5 : BeginStep(w, i)
                     \/ CallNode(w) \/ CommitRow(w) \/ SucceedStep(w) \/ BumpStep(w)
                     \/ FailStep(w) \/ FailOperation(w)
              PROVE  job' = job
          BY <5>3 DEF Load, BeginStep, CallNode, CommitRow, SucceedStep, BumpStep, FailStep,
            FailOperation, jobVars
        <5>4. ASSUME NEW w \in Workers,
                     \/ ApplySuccess(w) \/ SucceedOperation(w) \/ Heartbeat(w)
                     \/ Trouble(w)
              PROVE  job' = job
          BY <5>4 DEF ApplySuccess, SucceedOperation, Heartbeat, Trouble, CallFails,
            Exception, Crash, Pause, jobVars
        <5> QED BY <5>1, <5>2, <5>3, <5>4, Zenon DEF Next, Poll, Work
      <4> QED BY <1>4, <2>3, <4>1, <4>2, <4>3, <4>4, <4>5, <4>6
    <3>2. pc[w] \in Early /\ step' = step
      BY <3>1 DEF GiveBack, RequeueRetry, operationVars
    <3> QED BY <3>1, <3>2 DEF WorkLeft, Open
  <2> QED BY <2>1, <2>2, <2>3
<1>5. ASSUME NEW w \in Workers, pc'[w] \in Early PROVE Open(cur[w])' # {}
  <2>1. CASE pc[w] \in Early /\ cur'[w] = cur[w] BY <1>2, <2>1
  <2>2. CASE BumpStep(w) BY <1>3, <2>2
  <2>3. ASSUME NEW o \in Ops, Claim(w, o) PROVE Open(cur[w])' # {}
    <3>1. Created(o) /\ job[o] = "QUEUED" /\ cur'[w] = o /\ step' = step
      BY <2>3 DEF Claim, Claimable, WorkerType
    <3> QED BY <3>1 DEF WorkLeft, Open
  <2>4. \/ pc[w] \in Early /\ cur'[w] = cur[w]
        \/ BumpStep(w)
        \/ \E o \in Ops : Claim(w, o)
    <3>1. CASE QuietStep BY <1>5, <3>1, QuietMoves
    <3>2. CASE \E a \in asked, o \in Ops : Enqueue(a, o)
      BY <1>5, <3>2 DEF Enqueue, workerVars
    <3>3. ASSUME NEW v \in Workers, v # w,
                 HoldingStep(v) \/ BareStep(v) \/ DroppingStep(v) \/ TryAcquire(v)
          PROVE  pc'[w] = pc[w] /\ cur'[w] = cur[w]
      BY <3>3, HoldingMoves, BareMoves, DroppingMoves DEF TryAcquire, Goto, WorkerType
    <3>4. CASE HoldingStep(w)
      BY <1>5, <3>4 DEF HoldingStep, Load, BeginStep, CallNode, Command, CallFails,
        CommitRow, SucceedStep, RequeueRetry, FailStep, FailOperation, FailJob,
        ApplySuccess, SucceedOperation, FinishJob, Goto, WorkerType
    <3>5. CASE BareStep(w)
      BY <1>5, <3>5 DEF BareStep, TryAcquire, ReadBusyJob, GiveBack, AbandonJob,
        AbandonOperation, Leave, Goto, WorkerType
    <3>6. CASE DroppingStep(w)
      BY <1>5, <3>6 DEF DroppingStep, Release, Exception, Crash, Leave, Goto, WorkerType
    <3>7. CASE TryAcquire(w) BY <1>5, <3>7 DEF TryAcquire
    <3> QED BY <1>5, <3>1, <3>2, <3>3, <3>4, <3>5, <3>6, <3>7, StepKinds
  <2> QED BY <2>1, <2>2, <2>3, <2>4
<1> QED BY <1>4, <1>5 DEF WorkLeft

\* Who writes a runtime_status.
LEMMA RuntimeWriters ==
  ASSUME [Next]_vars
  PROVE  runtime' = runtime \/ \E w \in Workers : CommitRow(w) \/ ApplySuccess(w)
<1>1. CASE \/ \E d \in Deployments, k \in Kinds : Check(d, k)
           \/ \E a \in asked, p \in Ops : Enqueue(a, p)
           \/ \E p \in Ops : Time(p)
           \/ UNCHANGED vars
  BY <1>1 DEF Check, Enqueue, Time, LeaseExpires, BecomesReady, vars, rowVars
<1>2. ASSUME NEW w \in Workers,
             Poll(w) \/ TryAcquire(w) \/ ReadBusyJob(w) \/ GiveBack(w) \/ Load(w)
      PROVE  runtime' = runtime
  BY <1>2 DEF Poll, RecoverStale, Claim, TryAcquire, ReadBusyJob, GiveBack, Load, rowVars
<1>3. ASSUME NEW w \in Workers,
             \/ \E i \in 1 .. 5 : BeginStep(w, i)
             \/ CallNode(w) \/ SucceedStep(w) \/ BumpStep(w) \/ RequeueRetry(w)
             \/ FailStep(w) \/ FailOperation(w) \/ FailJob(w)
      PROVE  runtime' = runtime
  BY <1>3 DEF BeginStep, CallNode, SucceedStep, BumpStep, RequeueRetry, FailStep,
    FailOperation, FailJob, rowVars
<1>4. ASSUME NEW w \in Workers,
             \/ SucceedOperation(w) \/ FinishJob(w) \/ Release(w) \/ AbandonJob(w)
             \/ AbandonOperation(w) \/ Heartbeat(w) \/ Trouble(w)
      PROVE  runtime' = runtime
  BY <1>4 DEF SucceedOperation, FinishJob, Release, AbandonJob, AbandonOperation, Heartbeat,
    Trouble, CallFails, Exception, Crash, Pause, rowVars
<1> QED BY <1>1, <1>2, <1>3, <1>4, Zenon DEF Next, Work

\* A status is written for what the container is in.
LEMMA ObservedWrites ==
  ASSUME TypeInv, Accepted, LastFits, [Next]_vars, NEW d \in Deployments,
         runtime'[d] # runtime[d]
  PROVE  runtime'[d] = "RUNNING" <=> cont[d] = "running"
<1> WorkerType /\ OperationType /\ RowType BY DEF TypeInv, TypeOK
<1>1. ASSUME NEW w \in Workers, CommitRow(w)
      PROVE  runtime'[d] = "RUNNING" <=> cont[d] = "running"
  <2>1. Place(w) = d /\ Fits(Code(w), cont[d])
    BY <1>1 DEF CommitRow, Accepted, RowType
  <2> QED BY <1>1, <2>1 DEF CommitRow, Fits, RowType
<1>2. ASSUME NEW w \in Workers, ApplySuccess(w)
      PROVE  runtime'[d] = "RUNNING" <=> cont[d] = "running"
  <2>1. Place(w) = d /\ pc[w] = "next" /\ Open(cur[w]) = {}
    BY <1>2 DEF ApplySuccess, RowType
  <2>2. runtime'[d] = RuntimeOf[kind[cur[w]]] BY <1>2, <2>1 DEF ApplySuccess, RowType
  <2> QED BY <2>1, <2>2 DEF LastFits
<1> QED BY <1>1, <1>2, RuntimeWriters

\* UndisturbedRowsAreObserved: as long as leases are kept, what the worker writes as
\* runtime_status is what the container is in (operation_executor.py,
\* _mark_runtime_started, _mark_runtime_stopped, _apply_success_deployment_state).
THEOREM RowsObserved == Spec => UndisturbedRowsAreObserved
<1> DEFINE All == TypeInv /\ LockInv /\ OpenAt /\ LeaseInv /\ ObserveInv
<1>1. Init => All BY TypeInit, LockInit, OpenInit, LeaseInit, ObserveInit
<1>2. All /\ [Next]_vars => All'
  <2> SUFFICES ASSUME All, [Next]_vars PROVE All' OBVIOUS
  <2>1. TypeInv' /\ LockInv' /\ OpenAt' /\ LeaseInv' BY TypeStep, LockStep, OpenStep, LeaseStep
  <2>2. InOrder' /\ Accepted' BY OrderKept, AcceptedKept DEF ObserveInv
  <2>3. ASSUME ~disturbed' PROVE WorkLeft' /\ LastFits'
    <3>1. Fenced /\ WorkLeft /\ LastFits BY <2>3, DisturbedStays DEF LeaseInv, ObserveInv
    <3> QED BY <2>3, <3>1, WorkLeftKept, LastFitsKept DEF ObserveInv
  <2> QED BY <2>1, <2>2, <2>3 DEF ObserveInv
<1>3. All /\ [Next]_vars =>
        [~disturbed => \A d \in Deployments : runtime'[d] # runtime[d] =>
           (runtime'[d] = "RUNNING" <=> cont[d] = "running")]_vars
  BY ObservedWrites DEF ObserveInv
<1> QED BY <1>1, <1>2, <1>3, PTL DEF Spec, UndisturbedRowsAreObserved
=============================================================================
