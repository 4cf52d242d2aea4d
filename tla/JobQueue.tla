------------------------------ MODULE JobQueue ------------------------------
(***************************************************************************)
(* The durable job queue and the lifecycle operations it carries: START,   *)
(* STOP, RESTART and DELETE of managed deployments.                        *)
(*                                                                         *)
(* The management API enqueues an operation with its steps and its job.    *)
(* Workers lease jobs, take the advisory locks of the deployment and of    *)
(* its node, run the open steps against the node agent and write the       *)
(* result.  A lease is not a fence: a worker that missed its heartbeats    *)
(* goes on working while another takes the job over.  Every action is one  *)
(* commit or one call, so crashes and other workers come in between.       *)
(***************************************************************************)
EXTENDS Naturals, Sequences, FiniteSets

\* Operators named ...Bug are deliberate defects: each replaces the definition after
\* it in one mutation run, and a property must notice.
CONSTANTS
  Workers, Deployments, Nodes,
  NodeOf,        \* the node of each deployment
  NoWorker, NoDeployment,
  MaxAttempts,   \* operation_job.max_attempts
  MaxOps,        \* bound: operations enqueued
  MaxFaults,     \* bound: faults in one behaviour
  FaultKinds     \* which faults happen: a subset of AllFaults

AllFaults == {"crash", "pause", "exception", "retryable", "permanent"}

ASSUME QueueAssumption ==
  /\ NodeOf \in [Deployments -> Nodes]
  /\ NoWorker \notin Workers /\ NoDeployment \notin Deployments
  /\ MaxAttempts \in Nat \ {0}
  /\ MaxOps \in Nat /\ MaxFaults \in Nat
  /\ FaultKinds \subseteq AllFaults

Ops   == 1 .. MaxOps     \* in the order of created_at
NoOp  == 0
Kinds == {"START", "STOP", "RESTART", "DELETE"}

StepsOf == [k \in Kinds |->
  CASE k = "START"   -> << "PREPARE_ARTIFACTS", "ENSURE_CONTAINER", "START_CONTAINER",
                           "WAIT_HEALTH", "PROBE_INFERENCE" >>
    [] k = "STOP"    -> << "STOP_CONTAINER" >>
    [] k = "RESTART" -> << "RESTART_CONTAINER", "WAIT_HEALTH", "PROBE_INFERENCE" >>
    [] OTHER         -> << "STOP_CONTAINER", "REMOVE_CONTAINER" >>]

\* deployment.desired_state and runtime_status once an operation of a kind is through.
DesiredOf == [k \in Kinds |-> CASE k = "STOP"   -> "STOPPED"
                                [] k = "DELETE" -> "REMOVED"
                                [] OTHER        -> "RUNNING"]
RuntimeOf == [k \in Kinds |-> IF k \in {"STOP", "DELETE"} THEN "STOPPED" ELSE "RUNNING"]

Active    == {"QUEUED", "RUNNING"}
Finished  == {"SUCCEEDED", "FAILED"}
OpenSteps == {"PENDING", "RUNNING"}

VARIABLES
  \* the database: operation, operation_step
  kind, target, status, step,
  \* the database: operation_job; "stale" is a locked_at older than the window,
  \* ready an available_at that has come
  job, owner, stale, attempts, ready,
  \* the database: deployment
  desired, runtime, health,
  \* the node: containers
  cont,
  \* the database server: advisory lock keys per worker's lock connection
  held,
  \* the workers: where each is, with which operation and step, and the rows its
  \* session loaded and does not read again (expire_on_commit=False)
  pc, cur, pos, seenJob, seenAttempts, seenStatus, seenDesired,
  \* the API: requests that passed the check for an active operation
  asked,
  \* bounds and history
  faults,     \* faults so far
  disturbed,  \* a worker has crashed or missed its heartbeats
  orphaned    \* operations whose job was failed by a worker that died right after

operationVars == <<kind, target, status, step>>
jobVars       == <<job, owner, stale, attempts, ready>>
rowVars       == <<desired, runtime, health>>
seenVars      == <<seenJob, seenAttempts, seenStatus, seenDesired>>
workerVars    == <<pc, cur, pos, seenVars>>
historyVars   == <<faults, disturbed, orphaned>>
vars == <<operationVars, jobVars, rowVars, cont, held, workerVars, asked, historyVars>>

Created(o) == kind[o] # "NONE"
Place(w)   == target[cur[w]]           \* the deployment a worker works on
Code(w)    == StepsOf[kind[cur[w]]][pos[w]]

\* lock phases: the worker holds the advisory locks
RunPhases == {"load", "next", "call", "commit", "mark", "retry", "requeue", "fail",
              "failed", "failjob", "succeed", "done", "release"}
StepPhases == {"call", "commit", "mark", "retry", "fail"}
Phases == RunPhases \cup {"idle", "claimed", "busy", "giveback", "unhandled", "abandon"}

OperationType ==
  /\ kind \in [Ops -> Kinds \cup {"NONE"}]
  /\ target \in [Ops -> Deployments \cup {NoDeployment}]
  /\ \A o \in Ops : Created(o) => target[o] \in Deployments
  /\ status \in [Ops -> Active \cup Finished]
  /\ step \in [Ops -> Seq(OpenSteps \cup Finished)]
JobType ==
  /\ job \in [Ops -> {"QUEUED", "RUNNING", "DONE", "FAILED"}]
  /\ owner \in [Ops -> Workers \cup {NoWorker}]
  /\ stale \in [Ops -> BOOLEAN] /\ ready \in [Ops -> BOOLEAN]
  /\ attempts \in [Ops -> Nat]
RowType ==
  /\ desired \in [Deployments -> {"RUNNING", "STOPPED", "REMOVED"}]
  /\ runtime \in [Deployments -> {"CREATED", "RUNNING", "STOPPED"}]
  /\ health \in [Deployments -> {"UNKNOWN", "STARTING", "HEALTHY", "UNHEALTHY"}]
NodeType ==
  /\ cont \in [Deployments -> {"absent", "stopped", "running"}]
  /\ held \in [Workers -> SUBSET (Deployments \cup Nodes)]
WorkerType ==
  /\ pc \in [Workers -> Phases]
  /\ cur \in [Workers -> Ops \cup {NoOp}]
  /\ pos \in [Workers -> Nat]
  /\ \A w \in Workers : pc[w] # "idle" => cur[w] \in Ops /\ Created(cur[w])
  /\ \A w \in Workers : pc[w] \in StepPhases => pos[w] \in DOMAIN StepsOf[kind[cur[w]]]
  /\ seenJob \in [Workers -> {"QUEUED", "RUNNING", "DONE", "FAILED"}]
  /\ seenAttempts \in [Workers -> Nat]
  /\ seenStatus \in [Workers -> Active \cup Finished]
  /\ seenDesired \in [Workers -> {"RUNNING", "STOPPED", "REMOVED"}]
HistoryType ==
  /\ asked \subseteq [dep : Deployments, kind : Kinds]
  /\ faults \in Nat /\ disturbed \in BOOLEAN /\ orphaned \subseteq Ops
\* Every variable holds a value of its kind, and a worker not idle has a job.
TypeOK ==
  /\ OperationType /\ JobType /\ RowType /\ NodeType /\ WorkerType /\ HistoryType

\* Rows of operations not yet created hold placeholders that nothing reads.
Init ==
  /\ kind = [o \in Ops |-> "NONE"]
  /\ target = [o \in Ops |-> NoDeployment]
  /\ status = [o \in Ops |-> "QUEUED"]
  /\ step = [o \in Ops |-> << >>]
  /\ job = [o \in Ops |-> "QUEUED"]
  /\ owner = [o \in Ops |-> NoWorker]
  /\ stale = [o \in Ops |-> FALSE] /\ ready = [o \in Ops |-> FALSE]
  /\ attempts = [o \in Ops |-> 0]
  /\ desired = [d \in Deployments |-> "STOPPED"]
  /\ runtime = [d \in Deployments |-> "CREATED"]
  /\ health = [d \in Deployments |-> "UNKNOWN"]
  /\ cont = [d \in Deployments |-> "absent"]
  /\ held = [w \in Workers |-> {}]
  /\ pc = [w \in Workers |-> "idle"] /\ cur = [w \in Workers |-> NoOp]
  /\ pos = [w \in Workers |-> 0]
  /\ seenJob = [w \in Workers |-> "RUNNING"]
  /\ seenAttempts = [w \in Workers |-> 0]
  /\ seenStatus = [w \in Workers |-> "RUNNING"]
  /\ seenDesired = [w \in Workers |-> "STOPPED"]
  /\ asked = {} /\ faults = 0 /\ disturbed = FALSE /\ orphaned = {}

-----------------------------------------------------------------------------
(***************************** shared pieces ******************************)

Goto(w, phase) == pc' = [pc EXCEPT ![w] = phase]

\* The worker is through with the job, or dead: what it knew is gone.
Leave(w) ==
  /\ Goto(w, "idle")
  /\ cur' = [cur EXCEPT ![w] = NoOp] /\ pos' = [pos EXCEPT ![w] = 0]
  /\ seenJob' = [seenJob EXCEPT ![w] = "RUNNING"]
  /\ seenAttempts' = [seenAttempts EXCEPT ![w] = 0]
  /\ seenStatus' = [seenStatus EXCEPT ![w] = "RUNNING"]
  /\ seenDesired' = [seenDesired EXCEPT ![w] = "STOPPED"]

Fault(what) ==
  /\ what \in FaultKinds /\ faults < MaxFaults
  /\ faults' = faults + 1

SetStep(w, to) == step' = [step EXCEPT ![cur[w]][pos[w]] = to]

\* mark_job_done and mark_job_failed: an ORM session writes the columns whose value
\* differs from the one it loaded, and only a RUNNING row has an owner to clear.
WriteJob(w, to) ==
  LET o == cur[w]  leased == seenJob[w] = "RUNNING" IN
  /\ job' = [job EXCEPT ![o] = IF seenJob[w] = to THEN @ ELSE to]
  /\ owner' = [owner EXCEPT ![o] = IF leased THEN NoWorker ELSE @]
  /\ stale' = [stale EXCEPT ![o] = IF leased THEN FALSE ELSE @]

\* requeue_job: QUEUED again whatever the row says, available after a delay.
Requeue(w) ==
  /\ job' = [job EXCEPT ![cur[w]] = "QUEUED"]
  /\ owner' = [owner EXCEPT ![cur[w]] = NoWorker]
  /\ stale' = [stale EXCEPT ![cur[w]] = FALSE]
  /\ ready' = [ready EXCEPT ![cur[w]] = FALSE]

OneTooManyBug(o) ==
  {i \in DOMAIN step[o] : step[o][i] \in OpenSteps} \cup {Len(step[o]) + 1}
\* Steps of the run that are still to do: PENDING ones, and RUNNING ones left by a
\* crash.  A FAILED one is not among them.
Open(o) == {i \in DOMAIN step[o] : step[o][i] \in OpenSteps}

-----------------------------------------------------------------------------
(******************************** the API *********************************)

\* find_active_for_deployment, an ordinary read under no lock.
NoneActive(d) == \A o \in Ops : Created(o) /\ target[o] = d => status[o] \notin Active

\* _require_safe_for_remove.
MayRemove(d) == runtime[d] # "RUNNING" /\ health[d] # "STARTING"

\* enqueue_lifecycle up to its writes: two requests may both pass.
Check(d, k) ==
  /\ NoneActive(d)
  /\ k = "DELETE" => MayRemove(d)
  /\ [dep |-> d, kind |-> k] \notin asked
  /\ Cardinality(asked) + Cardinality({o \in Ops : Created(o)}) < MaxOps
  /\ asked' = asked \cup {[dep |-> d, kind |-> k]}
  /\ UNCHANGED <<operationVars, jobVars, rowVars, cont, held, workerVars, historyVars>>

\* enqueue_lifecycle's transaction: the intent on the deployment, the operation, its
\* steps and its job.
Enqueue(a, o) ==
  /\ a \in asked
  /\ ~Created(o) /\ \A p \in 1 .. o - 1 : Created(p)
  /\ asked' = asked \ {a}
  /\ desired' = [desired EXCEPT ![a.dep] = DesiredOf[a.kind]]
  /\ kind' = [kind EXCEPT ![o] = a.kind]
  /\ target' = [target EXCEPT ![o] = a.dep]
  /\ step' = [step EXCEPT ![o] = [i \in DOMAIN StepsOf[a.kind] |-> "PENDING"]]
  /\ ready' = [ready EXCEPT ![o] = TRUE]
  /\ UNCHANGED <<status, job, owner, stale, attempts, runtime, health, cont, held,
                 workerVars, historyVars>>

-----------------------------------------------------------------------------
(****************************** the lease *********************************)

\* recover_stale_jobs, at the start of every poll.
RecoverStale(w) ==
  LET lost == {o \in Ops : job[o] = "RUNNING" /\ stale[o]} IN
  /\ pc[w] = "idle" /\ lost # {}
  /\ job'   = [o \in Ops |-> IF o \in lost THEN "QUEUED" ELSE job[o]]
  /\ owner' = [o \in Ops |-> IF o \in lost THEN NoWorker ELSE owner[o]]
  /\ ready' = [o \in Ops |-> IF o \in lost THEN TRUE ELSE ready[o]]
  /\ stale' = [o \in Ops |-> IF o \in lost THEN FALSE ELSE stale[o]]
  /\ UNCHANGED <<operationVars, attempts, rowVars, cont, held, workerVars, asked,
                 historyVars>>

ClaimOnceBug(o) == Created(o) /\ job[o] = "QUEUED" /\ ready[o] /\ status[o] = "QUEUED"
Claimable(o)    == Created(o) /\ job[o] = "QUEUED" /\ ready[o]

\* claim_next_job: the oldest job available, whatever the status of its operation.
Claim(w, o) ==
  /\ pc[w] = "idle"
  /\ Claimable(o) /\ \A p \in 1 .. o - 1 : ~Claimable(p)
  /\ job' = [job EXCEPT ![o] = "RUNNING"]
  /\ owner' = [owner EXCEPT ![o] = w]
  /\ stale' = [stale EXCEPT ![o] = FALSE]
  /\ attempts' = [attempts EXCEPT ![o] = @ + 1]
  /\ status' = [status EXCEPT ![o] = IF @ = "QUEUED" THEN "RUNNING" ELSE @]
  /\ cur' = [cur EXCEPT ![w] = o]
  /\ Goto(w, "claimed")
  /\ UNCHANGED <<kind, target, step, ready, rowVars, cont, held, pos, seenVars, asked,
                 historyVars>>

Leases(w, o) == pc[w] # "idle" /\ cur[w] = o /\ owner[o] = w

\* heartbeat_job_lease: only the owner of a RUNNING job refreshes its lease.
Heartbeat(w) ==
  LET o == cur[w] IN
  /\ o # NoOp /\ Leases(w, o)
  /\ job[o] = "RUNNING" /\ stale[o]
  /\ stale' = [stale EXCEPT ![o] = FALSE]
  /\ UNCHANGED <<operationVars, job, owner, attempts, ready, rowVars, cont, held,
                 workerVars, asked, historyVars>>

\* The window passes without a heartbeat: nobody works on the job ...
LeaseExpires(o) ==
  /\ Created(o) /\ job[o] = "RUNNING" /\ ~stale[o]
  /\ \A w \in Workers : ~Leases(w, o)
  /\ stale' = [stale EXCEPT ![o] = TRUE]
  /\ UNCHANGED <<operationVars, job, owner, attempts, ready, rowVars, cont, held,
                 workerVars, asked, historyVars>>

\* ... or somebody does whose heartbeats fail or come too late.
Pause(w) ==
  LET o == cur[w] IN
  /\ o # NoOp /\ Leases(w, o)
  /\ job[o] = "RUNNING" /\ ~stale[o]
  /\ Fault("pause")
  /\ stale' = [stale EXCEPT ![o] = TRUE]
  /\ disturbed' = TRUE
  /\ UNCHANGED <<operationVars, job, owner, attempts, ready, rowVars, cont, held,
                 workerVars, asked, orphaned>>

\* available_at comes.
BecomesReady(o) ==
  /\ Created(o) /\ job[o] = "QUEUED" /\ ~ready[o]
  /\ ready' = [ready EXCEPT ![o] = TRUE]
  /\ UNCHANGED <<operationVars, job, owner, stale, attempts, rowVars, cont, held,
                 workerVars, asked, historyVars>>

-----------------------------------------------------------------------------
(************************ the worker: taking the locks *********************)

DeploymentKeyBug(d) == {d}
\* The keys execute takes: the deployment's, and its node's, which Cold Switch uses too.
LockKeys(d) == {d, NodeOf[d]}
UnlockedBug(w) == TRUE
LocksFree(w) == \A v \in Workers \ {w} : LockKeys(Place(w)) \cap held[v] = {}

\* SessionAdvisoryLockSet.try_acquire: all keys or none.
TryAcquire(w) ==
  /\ pc[w] = "claimed"
  /\ IF LocksFree(w)
       THEN held' = [held EXCEPT ![w] = LockKeys(Place(w))] /\ Goto(w, "load")
       ELSE Goto(w, "busy") /\ UNCHANGED held
  /\ UNCHANGED <<operationVars, jobVars, rowVars, cont, cur, pos, seenVars, asked,
                 historyVars>>

\* Locks busy: the job row is read ...
ReadBusyJob(w) ==
  /\ pc[w] = "busy"
  /\ seenJob' = [seenJob EXCEPT ![w] = job[cur[w]]]
  /\ seenAttempts' = [seenAttempts EXCEPT ![w] = attempts[cur[w]]]
  /\ Goto(w, "giveback")
  /\ UNCHANGED <<operationVars, jobVars, rowVars, cont, held, cur, pos, seenStatus,
                 seenDesired, asked, historyVars>>

ContentionFailsBug(w) ==
  /\ pc[w] = "giveback"
  /\ job' = [job EXCEPT ![cur[w]] = "FAILED"]
  /\ Leave(w)
  /\ UNCHANGED <<operationVars, owner, stale, attempts, ready, rowVars, cont, held, asked,
                 historyVars>>
\* ... and put back with the attempt uncounted, whoever owns it by then.
GiveBack(w) ==
  LET o == cur[w] IN
  /\ pc[w] = "giveback"
  /\ attempts' = [attempts EXCEPT ![o] = IF seenAttempts[w] = 0 THEN @
                                           ELSE seenAttempts[w] - 1]
  /\ IF seenJob[w] = "QUEUED"
       THEN ready' = [ready EXCEPT ![o] = FALSE] /\ UNCHANGED <<job, owner, stale>>
       ELSE Requeue(w)
  /\ Leave(w)
  /\ UNCHANGED <<operationVars, rowVars, cont, held, asked, historyVars>>

-----------------------------------------------------------------------------
(*********************** the worker: running the steps *********************)

\* The rows are read once, under the locks; _run_operation does not look at the
\* operation's status.
Load(w) ==
  LET o == cur[w] IN
  /\ pc[w] = "load"
  /\ seenJob' = [seenJob EXCEPT ![w] = job[o]]
  /\ seenAttempts' = [seenAttempts EXCEPT ![w] = attempts[o]]
  /\ seenStatus' = [seenStatus EXCEPT ![w] = status[o]]
  /\ seenDesired' = [seenDesired EXCEPT ![w] = desired[target[o]]]
  /\ Goto(w, "next")
  /\ UNCHANGED <<operationVars, jobVars, rowVars, cont, held, cur, pos, asked,
                 historyVars>>

\* begin_step on the first open step.
BeginStep(w, i) ==
  LET o == cur[w] IN
  /\ pc[w] = "next"
  /\ i \in Open(o) /\ \A k \in Open(o) : i <= k
  /\ step' = [step EXCEPT ![o][i] = "RUNNING"]
  /\ pos' = [pos EXCEPT ![w] = i]
  /\ Goto(w, "call")
  /\ UNCHANGED <<kind, target, status, jobVars, rowVars, cont, held, cur, seenVars,
                 asked, historyVars>>

\* The node agent: what a command makes of a container ...
Effect(s, c) ==
  CASE s = "ENSURE_CONTAINER" /\ c = "absent"                       -> "stopped"
    [] s \in {"START_CONTAINER", "RESTART_CONTAINER"} /\ c # "absent" -> "running"
    [] s = "STOP_CONTAINER" /\ c # "absent"                         -> "stopped"
    [] s = "REMOVE_CONTAINER" /\ c # "running"                      -> "absent"
    [] OTHER                                                        -> c

\* ... and when it refuses for good: no container (which DELETE forgives), a running
\* one to remove, or one that never becomes healthy because it does not run.
NeedContainer == {"START_CONTAINER", "STOP_CONTAINER", "RESTART_CONTAINER",
                  "WAIT_HEALTH", "PROBE_INFERENCE"}
MissingIsFineBug(k, s, c) == c = "running" /\ s = "REMOVE_CONTAINER"
Refused(k, s, c) ==
  \/ c = "absent" /\ s \in NeedContainer /\ ~(k = "DELETE" /\ s = "STOP_CONTAINER")
  \/ c = "running" /\ s = "REMOVE_CONTAINER"
  \/ c = "stopped" /\ s = "WAIT_HEALTH"
\* RUNTIME_NOT_READY is a probe error worth another attempt.
NotReady(s, c) == c = "stopped" /\ s = "PROBE_INFERENCE"

Command(w) ==
  LET d == Place(w) IN
  /\ cont' = [cont EXCEPT ![d] = Effect(Code(w), @)]
  /\ Goto(w, IF Refused(kind[cur[w]], Code(w), cont[d]) THEN "fail"
             ELSE IF NotReady(Code(w), cont[d]) THEN "retry" ELSE "commit")

CallNode(w) ==
  /\ pc[w] = "call"
  /\ Command(w)
  /\ UNCHANGED <<operationVars, jobVars, rowVars, held, cur, pos, seenVars, asked,
                 historyVars>>

\* A call that fails, its command carried out or not: time-outs and 5xx gateway
\* errors are retried, other errors and a health time-out are final.
CallFails(w) ==
  LET d == Place(w) IN
  /\ pc[w] = "call"
  /\ \/ Fault("retryable") /\ Goto(w, "retry")
     \/ Fault("permanent") /\ Goto(w, "fail")
  /\ \E c \in {cont[d], Effect(Code(w), cont[d])} : cont' = [cont EXCEPT ![d] = c]
  /\ UNCHANGED <<operationVars, jobVars, rowVars, held, cur, pos, seenVars, asked,
                 disturbed, orphaned>>

\* The deployment row after a step: _mark_runtime_started and _mark_runtime_stopped,
\* and the health the check or the probe found.  Stopping leaves the health as it was.
CommitRow(w) ==
  LET d == Place(w)  s == Code(w) IN
  /\ pc[w] = "commit"
  /\ runtime' = [runtime EXCEPT ![d] =
       CASE s \in {"START_CONTAINER", "RESTART_CONTAINER"} -> "RUNNING"
         [] s = "STOP_CONTAINER"                           -> "STOPPED"
         [] OTHER                                          -> @]
  /\ health' = [health EXCEPT ![d] =
       CASE s \in {"START_CONTAINER", "RESTART_CONTAINER"} -> "STARTING"
         [] s \in {"WAIT_HEALTH", "PROBE_INFERENCE"}       -> "HEALTHY"
         [] OTHER                                          -> @]
  /\ Goto(w, "mark")
  /\ UNCHANGED <<operationVars, jobVars, desired, cont, held, cur, pos, seenVars, asked,
                 historyVars>>

SucceedStep(w) ==
  /\ pc[w] = "mark"
  /\ SetStep(w, "SUCCEEDED")
  /\ Goto(w, "next")
  /\ UNCHANGED <<kind, target, status, jobVars, rowVars, cont, held, cur, pos, seenVars,
                 asked, historyVars>>

\* A failed health check or probe may leave UNHEALTHY in the session, which goes out
\* with the step's commit; an error of the call itself leaves the row alone.
RecordHealth(w) ==
  \E h \in IF Code(w) \in {"WAIT_HEALTH", "PROBE_INFERENCE"}
             THEN {"UNHEALTHY", health[Place(w)]} ELSE {health[Place(w)]} :
    health' = [health EXCEPT ![Place(w)] = h]

\* _handle_retryable: bump_step_attempt and requeue while attempts are left.
OneMoreBug(w)   == seenAttempts[w] <= MaxAttempts
AttemptsLeft(w) == seenAttempts[w] < MaxAttempts
BumpStep(w) ==
  /\ pc[w] = "retry" /\ AttemptsLeft(w)
  /\ SetStep(w, "PENDING") /\ RecordHealth(w)
  /\ Goto(w, "requeue")
  /\ UNCHANGED <<kind, target, status, jobVars, desired, runtime, cont, held, cur, pos,
                 seenVars, asked, historyVars>>

RequeueRetry(w) ==
  /\ pc[w] = "requeue"
  /\ Requeue(w)
  /\ Goto(w, "release")
  /\ UNCHANGED <<operationVars, attempts, rowVars, cont, held, cur, pos, seenVars, asked,
                 historyVars>>

\* fail_step, for a permanent error or when the attempts are used up.
FailStep(w) ==
  /\ pc[w] = "fail" \/ (pc[w] = "retry" /\ ~AttemptsLeft(w))
  /\ SetStep(w, "FAILED") /\ RecordHealth(w)
  /\ Goto(w, "failed")
  /\ UNCHANGED <<kind, target, status, jobVars, desired, runtime, cont, held, cur, pos,
                 seenVars, asked, historyVars>>

-----------------------------------------------------------------------------
(*************************** the worker: endings **************************)

\* mark_operation_failed and mark_operation_succeeded keep a terminal status, going
\* by the status their session loaded.
EndOperation(w, to) ==
  status' = [status EXCEPT ![cur[w]] = IF seenStatus[w] \in Finished THEN @ ELSE to]

\* _fail_all: the operation, then the job.
FailOperation(w) ==
  /\ pc[w] = "failed"
  /\ EndOperation(w, "FAILED")
  /\ Goto(w, "failjob")
  /\ UNCHANGED <<kind, target, step, jobVars, rowVars, cont, held, cur, pos, seenVars,
                 asked, historyVars>>

FailJob(w) ==
  /\ pc[w] = "failjob"
  /\ WriteJob(w, "FAILED")
  /\ Goto(w, "release")
  /\ UNCHANGED <<operationVars, attempts, ready, rowVars, cont, held, cur, pos, seenVars,
                 asked, historyVars>>

\* No open step: _apply_success_deployment_state, committed alone ...
ApplySuccess(w) ==
  LET k == kind[cur[w]]  d == Place(w) IN
  /\ pc[w] = "next" /\ Open(cur[w]) = {}
  /\ desired' = [desired EXCEPT ![d] = IF seenDesired[w] = DesiredOf[k] THEN @
                                         ELSE DesiredOf[k]]
  /\ runtime' = [runtime EXCEPT ![d] = RuntimeOf[k]]
  /\ Goto(w, "succeed")
  /\ UNCHANGED <<operationVars, jobVars, health, cont, held, cur, pos, seenVars, asked,
                 historyVars>>

\* ... then the operation, then the job.
SucceedOperation(w) ==
  /\ pc[w] = "succeed"
  /\ EndOperation(w, "SUCCEEDED")
  /\ Goto(w, "done")
  /\ UNCHANGED <<kind, target, step, jobVars, rowVars, cont, held, cur, pos, seenVars,
                 asked, historyVars>>

FinishJob(w) ==
  /\ pc[w] = "done"
  /\ WriteJob(w, "DONE")
  /\ Goto(w, "release")
  /\ UNCHANGED <<operationVars, attempts, ready, rowVars, cont, held, cur, pos, seenVars,
                 asked, historyVars>>

Release(w) ==
  /\ pc[w] = "release"
  /\ held' = [held EXCEPT ![w] = {}]
  /\ Leave(w)
  /\ UNCHANGED <<operationVars, jobVars, rowVars, cont, asked, historyVars>>

\* An exception execute does not expect: the locks are released on the way out and
\* the session's uncommitted writes are lost ...
Exception(w) ==
  /\ pc[w] \notin {"idle", "release", "unhandled", "abandon"}
  /\ Fault("exception")
  /\ held' = [held EXCEPT ![w] = {}]
  /\ Goto(w, "unhandled")
  /\ UNCHANGED <<operationVars, jobVars, rowVars, cont, cur, pos, seenVars, asked,
                 disturbed, orphaned>>

\* ... and poll_once fails the job, and then the operation, both read afresh.
AbandonJob(w) ==
  /\ pc[w] = "unhandled"
  /\ job' = [job EXCEPT ![cur[w]] = "FAILED"]
  /\ owner' = [owner EXCEPT ![cur[w]] = NoWorker]
  /\ stale' = [stale EXCEPT ![cur[w]] = FALSE]
  /\ Goto(w, "abandon")
  /\ UNCHANGED <<operationVars, attempts, ready, rowVars, cont, held, cur, pos, seenVars,
                 asked, historyVars>>

AbandonOperation(w) ==
  /\ pc[w] = "abandon"
  /\ status' = [status EXCEPT ![cur[w]] = IF @ = "SUCCEEDED" THEN @ ELSE "FAILED"]
  /\ Leave(w)
  /\ UNCHANGED <<kind, target, step, jobVars, rowVars, cont, held, asked, historyVars>>

\* The worker process dies; the database server frees its locks with its connection.
\* In the middle of a call the command may still have been carried out.
Crash(w) ==
  /\ pc[w] # "idle"
  /\ Fault("crash")
  /\ \E c \in IF pc[w] = "call" THEN {cont[Place(w)], Effect(Code(w), cont[Place(w)])}
                                ELSE {cont[Place(w)]} :
       cont' = [cont EXCEPT ![Place(w)] = c]
  /\ held' = [held EXCEPT ![w] = {}]
  /\ disturbed' = TRUE
  /\ orphaned' = IF pc[w] = "abandon" /\ status[cur[w]] \in Active
                   THEN orphaned \cup {cur[w]} ELSE orphaned
  /\ Leave(w)
  /\ UNCHANGED <<operationVars, jobVars, rowVars, asked>>

-----------------------------------------------------------------------------
(***************************** specification ******************************)

Work(w) ==
  \/ TryAcquire(w) \/ ReadBusyJob(w) \/ GiveBack(w)
  \/ Load(w) \/ \E i \in 1 .. 5 : BeginStep(w, i)
  \/ CallNode(w) \/ CommitRow(w) \/ SucceedStep(w)
  \/ BumpStep(w) \/ RequeueRetry(w)
  \/ FailStep(w) \/ FailOperation(w) \/ FailJob(w)
  \/ ApplySuccess(w) \/ SucceedOperation(w) \/ FinishJob(w)
  \/ Release(w) \/ AbandonJob(w) \/ AbandonOperation(w)

Poll(w) == RecoverStale(w) \/ \E o \in Ops : Claim(w, o)

Trouble(w) == CallFails(w) \/ Exception(w) \/ Crash(w) \/ Pause(w)

Time(o) == LeaseExpires(o) \/ BecomesReady(o)

Next ==
  \/ \E d \in Deployments, k \in Kinds : Check(d, k)
  \/ \E a \in asked, o \in Ops : Enqueue(a, o)
  \/ \E w \in Workers : Poll(w) \/ Work(w) \/ Heartbeat(w) \/ Trouble(w)
  \/ \E o \in Ops : Time(o)

Spec == Init /\ [][Next]_vars

\* The worker loop goes on polling and working, and time passes.
Fairness ==
  /\ \A w \in Workers : WF_vars(Work(w)) /\ WF_vars(Poll(w))
  /\ \A o \in Ops : WF_vars(Time(o))
FairSpec == Spec /\ Fairness

-----------------------------------------------------------------------------
(******************************* properties *******************************)

Running(w) == pc[w] \in RunPhases

\* Two workers never run operations on the same node at once, whatever happens to
\* their leases: the advisory locks of execute keep them apart.
OneRunnerPerNode ==
  \A v, w \in Workers : v # w /\ Running(v) /\ Running(w)
    => NodeOf[Place(v)] # NodeOf[Place(w)]

\* A step that has succeeded is never run again: not after a crash, nor when the job
\* is leased to a second worker while the first still works on it.
StepsNeverRepeat ==
  [][\A o \in Ops : \A i \in DOMAIN step[o] :
       step[o][i] = "SUCCEEDED" => step'[o][i] = "SUCCEEDED"]_vars

\* An operation still active has a job some worker will take, or a worker about to
\* write its end; the exception is a worker that dies between failing the job and
\* failing the operation (poll_once).
ActiveHasLiveJob ==
  \A o \in Ops : Created(o) /\ status[o] \in Active =>
    \/ job[o] \in {"QUEUED", "RUNNING"}
    \/ \E w \in Workers : cur[w] = o /\ pc[w] = "abandon"
    \/ o \in orphaned

\* As long as no worker has crashed or missed its heartbeats, a runtime_status is
\* written only when the container is in that state.
UndisturbedRowsAreObserved ==
  [][~disturbed => \A d \in Deployments : runtime'[d] # runtime[d] =>
       (runtime'[d] = "RUNNING" <=> cont[d] = "running")]_vars

\* Until then, too, a job never has more attempts counted than it is allowed, and one
\* that waits in the queue has an attempt left: being refused the locks costs none.
UndisturbedAttempts ==
  ~disturbed => \A o \in Ops :
    /\ attempts[o] <= MaxAttempts
    /\ job[o] = "QUEUED" => attempts[o] < MaxAttempts

\* Every operation enqueued ends, and the queue is empty for good.
Settled(o) == job[o] \in {"DONE", "FAILED"} /\ (status[o] \in Finished \/ o \in orphaned)
QueueDrains == <>[](\A o \in Ops : Created(o) => Settled(o))
=============================================================================
