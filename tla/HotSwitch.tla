----------------------------- MODULE HotSwitch ------------------------------
(***************************************************************************)
(* One HOT SWITCH operation: the worker starts Target beside Source, moves *)
(* the endpoint's route to it, and then retires Source if the gateway      *)
(* proves that no request can still reach it.  A cancellation rolls back   *)
(* once the route may have moved; any other failure past that point is     *)
(* classified from what the rows and the gateway show; the reconciler      *)
(* re-examines operations handed to an operator.                           *)
(*                                                                         *)
(* The endpoint's traffic state is SERVING throughout, so no maintenance   *)
(* window hides a mistake.  Worker, operator, gateway and requests act     *)
(* concurrently; one worker action is one commit or one remote call.       *)
(***************************************************************************)
EXTENDS Naturals, FiniteSets, Sequences

CONSTANTS
  MaxAttempts,   \* operation_job.max_attempts
  MaxSweeps,     \* reconcile_max_attempts
  MaxInflight,   \* bound: requests held by the gateway
  MaxFaults,     \* bound: crashes and failing calls in one behaviour
  MaxEdits,      \* bound: route edits by the operator
  FaultKinds,    \* which faults happen: a subset of AllFaults
  AgentReportsHealth   \* does GET /internal/v1/deployments/{id} answer a health_status?

AllFaults == {"crash", "retryable", "permanent", "unexpected", "exit"}

ASSUME HotBounds ==
  /\ MaxAttempts \in Nat \ {0} /\ MaxSweeps \in Nat
  /\ MaxInflight \in Nat /\ MaxFaults \in Nat /\ MaxEdits \in Nat
ASSUME HotKinds == FaultKinds \subseteq AllFaults /\ AgentReportsHealth \in BOOLEAN

\* Operators named ...Bug are deliberate defects, each replacing the definition after it.
Forward == << "VALIDATE", "PREFLIGHT", "PREPARE_TARGET", "START_TARGET",
  "WAIT_TARGET_HEALTH", "PROBE_TARGET", "ACTIVATE_TARGET_ROUTE", "WAIT_ROUTE_APPLY",
  "WAIT_SOURCE_DRAIN", "STOP_SOURCE", "VERIFY_SOURCE_STOPPED", "FINALIZE" >>

Back == << "HOT_ROLLBACK_BEGIN", "HOT_ROLLBACK_START_SOURCE",
  "HOT_ROLLBACK_VERIFY_SOURCE", "HOT_ROLLBACK_PROBE_SOURCE",
  "HOT_ROLLBACK_ACTIVATE_SOURCE_ROUTE", "HOT_ROLLBACK_WAIT_ROUTE_APPLY",
  "HOT_ROLLBACK_FINALIZE" >>

ForwardSteps == {Forward[i] : i \in DOMAIN Forward}
BackSteps    == {Back[i] : i \in DOMAIN Back}
Steps        == ForwardSteps \cup BackSteps
Retirement   == {"WAIT_SOURCE_DRAIN", "STOP_SOURCE", "VERIFY_SOURCE_STOPPED", "FINALIZE"}
PostRoute    == {"ACTIVATE_TARGET_ROUTE", "WAIT_ROUTE_APPLY"} \cup Retirement

Deployments == {"source", "target"}
Routes      == Deployments \cup {"other", "none"}
Terminal    == {"SUCCEEDED", "FAILED", "ROLLED_BACK", "CANCELLED",
                "MANUAL_INTERVENTION_REQUIRED"}

\* Steps that ask about one deployment's health, and which.
HealthOf == [s \in {"WAIT_TARGET_HEALTH", "PROBE_TARGET", "HOT_ROLLBACK_VERIFY_SOURCE",
                    "HOT_ROLLBACK_PROBE_SOURCE"} |->
               IF s \in ForwardSteps THEN "target" ELSE "source"]
\* Steps that decide from what they read, and of these the ones that call the node agent.
RemoteChecks == DOMAIN HealthOf \cup {"PREFLIGHT", "PREPARE_TARGET", "VERIFY_SOURCE_STOPPED"}
CheckSteps   == RemoteChecks \cup {"VALIDATE", "FINALIZE", "HOT_ROLLBACK_BEGIN",
                                 "HOT_ROLLBACK_FINALIZE"}
\* Steps that wait for the gateway to apply a route, and the deployment it leads to.
WaitsFor  == [s \in {"WAIT_ROUTE_APPLY", "HOT_ROLLBACK_WAIT_ROUTE_APPLY"} |->
                IF s = "WAIT_ROUTE_APPLY" THEN "target" ELSE "source"]
\* Steps that start or stop a container.
CommandOf == [s \in {"START_TARGET", "STOP_SOURCE", "HOT_ROLLBACK_START_SOURCE"} |->
  CASE s = "START_TARGET" -> [dep |-> "target", to |-> "running"]
    [] s = "STOP_SOURCE"  -> [dep |-> "source", to |-> "stopped"]
    [] OTHER              -> [dep |-> "source", to |-> "running"]]

\* metadata_json, as the set of the marks that are true.
Marks == {"routeBoundary",  \* hot_route_boundary_entered
          "stopBoundary",   \* destructive_boundary_entered
          "owned",          \* hot_target_start_owned_by_operation
          "retained",       \* PREFLIGHT's basis was TARGET_ALREADY_RUNNING
          "skipped",        \* retirement_skipped
          "verified"}       \* source_stop_verified

-----------------------------------------------------------------------------
VARIABLES
  \* the database: operation, job, steps
  status, job, attempts,
  cancel,    \* operation.cancel_requested_at is set
  marks, step,
  routeVer,  \* version (and source_route_id) kept by ACTIVATE_TARGET_ROUTE; 0: none
  backVer,   \* version kept by HOT_ROLLBACK_ACTIVATE_SOURCE_ROUTE; 0: none
  \* the database: this endpoint's active route, whether another alias leads to
  \* Source, whether a route to Source is the row that the operation moved the alias
  \* from (or has yet to move it from), routing_state; the deployments
  route, shared, sourceRow, ver, rt, hl, desired,
  \* the node: containers, and commands that go on although their call has failed
  cont, late,
  \* the gateway: applied snapshot, version read by a reload in progress (0: none),
  \* requests resolved to a deployment but not bound yet, requests bound
  gw, load, unbound, infl,
  \* the worker's memory
  pc, cur, want,
  \* bounds, and the history of the departures the invariants name
  faults, edits, sweeps, anomaly

operationVars == <<status, job, attempts, cancel, marks, step, routeVer, backVer>>
routingVars   == <<route, shared, sourceRow, ver>>
deployVars    == <<rt, hl, desired>>
gatewayVars   == <<gw, load, unbound, infl>>
workerVars    == <<pc, cur, want>>
boundVars     == <<faults, edits, sweeps>>
vars == <<operationVars, routingVars, deployVars, cont, late, gatewayVars, workerVars,
          boundVars, anomaly>>

NoStep == "NONE"
Phases == {"idle", "entry", "next", "body", "route", "wait", "drain", "proof", "decide",
           "desire", "call", "mark", "commit", "failed", "classify", "failcleanup", "fail",
           "cancel", "cancelcleanup", "cancelend", "rollback", "block", "backnext",
           "manual", "jobdone", "reopen", "sweepcleanup", "sweepend"}
Snapshot == [ver : Nat, active : Routes, shared : BOOLEAN]

OperationType ==
  /\ status \in Terminal \cup {"QUEUED", "RUNNING", "ROLLING_BACK"}
  /\ job \in {"QUEUED", "RUNNING", "DONE", "FAILED"}
  /\ attempts \in Nat /\ cancel \in BOOLEAN /\ marks \in SUBSET Marks
  /\ step \in [Steps -> {"ABSENT", "PENDING", "RUNNING", "SUCCEEDED", "FAILED", "SKIPPED"}]
  /\ routeVer \in Nat /\ backVer \in Nat
RowType ==
  /\ route \in Routes /\ shared \in BOOLEAN /\ sourceRow \in BOOLEAN /\ ver \in Nat
  /\ rt \in [Deployments -> {"CREATED", "RUNNING", "STOPPED"}]
  /\ hl \in [Deployments -> {"UNKNOWN", "STARTING", "HEALTHY", "UNHEALTHY"}]
  /\ desired \in [Deployments -> {"RUNNING", "STOPPED"}]
  /\ cont \in [Deployments -> {"absent", "stopped", "running"}]
  /\ late \in SUBSET [dep : Deployments, to : {"stopped", "running"}]
GatewayType ==
  /\ gw \in Snapshot /\ load \in Nat
  /\ unbound \in [Deployments -> Nat] /\ infl \in [Deployments -> Nat]
WorkerType ==
  /\ pc \in Phases /\ cur \in Steps \cup {NoStep} /\ want \in Nat
  /\ anomaly \in SUBSET {"failed step skipped", "dead model routed", "target routed early",
                         "cleanup interrupted", "late stop"}
BoundType == faults \in Nat /\ edits \in Nat /\ sweeps \in Nat
\* Every variable holds a value of its kind; cur names a step or none at all.
TypeOK == OperationType /\ RowType /\ GatewayType /\ WorkerType /\ BoundType

\* Target is fresh, or still running since an earlier operation rolled back.
Init ==
  /\ status = "QUEUED" /\ job = "QUEUED" /\ attempts = 0
  /\ cancel = FALSE /\ marks = {} /\ routeVer = 0 /\ backVer = 0
  /\ step = [s \in Steps |-> IF s \in ForwardSteps THEN "PENDING" ELSE "ABSENT"]
  /\ route = "source" /\ shared \in BOOLEAN /\ sourceRow = TRUE /\ ver = 1
  /\ \E t \in {[rt |-> "CREATED", hl |-> "UNKNOWN", desired |-> "STOPPED", cont |-> "absent"],
               [rt |-> "RUNNING", hl |-> "HEALTHY", desired |-> "RUNNING", cont |-> "running"]} :
       /\ rt = [source |-> "RUNNING", target |-> t.rt]
       /\ hl = [source |-> "HEALTHY", target |-> t.hl]
       /\ desired = [source |-> "RUNNING", target |-> t.desired]
       /\ cont = [source |-> "running", target |-> t.cont]
  /\ late = {}
  /\ gw = [ver |-> 1, active |-> "source", shared |-> shared] /\ load = 0
  /\ unbound = [d \in Deployments |-> 0] /\ infl = [d \in Deployments |-> 0]
  /\ pc = "idle" /\ cur = NoStep /\ want = 0
  /\ faults = 0 /\ edits = 0 /\ sweeps = 0 /\ anomaly = {}

-----------------------------------------------------------------------------
(***************************** shared pieces ******************************)

Fault(kind) ==
  /\ kind \in FaultKinds /\ faults < MaxFaults
  /\ faults' = faults + 1
  /\ UNCHANGED <<edits, sweeps>>

Open(steps) == {s \in steps : step[s] \in {"PENDING", "RUNNING"}}
SkipOpen(steps) ==
  [s \in Steps |-> IF s \in Open(steps) THEN "SKIPPED" ELSE step[s]]

\* The worker lets go of the operation: what it knew is lost, the rows stay.
Forget == pc' = "idle" /\ cur' = NoStep /\ want' = 0
At(phase) == pc' = phase /\ UNCHANGED <<cur, want>>

OthersUnchanged == UNCHANGED <<cancel, late, gatewayVars, edits, sweeps>>
\* Nothing but the worker's own memory and the variables named beside it changes.
RowsUnchanged  == UNCHANGED <<status, job, attempts, marks, step, routeVer, backVer,
                              routingVars, deployVars, cont, faults, anomaly>>
StepUnchanged  == UNCHANGED <<status, job, attempts, routeVer, backVer>>

\* A failing rollback step hands the operation to the operator; a failing forward
\* step is judged by _handle_terminal_failure.
AfterFailure(s) == IF s \in BackSteps THEN "manual" ELSE "failed"
FailStep ==
  /\ step' = [step EXCEPT ![cur] = "FAILED"]
  /\ At(AfterFailure(cur))
Done(s) == [step EXCEPT ![s] = "SUCCEEDED"]
Onward  == IF cur \in ForwardSteps THEN "next" ELSE "backnext"

\* durable_hot_route_mutation_from_steps: what the steps remember of a route change.
RouteMoveRecorded ==
  \/ step["ACTIVATE_TARGET_ROUTE"] = "SUCCEEDED" \/ routeVer # 0
  \/ \E s \in PostRoute \ {"ACTIVATE_TARGET_ROUTE"} : step[s] # "PENDING"
RouteMayHaveMoved == RouteMoveRecorded \/ route = "target"

\* _maybe_handle_cancel: past the route boundary a cancellation rolls back.
AfterCancel ==
  IF "routeBoundary" \in marks \/ RouteMayHaveMoved THEN "rollback" ELSE "cancel"

\* has_owned_source_stop_evidence: this operation, not somebody else, stopped Source.
StopEvidence == marks \cap {"stopBoundary", "verified"} # {}

\* _bump_routing_version, in the transaction that changes the routes.
Bumped == ver + 1

\* _list_source_active_routes: some alias still leads to Source.
SourceRouted == route = "source" \/ shared
-----------------------------------------------------------------------------
(***************** the worker: claiming and choosing a step ****************)

\* claim_next_job and recover_stale_jobs, as far as this operation sees them.
Claim ==
  /\ pc = "idle" /\ job = "QUEUED"
  /\ job' = "RUNNING" /\ attempts' = attempts + 1
  /\ status' = IF status = "QUEUED" THEN "RUNNING" ELSE status
  /\ At("entry")
  /\ UNCHANGED <<marks, step, routeVer, backVer, routingVars, deployVars, cont, faults,
                 anomaly>>
  /\ OthersUnchanged

RecoverStale ==
  /\ pc = "idle" /\ job = "RUNNING"
  /\ job' = "QUEUED"
  /\ UNCHANGED <<status, attempts, marks, step, routeVer, backVer, routingVars, deployVars,
                 cont, workerVars, faults, anomaly>>
  /\ OthersUnchanged

JobLeftBug == pc = "jobdone"
\* mark_job_done, or after a crash between the two commits
\* reconcile_terminal_operation_job: an operation that is over ends its job.
OperationOver == pc = "jobdone" \/ (pc = "entry" /\ status \in Terminal)
CloseJob ==
  /\ OperationOver
  /\ job' = IF status \in {"SUCCEEDED", "ROLLED_BACK"} THEN "DONE" ELSE "FAILED"
  /\ Forget
  /\ UNCHANGED <<status, attempts, marks, step, routeVer, backVer, routingVars, deployVars,
                 cont, faults, anomaly>>
  /\ OthersUnchanged

\* _run_locked: a rollback in progress resumes (its FAILED steps are passed over),
\* otherwise the forward steps continue.
Resume ==
  /\ pc = "entry" /\ status \notin Terminal
  /\ status = "ROLLING_BACK" \/ ~cancel
  /\ At(IF status = "ROLLING_BACK" THEN "block" ELSE "next")
  /\ RowsUnchanged
  /\ OthersUnchanged

\* On entry and before every forward step (not after the last one).
ObserveCancel ==
  /\ cancel
  /\ \/ pc = "entry" /\ status \notin Terminal \cup {"ROLLING_BACK"}
     \/ pc = "next" /\ Open(ForwardSteps) # {}
  /\ At(AfterCancel)
  /\ RowsUnchanged
  /\ OthersUnchanged

\* begin_step on the first open step.  The loops take PENDING and RUNNING steps and
\* look at no other, so a step left FAILED by a crash is passed over; "anomaly"
\* remembers it where no later step asks the same question again.
PassedOver(s) ==
  step[s] = "FAILED" /\ s \notin PostRoute \ {"FINALIZE"}
Begin(sequence, i) ==
  /\ step[sequence[i]] \in {"PENDING", "RUNNING"}
  /\ \A k \in 1 .. i - 1 : step[sequence[k]] \notin {"PENDING", "RUNNING"}
  /\ step' = [step EXCEPT ![sequence[i]] = "RUNNING"]
  /\ cur' = sequence[i] /\ want' = 0
  /\ pc' = "body"
  /\ anomaly' = IF \E k \in 1 .. i - 1 : PassedOver(sequence[k])
                  THEN anomaly \cup {"failed step skipped"} ELSE anomaly

BeginStep ==
  /\ \/ pc = "next" /\ ~cancel /\ \E i \in DOMAIN Forward : Begin(Forward, i)
     \/ pc = "backnext" /\ \E i \in DOMAIN Back : Begin(Back, i)
  /\ StepUnchanged
  /\ UNCHANGED <<marks, routingVars, deployVars, cont, faults>>
  /\ OthersUnchanged

\* Every forward step is behind: desired states and SUCCEEDED are one commit, the
\* job is closed in another.
RetiredAnywayBug == "STOPPED"
SourceDesired ==
  IF "skipped" \notin marks /\ desired["source"] = "STOPPED" THEN "STOPPED" ELSE "RUNNING"
Succeed ==
  /\ pc = "next" /\ Open(ForwardSteps) = {}
  /\ status' = "SUCCEEDED"
  /\ desired' = [desired EXCEPT !["source"] = SourceDesired, !["target"] = "RUNNING"]
  /\ anomaly' = IF \E s \in ForwardSteps : PassedOver(s)
                  THEN anomaly \cup {"failed step skipped"} ELSE anomaly
  /\ At("jobdone")
  /\ UNCHANGED <<job, attempts, marks, step, routeVer, backVer, routingVars, rt, hl, cont,
                 faults>>
  /\ OthersUnchanged

-----------------------------------------------------------------------------
(*********************** the worker: checking steps ************************)

\* What FINALIZE requires, for a Source that was retired and for one that was kept.
ServesTarget == route = "target" /\ rt["target"] = "RUNNING" /\ hl["target"] = "HEALTHY"
Finalizable ==
  /\ ServesTarget
  /\ \/ "skipped" \in marks /\ rt["source"] = "RUNNING"
     \/ "skipped" \notin marks /\ rt["source"] = "STOPPED" /\ "verified" \in marks

\* What VALIDATE requires, and HOT_ROLLBACK_FINALIZE of a Source that was probed since.
SourceIsUp == route = "source" /\ rt["source"] = "RUNNING" /\ hl["source"] = "HEALTHY"
SourceIsBack == SourceIsUp /\ step["HOT_ROLLBACK_PROBE_SOURCE"] = "SUCCEEDED"

Healthy(d) == cont[d] = "running"
Ready ==
  CASE cur = "VALIDATE" -> SourceIsUp
    [] cur = "PREFLIGHT" -> cont["target"] = "running" => AgentReportsHealth
    [] cur \in DOMAIN HealthOf -> Healthy(HealthOf[cur])
    [] cur = "VERIFY_SOURCE_STOPPED" -> "skipped" \in marks \/ cont["source"] # "running"
    [] cur = "FINALIZE" -> Finalizable
    [] cur = "HOT_ROLLBACK_FINALIZE" -> SourceIsBack
    [] OTHER -> TRUE

Verified == cur = "VERIFY_SOURCE_STOPPED" /\ "skipped" \notin marks
WrongStateBug(d) == [desired EXCEPT ![d] = "CREATED"]
Without(d) == [desired EXCEPT ![d] = "STOPPED"]

\* What the check found is flushed with it and committed by succeed_step.  PREFLIGHT
\* of a running Target asks for no capacity; PREPARE_TARGET ensures the container.
CheckPasses ==
  /\ pc = "body" /\ cur \in CheckSteps /\ Ready
  /\ step' = Done(cur)
  /\ marks' = CASE cur = "PREFLIGHT" /\ cont["target"] = "running" -> marks \cup {"retained"}
                [] Verified -> marks \cup {"verified"}
                [] OTHER -> marks
  /\ cont' = IF cur = "PREPARE_TARGET" /\ cont["target"] = "absent"
               THEN [cont EXCEPT !["target"] = "stopped"] ELSE cont
  /\ hl' = IF cur \in DOMAIN HealthOf THEN [hl EXCEPT ![HealthOf[cur]] = "HEALTHY"] ELSE hl
  /\ rt' = CASE Verified -> [rt EXCEPT !["source"] = "STOPPED"]
             [] cur = "HOT_ROLLBACK_VERIFY_SOURCE" -> [rt EXCEPT !["source"] = "RUNNING"]
             [] OTHER -> rt
  /\ desired' = CASE Verified -> Without("source")
                  [] cur = "FINALIZE" ->
                       [desired EXCEPT !["source"] =
                          IF "skipped" \in marks THEN "RUNNING" ELSE "STOPPED"]
                  [] cur = "HOT_ROLLBACK_FINALIZE" -> [desired EXCEPT !["source"] = "RUNNING"]
                  [] OTHER -> desired
  /\ At(Onward)
  /\ StepUnchanged
  /\ UNCHANGED <<routingVars, faults, anomaly>>
  /\ OthersUnchanged

\* HOT_ROLLBACK_VERIFY_SOURCE looks at the runtime first, and keeps what it saw.
CheckFails ==
  /\ pc = "body" /\ cur \in CheckSteps /\ ~Ready
  /\ FailStep
  /\ IF cur = "HOT_ROLLBACK_VERIFY_SOURCE"
       THEN rt' = [rt EXCEPT !["source"] = "STOPPED"] /\ UNCHANGED hl
       ELSE /\ hl' = IF cur \in DOMAIN HealthOf
                       THEN [hl EXCEPT ![HealthOf[cur]] = "UNHEALTHY"] ELSE hl
            /\ UNCHANGED rt
  /\ StepUnchanged
  /\ UNCHANGED <<marks, routingVars, desired, cont, faults, anomaly>>
  /\ OthersUnchanged

-----------------------------------------------------------------------------
(***************** the worker: moving and awaiting the route ***************)

CancelIgnoredBug == FALSE
CancelObserved   == cancel
\* decide_hot_route_boundary and decide_destructive_boundary: under the job and
\* operation row locks a cancellation recorded so far wins, otherwise the mark is set.
Decide(mark, phase) ==
  /\ IF CancelObserved
       THEN At(AfterCancel) /\ UNCHANGED marks
       ELSE marks' = marks \cup {mark} /\ At(phase)
  /\ UNCHANGED <<status, job, attempts, step, routeVer, backVer, routingVars, deployVars,
                 cont, faults, anomaly>>
  /\ OthersUnchanged

DecideRoute == pc = "body" /\ cur = "ACTIVATE_TARGET_ROUTE" /\ Decide("routeBoundary", "route")
DecideStop  == pc = "decide" /\ Decide("stopBoundary", "desire")

\* ACTIVATE_TARGET_ROUTE: one transaction takes the alias lock, moves the route from
\* Source to Target, bumps the version and keeps it (with the Source route's id) in
\* the step.  A route already moved needs that record; any other route is refused.
ActivateTarget ==
  /\ pc = "route" /\ cur = "ACTIVATE_TARGET_ROUTE"
  /\ \/ /\ route = "source"
        /\ route' = "target" /\ ver' = Bumped /\ routeVer' = Bumped /\ sourceRow' = TRUE
        /\ At("commit") /\ UNCHANGED step
     \/ /\ route = "target" /\ routeVer # 0
        /\ At("commit") /\ UNCHANGED <<route, sourceRow, ver, routeVer, step>>
     \/ /\ route \in {"other", "none"} \/ (route = "target" /\ routeVer = 0)
        /\ FailStep /\ UNCHANGED <<route, sourceRow, ver, routeVer>>
  /\ UNCHANGED <<status, job, attempts, marks, backVer, shared, deployVars, cont, faults, anomaly>>
  /\ OthersUnchanged

\* HOT_ROLLBACK_ACTIVATE_SOURCE_ROUTE restores exactly the route row that
\* ACTIVATE_TARGET_ROUTE recorded, or fails: another row to Source is not it.
ActivateSource ==
  /\ pc = "body" /\ cur = "HOT_ROLLBACK_ACTIVATE_SOURCE_ROUTE"
  /\ IF routeVer # 0 /\ route # "other" /\ (route = "source" => sourceRow)
       THEN /\ route' = "source" /\ sourceRow' = TRUE
            /\ ver' = IF route = "source" THEN ver ELSE Bumped
            /\ pc' = "commit" /\ want' = IF route = "source" /\ backVer # 0 THEN backVer ELSE ver'
            /\ UNCHANGED <<cur, step>>
       ELSE FailStep /\ UNCHANGED <<route, sourceRow, ver>>
  /\ StepUnchanged
  /\ UNCHANGED <<marks, shared, deployVars, cont, faults, anomaly>>
  /\ OthersUnchanged

\* succeed_step, for the steps whose effect was committed before it.
Commit ==
  /\ pc = "commit"
  /\ step' = Done(cur)
  /\ backVer' = IF cur = "HOT_ROLLBACK_ACTIVATE_SOURCE_ROUTE" THEN want ELSE backVer
  /\ At(Onward)
  /\ UNCHANGED <<status, job, attempts, marks, routeVer, routingVars, deployVars, cont,
                 faults, anomaly>>
  /\ OthersUnchanged

\* WAIT_ROUTE_APPLY takes the recorded version or else the current one; its rollback
\* twin insists on the recorded one.
StartWait ==
  /\ pc = "body" /\ cur \in DOMAIN WaitsFor
  /\ IF cur = "WAIT_ROUTE_APPLY" \/ backVer # 0
       THEN /\ want' = IF cur = "WAIT_ROUTE_APPLY"
                         THEN (IF routeVer # 0 THEN routeVer ELSE ver) ELSE backVer
            /\ pc' = "wait" /\ UNCHANGED <<cur, step>>
       ELSE FailStep
  /\ StepUnchanged
  /\ UNCHANGED <<marks, routingVars, deployVars, cont, faults, anomaly>>
  /\ OthersUnchanged

\* _wait_gateway, until the gateway reports the version and the route ...
Applied(d) == gw.ver >= want /\ gw.active = d
WaitSatisfied ==
  /\ pc = "wait" /\ Applied(WaitsFor[cur])
  /\ step' = Done(cur)
  /\ At(Onward)
  /\ StepUnchanged
  /\ UNCHANGED <<marks, routingVars, deployVars, cont, faults, anomaly>>
  /\ OthersUnchanged

\* ... or the deadline passes.
WaitTimesOut ==
  /\ pc = "wait" /\ ~Applied(WaitsFor[cur])
  /\ FailStep
  /\ StepUnchanged
  /\ UNCHANGED <<marks, routingVars, deployVars, cont, faults, anomaly>>
  /\ OthersUnchanged

-----------------------------------------------------------------------------
(****************** the worker: starting and stopping **********************)

\* START_TARGET: a running Target is taken as it is.  Before the start call of any
\* other the ownership claim is committed, for only then may a cleanup stop it again;
\* a retained Target that went down is refused, its capacity was never checked.
OnRetainedTarget == marks \cap {"owned", "retained"} = {"retained"}
StartTarget ==
  /\ pc = "body" /\ cur = "START_TARGET"
  /\ \/ /\ cont["target"] = "running"
        /\ rt' = [rt EXCEPT !["target"] = "RUNNING"]
        /\ hl' = [hl EXCEPT !["target"] = "STARTING"]
        /\ step' = Done(cur) /\ At(Onward) /\ UNCHANGED marks
     \/ /\ cont["target"] # "running" /\ OnRetainedTarget
        /\ FailStep /\ UNCHANGED <<rt, hl, marks>>
     \/ /\ cont["target"] # "running" /\ ~OnRetainedTarget
        /\ marks' = marks \cup {"owned"}
        /\ At("call") /\ UNCHANGED <<rt, hl, step>>
  /\ StepUnchanged
  /\ UNCHANGED <<routingVars, desired, cont, faults, anomaly>>
  /\ OthersUnchanged

\* WAIT_SOURCE_DRAIN and STOP_SOURCE begin alike: a Source that some alias leads to is
\* kept; otherwise the version to be proven is read.
KeptAnywayBug == route = "source"
MustKeepSource == SourceRouted
Inspecting == cur = "WAIT_SOURCE_DRAIN"
                \/ (cur = "STOP_SOURCE" /\ "skipped" \notin marks /\ cont["source"] = "running")
StartProof ==
  /\ pc = "body" /\ Inspecting
  /\ IF MustKeepSource
       THEN marks' = marks \cup {"skipped"} /\ At("commit")
       ELSE /\ want' = ver /\ pc' = IF cur = "STOP_SOURCE" THEN "proof" ELSE "drain"
            /\ UNCHANGED <<cur, marks>>
  /\ StepUnchanged
  /\ UNCHANGED <<step, routingVars, deployVars, cont, faults, anomaly>>
  /\ OthersUnchanged

\* _evaluate_source_drain_observation: proven, or refuted for good, or not yet.
IgnoreUnboundBug == gw.ver >= want /\ gw.active = "target" /\ infl["source"] = 0
DrainProven ==
  /\ gw.ver >= want /\ gw.active = "target"
  /\ infl["source"] = 0 /\ \A d \in Deployments : unbound[d] = 0
DrainRefuted == gw.ver >= want /\ gw.active # "target"

SourceDrained ==
  /\ pc \in {"drain", "proof"} /\ DrainProven
  /\ At(IF pc = "proof" THEN "decide" ELSE "commit")
  /\ RowsUnchanged
  /\ OthersUnchanged

RouteConflict ==
  /\ pc \in {"drain", "proof"} /\ DrainRefuted
  /\ FailStep
  /\ StepUnchanged
  /\ UNCHANGED <<marks, routingVars, deployVars, cont, faults, anomaly>>
  /\ OthersUnchanged

\* Only the waiting step looks for a cancellation, once per poll.
CancelWhileDraining ==
  /\ pc = "drain" /\ cancel
  /\ At(AfterCancel)
  /\ RowsUnchanged
  /\ OthersUnchanged

\* The deadline passes, a fresh proof fails, or the gateway does not answer: Source is
\* kept, the switch goes on.
KeepSource ==
  /\ pc \in {"drain", "proof"} /\ ~DrainRefuted
  /\ marks' = marks \cup {"skipped"}
  /\ At("commit")
  /\ StepUnchanged
  /\ UNCHANGED <<step, routingVars, deployVars, cont, faults, anomaly>>
  /\ OthersUnchanged

\* STOP_SOURCE with nothing to stop: retirement was skipped, or Source is down, which
\* only this operation's own stop explains.
NothingToStop ==
  /\ pc = "body" /\ cur = "STOP_SOURCE"
  /\ \/ /\ "skipped" \in marks
        /\ step' = Done(cur) /\ At(Onward) /\ UNCHANGED <<rt, desired>>
     \/ /\ "skipped" \notin marks /\ cont["source"] # "running" /\ StopEvidence
        /\ rt' = [rt EXCEPT !["source"] = "STOPPED"] /\ desired' = Without("source")
        /\ At("commit") /\ UNCHANGED step
     \/ /\ "skipped" \notin marks /\ cont["source"] # "running" /\ ~StopEvidence
        /\ FailStep /\ UNCHANGED <<rt, desired>>
  /\ StepUnchanged
  /\ UNCHANGED <<marks, routingVars, hl, cont, faults, anomaly>>
  /\ OthersUnchanged

WantSourceStopped ==
  /\ pc = "desire"
  /\ desired' = Without("source")
  /\ At("call")
  /\ UNCHANGED <<status, job, attempts, marks, step, routeVer, backVer, routingVars, rt, hl,
                 cont, faults, anomaly>>
  /\ OthersUnchanged

\* HOT_ROLLBACK_START_SOURCE: a running Source is taken as it is, any other started.
StartSource ==
  /\ pc = "body" /\ cur = "HOT_ROLLBACK_START_SOURCE"
  /\ IF cont["source"] = "running"
       THEN /\ rt' = [rt EXCEPT !["source"] = "RUNNING"]
            /\ desired' = [desired EXCEPT !["source"] = "RUNNING"]
            /\ step' = Done(cur) /\ At(Onward)
       ELSE At("call") /\ UNCHANGED <<rt, desired, step>>
  /\ StepUnchanged
  /\ UNCHANGED <<marks, routingVars, hl, cont, faults, anomaly>>
  /\ OthersUnchanged

\* What a command does to the containers.
Effect(c) == [cont EXCEPT ![c.dep] = IF @ = "absent" THEN @ ELSE c.to]
Commanded == Effect(CommandOf[cur])
CallSucceeds ==
  /\ pc = "call" /\ cont[CommandOf[cur].dep] # "absent"
  /\ cont' = Commanded
  /\ At("mark")
  /\ UNCHANGED <<status, job, attempts, marks, step, routeVer, backVer, routingVars,
                 deployVars, faults, anomaly>>
  /\ OthersUnchanged

\* No container to start: PREPARE_TARGET was passed over.
CallRefused ==
  /\ pc = "call" /\ cont[CommandOf[cur].dep] = "absent"
  /\ FailStep
  /\ StepUnchanged
  /\ UNCHANGED <<marks, routingVars, deployVars, cont, faults, anomaly>>
  /\ OthersUnchanged

\* The rows after the call; START_TARGET's are committed with its success.
Mark ==
  /\ pc = "mark"
  /\ LET d == CommandOf[cur].dep
         started == CommandOf[cur].to = "running"
     IN  /\ rt' = [rt EXCEPT ![d] = IF started THEN "RUNNING" ELSE "STOPPED"]
         /\ hl' = IF started THEN [hl EXCEPT ![d] = "STARTING"] ELSE hl
         /\ desired' = CASE cur = "START_TARGET" -> desired
                         [] started -> [desired EXCEPT ![d] = "RUNNING"]
                         [] OTHER -> Without(d)
  /\ IF cur = "START_TARGET" THEN step' = Done(cur) /\ At(Onward)
                             ELSE At("commit") /\ UNCHANGED step
  /\ StepUnchanged
  /\ UNCHANGED <<marks, routingVars, cont, faults, anomaly>>
  /\ OthersUnchanged

-----------------------------------------------------------------------------
(************************* the worker: failing calls ***********************)

\* HOT_ROLLBACK_START_SOURCE wants Source running before it calls, in the transaction
\* that whatever ends the step commits.
WantedByCall == IF cur = "HOT_ROLLBACK_START_SOURCE"
                  THEN [desired EXCEPT !["source"] = "RUNNING"] ELSE desired

Calling ==
  \/ pc = "body" /\ cur \in RemoteChecks \cup {"START_TARGET", "HOT_ROLLBACK_START_SOURCE"}
  \/ pc = "body" /\ cur = "STOP_SOURCE" /\ "skipped" \notin marks
  \/ pc = "call"

\* _best_effort_stop_target_if_started and, for the reconciler, which leaves the row
\* alone, _maybe_cleanup_owned_target: only a Target this operation started is stopped.
Cleanup == [p \in {"failcleanup", "cancelcleanup", "sweepcleanup"} |->
              CASE p = "failcleanup" -> "fail" [] p = "cancelcleanup" -> "cancelend"
                [] OTHER -> "sweepend"]
NotOursBug  == TRUE
TargetOwned == "owned" \in marks
StopTarget  == [dep |-> "target", to |-> "stopped"]

\* The commands whose answer the worker awaits.
UnderWay == (IF pc = "call" THEN {CommandOf[cur]} ELSE {})
              \cup (IF pc \in DOMAIN Cleanup /\ TargetOwned THEN {StopTarget} ELSE {})
\* Without an answer the command was never run, was run, or is still running on the node
\* and takes effect later.
LosesAnswer ==
  \/ UNCHANGED late /\ cont' \in {cont} \cup {Effect(c) : c \in UnderWay}
  \/ UNCHANGED cont /\ \E c \in UnderWay : late' = late \cup {c}

\* Of the rollback's calls only two are retried.
Retried == cur \in ForwardSteps
             \/ (pc = "body" /\ cur \in {"HOT_ROLLBACK_START_SOURCE", "HOT_ROLLBACK_PROBE_SOURCE"})
RetryableError ==
  /\ Calling /\ Retried /\ Fault("retryable")
  /\ LosesAnswer
  /\ IF attempts < MaxAttempts
       THEN /\ step' = [step EXCEPT ![cur] = "PENDING"] /\ job' = "QUEUED"
            /\ Forget
       ELSE FailStep /\ UNCHANGED job
  /\ desired' = WantedByCall
  /\ UNCHANGED <<status, attempts, cancel, marks, routeVer, backVer, routingVars, rt, hl,
                 gatewayVars, anomaly>>

\* A permanent error of a call, or any error nobody foresaw in a step's body.
StepError ==
  /\ \/ Calling /\ Fault("permanent")
     \/ pc = "body" /\ Fault("unexpected")
  /\ LosesAnswer
  /\ FailStep
  /\ desired' = WantedByCall
  /\ StepUnchanged
  /\ UNCHANGED <<cancel, marks, routingVars, rt, hl, gatewayVars, anomaly>>

\* _terminalize_unexpected: an error between two steps.
UnexpectedError ==
  /\ pc = "next" /\ Fault("unexpected")
  /\ At(IF RouteMayHaveMoved THEN "classify" ELSE "failcleanup")
  /\ StepUnchanged
  /\ UNCHANGED <<cancel, marks, step, routingVars, deployVars, cont, late, gatewayVars, anomaly>>

-----------------------------------------------------------------------------
(*************************** the worker: endings ***************************)

\* _handle_terminal_failure.
StepFailed ==
  /\ pc = "failed"
  /\ At(CASE cur \notin PostRoute /\ "routeBoundary" \notin marks -> "failcleanup"
          [] cancel -> "rollback"
          [] OTHER  -> "classify")
  /\ RowsUnchanged
  /\ OthersUnchanged

\* What the gateway shows, for the worker and for the reconciler: Target serves by the
\* route this operation recorded.  (A version known to WAIT_ROUTE_APPLY alone, which
\* the code would take as well, is left out.)
Recent        == gw.ver >= routeVer
RouteProven ==
  /\ step["PROBE_TARGET"] = "SUCCEEDED" /\ routeVer # 0 /\ Recent
  /\ route = "target" /\ gw.active = "target"
SourceServes == route = "source" /\ gw.active = "source"

AllPostRouteDone == [s \in Steps |-> IF s \in PostRoute THEN "SUCCEEDED" ELSE step[s]]

\* _classify_post_route_and_terminalize: a failure past the route is a success if Target
\* serves and Source is either retired by us or deliberately kept, a plain failure if
\* Source serves, and the operator's otherwise.
ClassifiedDone ==
  /\ RouteProven /\ rt["target"] = "RUNNING" /\ hl["target"] = "HEALTHY"
  /\ \/ "stopBoundary" \in marks /\ rt["source"] = "STOPPED"
     \/ "stopBoundary" \notin marks /\ "skipped" \in marks /\ rt["source"] = "RUNNING"
Classify ==
  /\ pc = "classify"
  /\ IF ~SourceServes /\ ClassifiedDone
       THEN /\ status' = "SUCCEEDED" /\ step' = AllPostRouteDone
            /\ desired' = [target |-> "RUNNING", source |->
                             IF "stopBoundary" \in marks THEN "STOPPED" ELSE "RUNNING"]
            /\ At("jobdone")
       ELSE /\ At(IF SourceServes THEN "failcleanup" ELSE "manual")
            /\ UNCHANGED <<status, step, desired>>
  /\ UNCHANGED <<job, attempts, marks, routeVer, backVer, routingVars, rt, hl, cont, faults,
                 anomaly>>
  /\ OthersUnchanged

\* No answer from the gateway or from the node agent: the operator decides.
Unobservable ==
  /\ pc \in {"classify", "cancel"} /\ Fault("retryable")
  /\ At("manual")
  /\ UNCHANGED <<operationVars, routingVars, deployVars, cont, late, gatewayVars, anomaly>>

\* _finalize_pre_route_cancel.
CancelBeforeRoute ==
  /\ pc = "cancel"
  /\ At(IF SourceServes /\ cont["source"] = "running" THEN "cancelcleanup" ELSE "manual")
  /\ RowsUnchanged
  /\ OthersUnchanged

TargetDown == Effect(StopTarget)
StopOwnedTarget ==
  /\ pc \in DOMAIN Cleanup
  /\ IF TargetOwned
       THEN /\ cont' = TargetDown
            /\ rt' = IF pc = "sweepcleanup" THEN rt ELSE [rt EXCEPT !["target"] = "STOPPED"]
       ELSE UNCHANGED <<cont, rt>>
  /\ At(Cleanup[pc])
  /\ UNCHANGED <<status, job, attempts, marks, step, routeVer, backVer, routingVars, hl,
                 desired, faults, anomaly>>
  /\ OthersUnchanged
CleanupFails ==
  /\ pc \in DOMAIN Cleanup /\ TargetOwned /\ Fault("retryable")
  /\ LosesAnswer
  /\ At(Cleanup[pc])
  /\ UNCHANGED <<operationVars, routingVars, deployVars, gatewayVars, anomaly>>

\* finalize_operation_failed (the operator's, past a boundary), finalize_operation_
\* cancelled, finalize_operation_manual_intervention, reconcile_mir_to_terminal.
Ending == [p \in {"fail", "cancelend", "sweepend", "manual"} |->
  CASE p = "fail" -> IF marks \cap {"routeBoundary", "stopBoundary"} # {}
                       THEN "MANUAL_INTERVENTION_REQUIRED" ELSE "FAILED"
    [] p = "manual" -> "MANUAL_INTERVENTION_REQUIRED"
    [] OTHER -> "CANCELLED"]
End ==
  /\ pc \in DOMAIN Ending
  /\ status' = Ending[pc] /\ job' = "FAILED"
  /\ step' = IF Ending[pc] = "CANCELLED" THEN SkipOpen(Steps) ELSE step
  /\ Forget
  /\ UNCHANGED <<attempts, marks, routeVer, backVer, routingVars, deployVars, cont, faults,
                 anomaly>>
  /\ OthersUnchanged

-----------------------------------------------------------------------------
(***************************** the rollback ********************************)

MarkRollingBack ==
  /\ pc = "rollback"
  /\ status' = "ROLLING_BACK"
  /\ At("block")
  /\ UNCHANGED <<job, attempts, marks, step, routeVer, backVer, routingVars, deployVars, cont,
                 faults, anomaly>>
  /\ OthersUnchanged

EveryStepClosedBug == SkipOpen(Steps)
\* _ensure_hot_rollback_steps(_once): the rollback's steps exist, no forward step is open.
ForwardClosed  == SkipOpen(ForwardSteps)
WithBackSteps  == [s \in Steps |-> IF s \in BackSteps /\ step[s] = "ABSENT"
                                     THEN "PENDING" ELSE ForwardClosed[s]]
EnsureRollback ==
  /\ pc = "block"
  /\ step' = WithBackSteps
  /\ At("backnext")
  /\ StepUnchanged
  /\ UNCHANGED <<marks, routingVars, deployVars, cont, faults, anomaly>>
  /\ OthersUnchanged

FinishRollback ==
  /\ pc = "backnext" /\ Open(BackSteps) = {}
  /\ status' = "ROLLED_BACK" /\ job' = "DONE"
  /\ anomaly' = IF \E s \in BackSteps : PassedOver(s)
                  THEN anomaly \cup {"failed step skipped"} ELSE anomaly
  /\ Forget
  /\ UNCHANGED <<attempts, marks, step, routeVer, backVer, routingVars, deployVars, cont,
                 faults>>
  /\ OthersUnchanged

-----------------------------------------------------------------------------
(*********** the reconciler, on operations handed to the operator **********)

\* _reconcile_locked under the four advisory locks: nobody cancels an operation that
\* is over, so reading, deciding and writing are one action.
Sweeping ==
  /\ pc = "idle" /\ status = "MANUAL_INTERVENTION_REQUIRED" /\ sweeps < MaxSweeps
Swept == sweeps' = sweeps + 1 /\ UNCHANGED <<faults, edits>>

\* The observations fit together: no third deployment, no contradiction but that of a
\* gateway that has yet to load the route's version, and both containers exist and have
\* a runtime and a health.
Coherent ==
  /\ AgentReportsHealth
  /\ route # "other" /\ cont["target"] # "absent"
  /\ \/ route = gw.active \/ "none" \in {route, gw.active}
     \/ route = "target" /\ gw.active = "source" /\ routeVer # 0 /\ gw.ver < routeVer

Runs(d) == cont[d] = "running"
Proven  == RouteProven /\ Runs("target")
Restored ==
  /\ backVer # 0 /\ gw.ver >= backVer /\ routeVer # 0
  /\ step["HOT_ROLLBACK_PROBE_SOURCE"] = "SUCCEEDED"
  /\ SourceServes /\ sourceRow /\ Runs("source")
Boundary == "routeBoundary" \in marks \/ RouteMayHaveMoved
OpenBack == {s \in BackSteps : step[s] \in {"PENDING", "RUNNING", "FAILED"}}

\* The five things it may do, in the order in which it asks.
RetiredByUs == ~cancel /\ Proven /\ ~Runs("source") /\ StopEvidence
Retained    == ~cancel /\ Proven /\ Runs("source") /\ "skipped" \in marks
Retirable   == /\ ~cancel /\ Proven /\ Runs("source")
               /\ marks \cap {"skipped", "stopBoundary"} = {}
               /\ \E s \in Retirement : step[s] # "SUCCEEDED"
Undoable    == /\ ~Restored
               /\ \/ cancel /\ Boundary
                  \/ cancel /\ "stopBoundary" \in marks /\ ~Runs("source")
                  \/ OpenBack # {}
Cancellable == cancel /\ ~Boundary /\ SourceServes /\ Runs("source")
\* What is left of a switch whose route was moved: to await it, or to end.
Finishing   == /\ ~cancel /\ route = "target" /\ step["PROBE_TARGET"] = "SUCCEEDED"
               /\ \A d \in Deployments : Runs(d)
               /\ routeVer # 0 /\ OpenBack = {} /\ (Recent => gw.active = "target")
               /\ ~Retained /\ ~Retirable /\ ~Restored
ToFinish == IF Recent THEN "FINALIZE" ELSE "WAIT_ROUTE_APPLY"

\* reconcile_mir_to_terminal, for an operation found to have done its work.
Settle(ending) == status' = ending /\ job' = "DONE"

ReconcileSucceeded ==
  /\ Sweeping /\ Coherent /\ (RetiredByUs \/ Retained)
  /\ Settle("SUCCEEDED") /\ step' = AllPostRouteDone
  /\ desired' = [target |-> "RUNNING",
                 source |-> IF Runs("source") THEN "RUNNING" ELSE "STOPPED"]
  /\ Swept
  /\ UNCHANGED <<attempts, cancel, marks, routeVer, backVer, routingVars, rt, hl, cont, late,
                 gatewayVars, workerVars, anomaly>>

ReconcileRolledBack ==
  /\ Sweeping /\ Coherent /\ Restored
  /\ Settle("ROLLED_BACK")
  /\ desired' = [desired EXCEPT !["source"] = "RUNNING"]
  /\ Swept
  /\ UNCHANGED <<attempts, cancel, marks, step, routeVer, backVer, routingVars, rt, hl, cont, late,
                 gatewayVars, workerVars, anomaly>>

ReconcileCancelled ==
  /\ Sweeping /\ Coherent /\ Cancellable
  /\ pc' = "sweepcleanup"
  /\ Swept
  /\ UNCHANGED <<operationVars, routingVars, deployVars, cont, late, gatewayVars, cur, want,
                 anomaly>>

\* reopen_mir_for_resume: a step that is not behind is open again, the job is queued.
Reopen(s, resumed) ==
  /\ step' = IF step[s] \in {"FAILED", "RUNNING", "PENDING"}
                THEN [step EXCEPT ![s] = "PENDING"] ELSE step
  /\ status' = resumed /\ job' = "QUEUED"

FirstOf(sequence, steps) ==
  sequence[CHOOSE i \in DOMAIN sequence :
             sequence[i] \in steps /\ \A k \in 1 .. i - 1 : sequence[k] \notin steps]
ResumeForward ==
  /\ Sweeping /\ Coherent
  /\ \/ Retirable /\ Reopen(FirstOf(Forward, {s \in Retirement : step[s] # "SUCCEEDED"}), "RUNNING")
     \/ Finishing /\ step[ToFinish] # "SUCCEEDED" /\ Reopen(ToFinish, "RUNNING")
  /\ Swept
  /\ UNCHANGED <<attempts, cancel, marks, routeVer, backVer, routingVars, deployVars, cont, late,
                 gatewayVars, workerVars, anomaly>>

\* _resume_or_create_rollback: the failed or interrupted step first, else the first
\* that is open; or else the steps are created, and opened in a second commit.
ResumeRollback ==
  /\ Sweeping /\ Coherent /\ Undoable /\ OpenBack # {}
  /\ LET broken == {s \in OpenBack : step[s] # "PENDING"}
     IN  Reopen(FirstOf(Back, IF broken = {} THEN OpenBack ELSE broken), "ROLLING_BACK")
  /\ Swept
  /\ UNCHANGED <<attempts, cancel, marks, routeVer, backVer, routingVars, deployVars, cont, late,
                 gatewayVars, workerVars, anomaly>>

CreateRollback ==
  /\ Sweeping /\ Coherent /\ Undoable /\ OpenBack = {}
  /\ step' = WithBackSteps
  /\ pc' = "reopen"
  /\ Swept
  /\ StepUnchanged
  /\ UNCHANGED <<cancel, marks, routingVars, deployVars, cont, late, gatewayVars, cur, want,
                 anomaly>>

ReopenCreated ==
  /\ pc = "reopen"
  /\ Reopen("HOT_ROLLBACK_BEGIN", "ROLLING_BACK")
  /\ Forget
  /\ UNCHANGED <<attempts, marks, routeVer, backVer, routingVars, deployVars, cont, faults,
                 anomaly>>
  /\ OthersUnchanged

\* Nothing is proven, or somebody does not answer: the next sweep asks again.
Unresolved ==
  /\ Sweeping
  /\ \/ ~Coherent
     \/ ~(\/ RetiredByUs \/ Retained \/ Retirable \/ Undoable \/ Restored \/ Cancellable
          \/ (Finishing /\ step[ToFinish] # "SUCCEEDED"))
  /\ Swept
  /\ UNCHANGED <<operationVars, routingVars, deployVars, cont, late, gatewayVars,
                 workerVars, anomaly>>

Sweep == \/ ReconcileSucceeded \/ ReconcileRolledBack \/ ReconcileCancelled
         \/ ResumeForward \/ ResumeRollback \/ CreateRollback \/ Unresolved

\* The worker process dies: rows and containers stay, and a call goes on without it.
\* Nothing in the rows tells that Target was being stopped for good.
Crash ==
  /\ pc # "idle" /\ Fault("crash")
  /\ Forget
  /\ LosesAnswer
  /\ anomaly' = IF pc \in {"failcleanup", "fail"} /\ "owned" \in marks
                  THEN anomaly \cup {"cleanup interrupted"} ELSE anomaly
  /\ UNCHANGED <<operationVars, routingVars, deployVars, gatewayVars>>

WorkerStep ==
  \/ Claim \/ RecoverStale \/ CloseJob \/ Resume \/ ObserveCancel \/ BeginStep \/ Succeed
  \/ CheckPasses \/ CheckFails \/ DecideRoute \/ DecideStop \/ ActivateTarget
  \/ ActivateSource \/ Commit \/ StartWait \/ WaitSatisfied \/ WaitTimesOut
  \/ StartTarget \/ StartProof \/ SourceDrained \/ RouteConflict \/ CancelWhileDraining
  \/ KeepSource \/ NothingToStop \/ WantSourceStopped \/ StartSource \/ CallSucceeds
  \/ CallRefused \/ Mark \/ RetryableError \/ StepError \/ UnexpectedError
  \/ StepFailed \/ Classify \/ Unobservable \/ CancelBeforeRoute \/ StopOwnedTarget
  \/ CleanupFails \/ End \/ MarkRollingBack \/ EnsureRollback \/ FinishRollback
  \/ Sweep \/ ReopenCreated

-----------------------------------------------------------------------------
(**************** the management API, the node, the gateway ****************)

\* cancel_operation: a queued operation ends here; of any other that is not over,
\* only the wish is recorded.
RequestCancel ==
  /\ status \notin Terminal /\ ~cancel
  /\ cancel' = TRUE
  /\ IF status = "QUEUED" /\ job = "QUEUED"
       THEN status' = "CANCELLED" /\ job' = "FAILED" /\ step' = SkipOpen(Steps)
       ELSE UNCHANGED <<status, job, step>>
  /\ UNCHANGED <<attempts, marks, routeVer, backVer, routingVars, deployVars, cont, late,
                 gatewayVars, workerVars, boundVars, anomaly>>

\* publish, unpublish and the admin route change, on this alias or on another that
\* leads to Source: under the alias's and the deployment's advisory locks, which the
\* worker holds while it works, and only to a deployment whose rows say it serves.  The
\* route is a new row, whatever it leads to.
Routable(d) == desired[d] = "RUNNING" /\ rt[d] = "RUNNING" /\ hl[d] = "HEALTHY"
\* Rows say nothing of a call that failed, and the API asks no switch: "anomaly" remembers
\* a route to a container that does not run, and one to Target that the switch has not
\* made itself, which its cleanup would not look at.
RoutedBy(dead, early) ==
  anomaly' = anomaly \cup (IF dead THEN {"dead model routed"} ELSE {})
                     \cup (IF early THEN {"target routed early"} ELSE {})
OperatorSetsRoute ==
  /\ pc = "idle" /\ edits < MaxEdits
  /\ \/ \E r \in Routes \ {route} :
          /\ r \in Deployments => Routable(r)
          /\ route' = r /\ UNCHANGED shared
          /\ sourceRow' = IF r = "source" THEN routeVer = 0 ELSE sourceRow
          /\ RoutedBy(r \in Deployments /\ ~Runs(r),
                      r = "target" /\ routeVer = 0 /\ status \in {"QUEUED", "RUNNING"})
     \/ /\ shared \/ Routable("source")
        /\ shared' = ~shared /\ UNCHANGED <<route, sourceRow>>
        /\ RoutedBy(shared' /\ ~Runs("source"), FALSE)
  /\ ver' = Bumped
  /\ edits' = edits + 1
  /\ UNCHANGED <<operationVars, deployVars, cont, late, gatewayVars, workerVars, faults, sweeps>>

\* A Target that serves nobody yet goes down by itself.
TargetExits ==
  /\ Fault("exit")
  /\ Runs("target") /\ step["PROBE_TARGET"] # "SUCCEEDED"
  /\ "target" \notin {route, gw.active}
  /\ cont' = TargetDown
  /\ UNCHANGED <<operationVars, routingVars, deployVars, late, gatewayVars, workerVars, anomaly>>

\* A command whose caller gave up takes effect; "anomaly" remembers a stop.
LateEffect ==
  /\ \E c \in late :
       /\ cont' = Effect(c) /\ late' = late \ {c}
       /\ anomaly' = IF c.to = "stopped" /\ cont' # cont THEN anomaly \cup {"late stop"}
                                                       ELSE anomaly
  /\ UNCHANGED <<operationVars, routingVars, deployVars, gatewayVars, workerVars, boundVars>>

\* load_routing_snapshot reads the version before the rows, in two statements ...
StartReload ==
  /\ load = 0
  /\ load' = ver
  /\ UNCHANGED <<operationVars, routingVars, deployVars, cont, late, gw, unbound, infl, workerVars,
                 boundVars, anomaly>>

\* ... and RoutingStore.reload swaps the snapshot in, newer or not.
FinishReload ==
  /\ load # 0
  /\ gw' = [ver |-> load, active |-> route, shared |-> shared]
  /\ load' = 0
  /\ UNCHANGED <<operationVars, routingVars, deployVars, cont, late, unbound, infl, workerVars,
                 boundVars, anomaly>>

\* _admit_resolve_bind: a request is resolved by the snapshot in force, for this alias
\* or for another that leads to Source, and counted as unbound until it is bound to the
\* deployment.
Admit ==
  /\ unbound["source"] + unbound["target"] + infl["source"] + infl["target"] < MaxInflight
  /\ \E d \in Deployments :
       /\ d = gw.active \/ (d = "source" /\ gw.shared)
       /\ unbound' = [unbound EXCEPT ![d] = @ + 1]
  /\ UNCHANGED <<operationVars, routingVars, deployVars, cont, late, gw, load, infl, workerVars,
                 boundVars, anomaly>>
Bind ==
  /\ \E d \in Deployments :
       /\ unbound[d] > 0
       /\ unbound' = [unbound EXCEPT ![d] = @ - 1] /\ infl' = [infl EXCEPT ![d] = @ + 1]
  /\ UNCHANGED <<operationVars, routingVars, deployVars, cont, late, gw, load, workerVars,
                 boundVars, anomaly>>
Release ==
  /\ \E d \in Deployments : infl[d] > 0 /\ infl' = [infl EXCEPT ![d] = @ - 1]
  /\ UNCHANGED <<operationVars, routingVars, deployVars, cont, late, gw, load, unbound, workerVars,
                 boundVars, anomaly>>

Next ==
  \/ WorkerStep \/ Crash
  \/ RequestCancel \/ OperatorSetsRoute \/ TargetExits \/ LateEffect
  \/ StartReload \/ FinishReload \/ Admit \/ Bind \/ Release

Spec == Init /\ [][Next]_vars

\* The worker's loop keeps running (and is restarted), the gateway's poller keeps
\* reloading.  Nothing obliges a request to end, a fault or an edit to happen.
Fairness == WF_vars(WorkerStep) /\ WF_vars(StartReload) /\ WF_vars(FinishReload)
FairSpec == Spec /\ Fairness

-----------------------------------------------------------------------------
(****************************** properties *********************************)

\* Without the departures named in anomaly, and without a stop that comes late.
OnTime == anomaly = {}

\* No alias is ever routed to a container that does not run: Source is stopped only
\* once nothing leads to it, Target is routed to only once it has answered a probe, and
\* no retry, rollback or reconciliation breaks that, nor a start that comes late.
ServedModelsRun ==
  OnTime => /\ gw.active \in Deployments => Runs(gw.active)
            /\ gw.shared => Runs("source")
            /\ route \in Deployments => Runs(route)

\* SUCCEEDED: Target serves; Source runs and is wanted if it was kept, and is down,
\* unwanted and unreachable if it was retired.
SucceededMeansServed ==
  OnTime /\ edits = 0 /\ status = "SUCCEEDED"
    => /\ route = "target" /\ Runs("target") /\ desired["target"] = "RUNNING"
       /\ Runs("source") <=> desired["source"] = "RUNNING"
       /\ ~Runs("source") => ~shared /\ gw.active = "target"

\* FAILED and CANCELLED are reported only while Source still serves, a rollback only
\* once it serves again.
HarmlessEndings ==
  OnTime /\ edits = 0 /\ status \in {"FAILED", "CANCELLED", "ROLLED_BACK"}
    => route = "source" /\ Runs("source") /\ desired["source"] = "RUNNING"

\* Source goes down only past the committed boundary and, unless the stop outlived the
\* call that wanted it, while no request, bound or not, can reach it and no snapshot leads
\* to it.
SourceStopProven ==
  [][Runs("source") /\ ~Runs("source")'
       => /\ "stopBoundary" \in marks
          /\ ~LateEffect => /\ infl["source"] = 0 /\ unbound["source"] = 0
                            /\ ~shared /\ route # "source"
                            /\ ~gw.shared /\ gw.active # "source"]_vars

\* Neither a cleanup nor the reconciler stops a Target that this operation did not
\* start, in time or late: it may have been serving somebody since an earlier rollback.
RetainedTargetKept ==
  [][Runs("target") /\ ~Runs("target")' => "owned" \in marks \/ TargetExits]_vars

\* A cancellation recorded before a boundary keeps the operation from crossing it.
CancelBeatsBoundaries ==
  [][cancel => marks' \cap {"routeBoundary", "stopBoundary"}
                 \subseteq marks]_vars

\* Every operation ends, with its job, whatever the bounded faults, sweeps and
\* edits: an operation that is over never leaves its job to be claimed for ever.
EventuallyTerminal == <>[](status \in Terminal /\ job \in {"DONE", "FAILED"})

=============================================================================
