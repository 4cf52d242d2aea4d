----------------------------- MODULE ColdSwitch -----------------------------
(***************************************************************************)
(* One COLD SWITCH operation: the worker stops the Source deployment of an *)
(* endpoint, starts the Target on the same GPUs, moves the route, and      *)
(* rolls back to Source when a step past the destructive boundary fails.   *)
(*                                                                         *)
(* Three parties act concurrently: the worker (which may crash and resume  *)
(* from the database), the management API (which records a cancellation or *)
(* edits the route while no worker holds the endpoint lock) and the        *)
(* gateway (which reloads its routing snapshot in its own time and admits  *)
(* requests from it).  A worker action is one database commit or one call  *)
(* to the node agent or the gateway, so a crash may fall between any two.  *)
(***************************************************************************)
EXTENDS Naturals, FiniteSets, Sequences

CONSTANTS
  MaxAttempts,   \* operation_job.max_attempts
  MaxInflight,   \* bound: requests a deployment may have in flight
  MaxFaults,     \* bound: crashes and failing calls in one behaviour
  MaxEdits,      \* bound: route edits by the operator
  FaultKinds,    \* which faults happen: a subset of AllFaults
  LateEffects    \* may a node-agent command outlive the call that timed out?

AllFaults == {"crash", "retryable", "permanent", "unexpected"}

ASSUME BoundsAssumption ==
  /\ MaxAttempts \in Nat \ {0}
  /\ MaxInflight \in Nat
  /\ MaxFaults \in Nat
  /\ MaxEdits \in Nat
ASSUME KindsAssumption == FaultKinds \subseteq AllFaults /\ LateEffects \in BOOLEAN

\* Operators named ...Bug are deliberate defects: each replaces the definition after
\* it in one mutation run, and a property must notice.
RouteFirstBug == << "VALIDATE", "PREFLIGHT", "PREPARE_TARGET", "DRAIN_TRAFFIC",
  "STOP_SOURCE", "WAIT_VRAM_RELEASE", "START_TARGET", "WAIT_TARGET_HEALTH",
  "ACTIVATE_TARGET_ROUTE", "PROBE_TARGET", "WAIT_ROUTE_APPLY",
  "RESTORE_TRAFFIC", "WAIT_TRAFFIC_APPLY", "FINALIZE" >>
Forward == << "VALIDATE", "PREFLIGHT", "PREPARE_TARGET", "DRAIN_TRAFFIC",
  "STOP_SOURCE", "WAIT_VRAM_RELEASE", "START_TARGET", "WAIT_TARGET_HEALTH",
  "PROBE_TARGET", "ACTIVATE_TARGET_ROUTE", "WAIT_ROUTE_APPLY",
  "RESTORE_TRAFFIC", "WAIT_TRAFFIC_APPLY", "FINALIZE" >>

StartFirstBug == << "ROLLBACK_BEGIN", "ROLLBACK_BLOCK_TRAFFIC", "ROLLBACK_START_SOURCE",
  "ROLLBACK_STOP_TARGET", "ROLLBACK_WAIT_SOURCE_HEALTH", "ROLLBACK_PROBE_SOURCE",
  "ROLLBACK_ACTIVATE_SOURCE_ROUTE", "ROLLBACK_WAIT_ROUTE_APPLY",
  "ROLLBACK_RESTORE_TRAFFIC", "ROLLBACK_FINALIZE" >>
Rollback == << "ROLLBACK_BEGIN", "ROLLBACK_BLOCK_TRAFFIC", "ROLLBACK_STOP_TARGET",
  "ROLLBACK_START_SOURCE", "ROLLBACK_WAIT_SOURCE_HEALTH", "ROLLBACK_PROBE_SOURCE",
  "ROLLBACK_ACTIVATE_SOURCE_ROUTE", "ROLLBACK_WAIT_ROUTE_APPLY",
  "ROLLBACK_RESTORE_TRAFFIC", "ROLLBACK_FINALIZE" >>

ForwardSteps  == {Forward[i] : i \in DOMAIN Forward}
RollbackSteps == {Rollback[i] : i \in DOMAIN Rollback}
Steps         == ForwardSteps \cup RollbackSteps

Deployments == {"source", "target"}
Routes      == Deployments \cup {"other", "none"}
Terminal    == {"SUCCEEDED", "FAILED", "ROLLED_BACK", "CANCELLED",
                "MANUAL_INTERVENTION_REQUIRED"}

\* A failure of one of these, past the boundary, starts the automatic rollback.
RollbackEnterSteps == {"WAIT_VRAM_RELEASE", "START_TARGET", "WAIT_TARGET_HEALTH",
                       "PROBE_TARGET", "ACTIVATE_TARGET_ROUTE"}

\* Steps that put the endpoint's traffic in a state of their own.
TrafficOf == [s \in {"DRAIN_TRAFFIC", "STOP_SOURCE", "RESTORE_TRAFFIC",
                     "ROLLBACK_BLOCK_TRAFFIC", "ROLLBACK_RESTORE_TRAFFIC"} |->
                CASE s = "DRAIN_TRAFFIC" -> "DRAINING"
                  [] s \in {"STOP_SOURCE", "ROLLBACK_BLOCK_TRAFFIC"} -> "MAINTENANCE"
                  [] OTHER -> "SERVING"]

\* Steps that activate a route, and the deployment they activate.
ActivateOf == [s \in {"ACTIVATE_TARGET_ROUTE", "ROLLBACK_ACTIVATE_SOURCE_ROUTE"} |->
                 IF s = "ACTIVATE_TARGET_ROUTE" THEN "target" ELSE "source"]

\* Steps that keep the routing version of their change in detail_json.
Recorded == DOMAIN TrafficOf \cup DOMAIN ActivateOf

\* Steps that only wait, and the step whose version they wait for.
VersionFrom == [s \in {"WAIT_ROUTE_APPLY", "WAIT_TRAFFIC_APPLY",
                       "ROLLBACK_WAIT_ROUTE_APPLY"} |->
                  CASE s = "WAIT_ROUTE_APPLY"   -> "ACTIVATE_TARGET_ROUTE"
                    [] s = "WAIT_TRAFFIC_APPLY" -> "RESTORE_TRAFFIC"
                    [] OTHER                    -> "ROLLBACK_ACTIVATE_SOURCE_ROUTE"]

\* What each wait wants the gateway to report.
AwaitedTraffic(s) ==
  CASE s \in DOMAIN TrafficOf        -> TrafficOf[s]
    [] s = "WAIT_TRAFFIC_APPLY"      -> "SERVING"
    [] OTHER                         -> "MAINTENANCE"
AwaitedRoutes(s) ==
  CASE s = "ROLLBACK_BLOCK_TRAFFIC"                       -> Routes
    [] s \in {"WAIT_ROUTE_APPLY", "WAIT_TRAFFIC_APPLY"}   -> {"target"}
    [] OTHER                                              -> {"source"}

\* Steps that command a container: inspect first, then start or stop it.
CommandOf == [s \in {"STOP_SOURCE", "START_TARGET", "ROLLBACK_STOP_TARGET",
                     "ROLLBACK_START_SOURCE"} |->
  CASE s = "STOP_SOURCE"           -> [dep |-> "source", to |-> "stopped"]
    [] s = "START_TARGET"          -> [dep |-> "target", to |-> "running"]
    [] s = "ROLLBACK_STOP_TARGET"  -> [dep |-> "target", to |-> "stopped"]
    [] OTHER                       -> [dep |-> "source", to |-> "running"]]

\* Health checks and inference probes, and the deployment they look at.
HealthOf == [s \in {"WAIT_TARGET_HEALTH", "PROBE_TARGET",
                    "ROLLBACK_WAIT_SOURCE_HEALTH", "ROLLBACK_PROBE_SOURCE"} |->
               IF s \in ForwardSteps THEN "target" ELSE "source"]
Probes == {"PROBE_TARGET", "ROLLBACK_PROBE_SOURCE"}

\* Steps that decide from what they read; all others change or await something.
CheckSteps == DOMAIN HealthOf \cup {"VALIDATE", "PREFLIGHT", "PREPARE_TARGET",
  "WAIT_VRAM_RELEASE", "FINALIZE", "ROLLBACK_BEGIN", "ROLLBACK_FINALIZE"}
\* Of these, the ones that call the node agent.
RemoteChecks == DOMAIN HealthOf \cup {"PREFLIGHT", "PREPARE_TARGET", "WAIT_VRAM_RELEASE"}

-----------------------------------------------------------------------------
VARIABLES
  \* the database: operation, job, steps
  status,    \* operation.status
  job,       \* operation_job.status
  attempts,  \* operation_job.attempt_count
  cancel,    \* operation.cancel_requested_at is set
  boundary,  \* metadata_json.destructive_boundary_entered
  step,      \* operation_step.status, per step_code
  reqVer,    \* detail_json's routing version, per step that records one (0: none)
  \* the database: endpoint alias, active route, routing_state, deployments
  traffic, route, ver,
  rt, hl, desired,
  \* the node: containers, and commands still running after their caller gave up
  cont, late,
  \* the gateway: applied snapshot, version a reload in progress has read (0: no
  \* reload), requests in flight per deployment
  gw, load, infl,
  \* the worker's memory
  pc, cur, want,
  \* bounds, and the history of the departures the invariants name
  faults, edits, anomaly

operationVars == <<status, job, attempts, cancel, boundary, step, reqVer>>
routingVars   == <<traffic, route, ver>>
deployVars    == <<rt, hl, desired>>
nodeVars      == <<cont, late>>
gatewayVars   == <<gw, load, infl>>
workerVars    == <<pc, cur, want>>
boundVars     == <<faults, edits>>
vars == <<operationVars, routingVars, deployVars, nodeVars, gatewayVars,
          workerVars, boundVars, anomaly>>

NoStep == "NONE"
Phases == {"idle", "entry", "next", "body", "record", "wait", "decide", "call",
           "mark", "commit", "failing", "failed", "aborted", "manual", "escalate",
           "failsafe", "cancel", "restore", "rollback", "block", "rbnext", "succeed"}

Traffics == {"SERVING", "DRAINING", "MAINTENANCE"}
Snapshot == [ver : Nat, traffic : Traffics, active : Routes]

JobType ==
  /\ status \in Terminal \cup {"QUEUED", "RUNNING", "ROLLING_BACK"}
  /\ job \in {"QUEUED", "RUNNING", "DONE", "FAILED"}
  /\ attempts \in Nat
  /\ cancel \in BOOLEAN /\ boundary \in BOOLEAN
StepType ==
  /\ step \in [Steps -> {"ABSENT", "PENDING", "RUNNING", "SUCCEEDED", "FAILED", "SKIPPED"}]
  /\ reqVer \in [Recorded -> Nat]
RoutingType ==
  /\ traffic \in Traffics /\ route \in Routes /\ ver \in Nat
DeployType ==
  /\ rt \in [Deployments -> {"CREATED", "RUNNING", "STOPPED"}]
  /\ hl \in [Deployments -> {"UNKNOWN", "STARTING", "HEALTHY", "UNHEALTHY"}]
  /\ desired \in [Deployments -> {"RUNNING", "STOPPED"}]
NodeType ==
  /\ cont \in [Deployments -> {"absent", "stopped", "running"}]
  /\ late \in SUBSET [dep : Deployments, to : {"stopped", "running"}]
GatewayType ==
  /\ gw \in Snapshot /\ load \in Nat /\ infl \in [Deployments -> Nat]
WorkerType ==
  /\ pc \in Phases /\ cur \in Steps \cup {NoStep} /\ want \in Nat
BoundType ==
  /\ faults \in Nat /\ edits \in Nat
HistoryType ==
  /\ anomaly \in SUBSET {"cancelled past boundary", "failed step skipped",
                        "restored rollback blocked", "escalation interrupted",
                        "late effect"}
\* Every variable holds a value of its kind; cur names a step or none at all.
TypeOK ==
  /\ JobType /\ StepType /\ RoutingType /\ DeployType
  /\ NodeType /\ GatewayType /\ WorkerType /\ BoundType /\ HistoryType

\* The desired states that keep one deployment running and the other not.
RunningOnly(on) == [d \in Deployments |-> IF d = on THEN "RUNNING" ELSE "STOPPED"]

Init ==
  /\ status = "QUEUED" /\ job = "QUEUED" /\ attempts = 0
  /\ cancel = FALSE /\ boundary = FALSE
  /\ step = [s \in Steps |-> IF s \in ForwardSteps THEN "PENDING" ELSE "ABSENT"]
  /\ reqVer = [s \in Recorded |-> 0]
  /\ traffic = "SERVING" /\ route = "source" /\ ver = 1
  /\ rt = [d \in Deployments |-> IF d = "source" THEN "RUNNING" ELSE "CREATED"]
  /\ hl = [d \in Deployments |-> IF d = "source" THEN "HEALTHY" ELSE "UNKNOWN"]
  /\ desired = RunningOnly("source")
  /\ cont = [d \in Deployments |-> IF d = "source" THEN "running" ELSE "absent"]
  /\ late = {}
  /\ gw = [ver |-> 1, traffic |-> "SERVING", active |-> "source"]
  /\ load = 0
  /\ infl = [d \in Deployments |-> 0]
  /\ pc = "idle" /\ cur = NoStep /\ want = 0
  /\ faults = 0 /\ edits = 0
  /\ anomaly = {}

-----------------------------------------------------------------------------
(***************************** shared pieces ******************************)

UnbumpedBug(t) == traffic' = t /\ UNCHANGED <<ver, route>>
\* _bump_routing_version: a change of traffic or route and the next routing
\* version are one transaction; writing the value already there bumps nothing.
SetTraffic(t) ==
  /\ traffic' = t
  /\ ver' = IF traffic = t THEN ver ELSE ver + 1
  /\ UNCHANGED route

SetRoute(r) ==
  /\ route' = r
  /\ ver' = ver + 1
  /\ UNCHANGED traffic

\* One more fault of the behaviour's budget.
Fault(kind) ==
  /\ kind \in FaultKinds
  /\ faults < MaxFaults
  /\ faults' = faults + 1
  /\ UNCHANGED edits

Open(steps) == {s \in steps : step[s] \in {"PENDING", "RUNNING"}}
SkipNoneBug(f, steps) == f
SkipOpen(f, steps) ==
  [s \in Steps |-> IF s \in steps /\ f[s] \in {"PENDING", "RUNNING"}
                     THEN "SKIPPED" ELSE f[s]]
Destructive == boundary \/ cur \in RollbackSteps

StrayStepBug == pc' = "idle" /\ cur' = "IDLE" /\ want' = 0
\* The worker lets go of the operation: what it knew is lost, the rows stay.
Forget == pc' = "idle" /\ cur' = NoStep /\ want' = 0

\* A worker step leaves these to the other parties.
OthersUnchanged == UNCHANGED <<cancel, gatewayVars, edits>>

-----------------------------------------------------------------------------
(***************** the worker: claiming and choosing a step ****************)

\* claim_next_job: the job is leased to the worker and its attempt counted.
Claim ==
  /\ pc = "idle" /\ job = "QUEUED"
  /\ job' = "RUNNING"
  /\ attempts' = attempts + 1
  /\ status' = IF status = "QUEUED" THEN "RUNNING" ELSE status
  /\ pc' = "entry"
  /\ UNCHANGED <<boundary, step, reqVer, routingVars, deployVars, nodeVars,
                 cur, want, faults, anomaly>>
  /\ OthersUnchanged

\* recover_stale_jobs: the lease of a crashed worker runs out; attempts do not matter.
LastAttemptBug == job = "RUNNING" /\ attempts < MaxAttempts
LeaseExpired   == job = "RUNNING"
RecoverStale ==
  /\ pc = "idle" /\ LeaseExpired
  /\ job' = "QUEUED"
  /\ UNCHANGED <<status, attempts, boundary, step, reqVer, routingVars, deployVars,
                 nodeVars, workerVars, faults, anomaly>>
  /\ OthersUnchanged

\* _run_locked: a rollback in progress resumes, and ends if one of its steps has
\* failed; otherwise the forward steps continue.
ForwardAgainBug == "next"
ResumeAt ==
  CASE status # "ROLLING_BACK" -> "next"
    [] status = "ROLLING_BACK" /\ \E s \in RollbackSteps : step[s] = "FAILED" -> "manual"
    [] OTHER -> "block"

Resume ==
  /\ pc = "entry"
  /\ status = "ROLLING_BACK" \/ ~cancel
  /\ pc' = ResumeAt
  /\ UNCHANGED <<status, job, attempts, boundary, step, reqVer, routingVars,
                 deployVars, nodeVars, cur, want, faults, anomaly>>
  /\ OthersUnchanged

\* _maybe_handle_cancel: on entry, and before every forward step (not after the
\* last one).  Past the boundary a cancellation starts the rollback.
ObserveCancel ==
  /\ cancel
  /\ \/ pc = "entry" /\ status # "ROLLING_BACK"
     \/ pc = "next" /\ Open(ForwardSteps) # {}
  /\ pc' = IF boundary THEN "rollback" ELSE "cancel"
  /\ UNCHANGED <<status, job, attempts, boundary, step, reqVer, routingVars, deployVars,
                 nodeVars, cur, want, faults, anomaly>>
  /\ OthersUnchanged

\* begin_step on the first open step of a sequence.
Begin(sequence, i) ==
  LET s == sequence[i] IN
  /\ step[s] \in {"PENDING", "RUNNING"}
  /\ \A k \in 1 .. i - 1 : step[sequence[k]] \notin {"PENDING", "RUNNING"}
  /\ step' = [step EXCEPT ![s] = "RUNNING"]
  /\ cur' = s
  /\ pc' = IF s \in DOMAIN CommandOf \ {"STOP_SOURCE"} THEN "call" ELSE "body"

\* The forward loop takes PENDING and RUNNING steps and looks at no other, so a
\* step left FAILED by a crash is passed over; "anomaly" remembers that.
BeginForward ==
  /\ pc = "next" /\ ~cancel
  /\ \E i \in DOMAIN Forward :
       /\ Begin(Forward, i)
       /\ anomaly' = IF \E k \in 1 .. i - 1 : step[Forward[k]] = "FAILED"
                       THEN anomaly \cup {"failed step skipped"} ELSE anomaly
  /\ UNCHANGED <<status, job, attempts, boundary, reqVer, routingVars, deployVars,
                 nodeVars, want, faults>>
  /\ OthersUnchanged

\* Every forward step is behind: _finalize_desired_states, committed alone ...
SourceKeptBug == [d \in Deployments |-> "RUNNING"]
FinalDesired  == RunningOnly("target")
FinalizeDesired ==
  /\ pc = "next"
  /\ Open(ForwardSteps) = {}
  /\ desired' = FinalDesired
  /\ anomaly' = IF \E s \in ForwardSteps : step[s] = "FAILED"
                  THEN anomaly \cup {"failed step skipped"} ELSE anomaly
  /\ pc' = "succeed"
  /\ UNCHANGED <<status, job, attempts, boundary, step, reqVer, routingVars, rt, hl,
                 nodeVars, cur, want, faults>>
  /\ OthersUnchanged

\* ... and then finalize_operation_succeeded.
Succeed ==
  /\ pc = "succeed"
  /\ status' = "SUCCEEDED" /\ job' = "DONE"
  /\ Forget
  /\ UNCHANGED <<attempts, boundary, step, reqVer, routingVars, deployVars, nodeVars,
                 faults, anomaly>>
  /\ OthersUnchanged

-----------------------------------------------------------------------------
(****************** the worker: routing changes and waits ******************)

\* DRAIN_TRAFFIC, STOP_SOURCE, RESTORE_TRAFFIC and their rollback twins put the
\* traffic state first.  Already there, a recorded version is kept; otherwise the
\* step takes the current one.
EnterTraffic ==
  /\ pc = "body" /\ cur \in DOMAIN TrafficOf
  /\ SetTraffic(TrafficOf[cur])
  /\ want' = IF traffic = TrafficOf[cur] /\ reqVer[cur] # 0 THEN reqVer[cur] ELSE ver'
  /\ pc' = "record"
  /\ UNCHANGED <<operationVars, deployVars, nodeVars, cur, faults, anomaly>>
  /\ OthersUnchanged

\* The version goes to the step's detail_json in a transaction of its own, so a
\* crash may leave traffic or route changed and the version unrecorded.
RecordVersion ==
  /\ pc = "record"
  /\ reqVer' = [reqVer EXCEPT ![cur] = want]
  /\ pc' = IF cur \in DOMAIN ActivateOf \cup {"RESTORE_TRAFFIC"} THEN "commit" ELSE "wait"
  /\ UNCHANGED <<status, job, attempts, boundary, step, routingVars, deployVars,
                 nodeVars, cur, want, faults, anomaly>>
  /\ OthersUnchanged

NobodyElseBug == FALSE
ThirdParty    == route = "other"
\* ACTIVATE_TARGET_ROUTE and ROLLBACK_ACTIVATE_SOURCE_ROUTE: one transaction takes
\* the alias lock, keeps a route already there, refuses a third party's.
ActivateRoute ==
  /\ pc = "body" /\ cur \in DOMAIN ActivateOf
  /\ IF ThirdParty
       THEN /\ step' = [step EXCEPT ![cur] = "FAILED"]
            /\ pc' = "aborted"
            /\ UNCHANGED <<routingVars, want>>
       ELSE /\ IF route = ActivateOf[cur]
                 THEN UNCHANGED routingVars
                 ELSE SetRoute(ActivateOf[cur])
            /\ want' = IF route = ActivateOf[cur] /\ reqVer[cur] # 0
                         THEN reqVer[cur] ELSE ver'
            /\ pc' = "record"
            /\ UNCHANGED step
  /\ UNCHANGED <<status, job, attempts, boundary, reqVer, deployVars, nodeVars, cur,
                 faults, anomaly>>
  /\ OthersUnchanged

\* WAIT_ROUTE_APPLY, WAIT_TRAFFIC_APPLY and ROLLBACK_WAIT_ROUTE_APPLY look up the
\* version an earlier step recorded, or take the current one.
StartWait ==
  /\ pc = "body" /\ cur \in DOMAIN VersionFrom
  /\ want' = IF reqVer[VersionFrom[cur]] # 0 THEN reqVer[VersionFrom[cur]] ELSE ver
  /\ pc' = "wait"
  /\ UNCHANGED <<operationVars, routingVars, deployVars, nodeVars, cur, faults, anomaly>>
  /\ OthersUnchanged

\* _wait_gateway's test on one answer of the gateway's route runtime.
Applied(traffics, routes) ==
  /\ gw.ver >= want
  /\ gw.traffic \in traffics
  /\ gw.active \in routes
UndrainedBug == Applied({AwaitedTraffic(cur)}, AwaitedRoutes(cur))
UnappliedBug == cur = "DRAIN_TRAFFIC" => \A d \in Deployments : infl[d] = 0
Satisfied ==
  /\ Applied({AwaitedTraffic(cur)}, AwaitedRoutes(cur))
  /\ cur = "DRAIN_TRAFFIC" => \A d \in Deployments : infl[d] = 0

WaitSatisfied ==
  /\ pc = "wait" /\ Satisfied
  /\ pc' = IF cur = "STOP_SOURCE" THEN "decide" ELSE "commit"
  /\ UNCHANGED <<operationVars, routingVars, deployVars, nodeVars, cur, want, faults,
                 anomaly>>
  /\ OthersUnchanged

\* The deadline passes, or the gateway does not answer: PermanentStepError.
\* The two waits for SERVING put MAINTENANCE back before the step fails.
WaitTimesOut ==
  /\ pc = "wait" /\ ~Satisfied
  /\ IF cur \in {"WAIT_TRAFFIC_APPLY", "ROLLBACK_RESTORE_TRAFFIC"}
       THEN SetTraffic("MAINTENANCE")
       ELSE UNCHANGED routingVars
  /\ pc' = "failing"
  /\ UNCHANGED <<operationVars, deployVars, nodeVars, cur, want, faults, anomaly>>
  /\ OthersUnchanged

FailTimedOut ==
  /\ pc = "failing"
  /\ step' = [step EXCEPT ![cur] = "FAILED"]
  /\ pc' = "failed"
  /\ UNCHANGED <<status, job, attempts, boundary, reqVer, routingVars, deployVars,
                 nodeVars, cur, want, faults, anomaly>>
  /\ OthersUnchanged

CancelIgnoredBug == FALSE
CancelObserved   == cancel
\* decide_destructive_boundary: under the job and operation row locks, a
\* cancellation recorded so far wins; otherwise the flag is set.  The code does not
\* look whether an earlier attempt has set it already.
DecideBoundary ==
  /\ pc = "decide"
  /\ IF CancelObserved
       THEN /\ pc' = "cancel"
            /\ anomaly' = IF boundary THEN anomaly \cup {"cancelled past boundary"}
                                       ELSE anomaly
            /\ UNCHANGED boundary
       ELSE boundary' = TRUE /\ pc' = "call" /\ UNCHANGED anomaly
  /\ UNCHANGED <<status, job, attempts, step, reqVer, routingVars, deployVars,
                 nodeVars, cur, want, faults>>
  /\ OthersUnchanged

-----------------------------------------------------------------------------
(************** the worker: container commands and checks *****************)

\* A container already as wanted, or gone when it should be stopped, is left alone.
InPlace(c) == cont[c.dep] = c.to \/ (c.to = "stopped" /\ cont[c.dep] = "absent")
\* Only the rollback creates a missing container before it starts it.
Startable(c) == cont[c.dep] # "absent" \/ cur = "ROLLBACK_START_SOURCE"

CallSucceeds ==
  /\ pc = "call"
  /\ LET c == CommandOf[cur] IN
       /\ InPlace(c) \/ c.to = "stopped" \/ Startable(c)
       /\ cont' = IF InPlace(c) THEN cont ELSE [cont EXCEPT ![c.dep] = c.to]
  /\ pc' = "mark"
  /\ UNCHANGED <<operationVars, routingVars, deployVars, late, cur, want, faults, anomaly>>
  /\ OthersUnchanged

\* A transport error or time-out: the command was never run, was run and its answer
\* lost, or (LateEffects) is still running on the node and takes effect later.
LosesAnswer ==
  \/ UNCHANGED nodeVars
  \/ /\ pc = "call" /\ cur \in DOMAIN CommandOf
     /\ ~InPlace(CommandOf[cur]) /\ Startable(CommandOf[cur])
     /\ cont' = [cont EXCEPT ![CommandOf[cur].dep] = CommandOf[cur].to]
     /\ UNCHANGED late
  \/ /\ LateEffects /\ pc = "call" /\ cur \in DOMAIN CommandOf
     /\ ~InPlace(CommandOf[cur]) /\ Startable(CommandOf[cur])
     /\ late' = late \cup {CommandOf[cur]}
     /\ UNCHANGED cont

\* _handle_retryable_switch and its rollback twin: requeue while attempts remain,
\* otherwise the step fails.  A failed probe has marked the deployment UNHEALTHY.
RetryableError ==
  /\ \/ pc = "call"
     \/ pc = "body" /\ cur \in RemoteChecks
  /\ Fault("retryable")
  /\ LosesAnswer
  /\ hl' \in IF cur \in Probes THEN {hl, [hl EXCEPT ![HealthOf[cur]] = "UNHEALTHY"]}
              ELSE {hl}
  /\ IF attempts < MaxAttempts
       THEN /\ step' = [step EXCEPT ![cur] = "PENDING"]
            /\ job' = "QUEUED"
            /\ Forget
       ELSE /\ step' = [step EXCEPT ![cur] = "FAILED"]
            /\ pc' = "failed"
            /\ UNCHANGED <<job, cur, want>>
  /\ UNCHANGED <<status, attempts, cancel, boundary, reqVer, routingVars, rt, desired,
                 gatewayVars, anomaly>>

\* The node agent refuses the command or the check for good, or a start finds no
\* container to start.
PermanentError ==
  /\ \/ Fault("permanent")
        /\ \/ pc = "call"
           \/ pc = "body" /\ cur \in RemoteChecks
     \/ /\ pc = "call" /\ CommandOf[cur].to = "running"
        /\ ~InPlace(CommandOf[cur]) /\ ~Startable(CommandOf[cur])
        /\ UNCHANGED boundVars
  /\ step' = [step EXCEPT ![cur] = "FAILED"]
  /\ hl' \in IF cur \in DOMAIN HealthOf
               THEN {hl, [hl EXCEPT ![HealthOf[cur]] = "UNHEALTHY"]} ELSE {hl}
  /\ pc' = "failed"
  /\ UNCHANGED <<status, job, attempts, cancel, boundary, reqVer, routingVars, rt,
                 desired, nodeVars, gatewayVars, cur, want, anomaly>>

\* Any other exception in a step: the step fails and the operation ends at once.
UnexpectedError ==
  /\ pc \in {"body", "call", "commit", "succeed"}
  /\ Fault("unexpected")
  /\ IF pc = "succeed"
       THEN pc' = "manual" /\ UNCHANGED step
       ELSE pc' = "aborted" /\ step' = [step EXCEPT ![cur] = "FAILED"]
  /\ UNCHANGED <<status, job, attempts, cancel, boundary, reqVer, routingVars,
                 deployVars, nodeVars, gatewayVars, cur, want, anomaly>>

\* _mark_runtime_started / _mark_runtime_stopped, committed after the call.
MarkRuntime ==
  /\ pc = "mark"
  /\ LET c == CommandOf[cur] IN
       /\ rt' = [rt EXCEPT ![c.dep] = IF c.to = "running" THEN "RUNNING" ELSE "STOPPED"]
       /\ hl' = IF c.to = "running" THEN [hl EXCEPT ![c.dep] = "STARTING"] ELSE hl
  /\ pc' = "commit"
  /\ UNCHANGED <<operationVars, routingVars, desired, nodeVars, cur, want, faults, anomaly>>
  /\ OthersUnchanged

\* _traffic_resume_compatible: traffic is SERVING, or a step of this operation put
\* it where it is.
Begun(steps) == \E s \in steps : step[s] \in {"SUCCEEDED", "RUNNING"}
ResumeCompatible ==
  CASE traffic = "SERVING"  -> TRUE
    [] traffic = "DRAINING" -> Begun({"DRAIN_TRAFFIC"})
    [] OTHER -> Begun(ForwardSteps \ {"VALIDATE", "PREFLIGHT", "PREPARE_TARGET",
                                       "DRAIN_TRAFFIC"})

\* What FINALIZE and ROLLBACK_FINALIZE require of the rows, for the deployment that
\* serves and the one that does not.
ServesAlone(on, off) ==
  /\ traffic = "SERVING" /\ route = on
  /\ rt[on] = "RUNNING" /\ hl[on] = "HEALTHY"
  /\ rt[off] = "STOPPED"

\* VALIDATE: Source serves as far as the rows tell.
SourceFit ==
  /\ route = "source" /\ rt["source"] = "RUNNING" /\ hl["source"] = "HEALTHY"
  /\ ResumeCompatible

Ready ==
  CASE cur = "VALIDATE"          -> SourceFit
    [] cur = "WAIT_VRAM_RELEASE" -> cont["source"] # "running"
    [] cur \in DOMAIN HealthOf   -> cont[HealthOf[cur]] = "running"
    [] cur = "FINALIZE"          -> ServesAlone("target", "source")
    [] cur = "ROLLBACK_FINALIZE" -> ServesAlone("source", "target")
    [] OTHER                     -> TRUE

\* PREPARE_TARGET ensures the container, health checks and probes mark the
\* deployment HEALTHY, ROLLBACK_FINALIZE puts the desired states back.
CheckPasses ==
  /\ pc = "body" /\ cur \in CheckSteps /\ Ready
  /\ cont' = IF cur = "PREPARE_TARGET" /\ cont["target"] = "absent"
               THEN [cont EXCEPT !["target"] = "stopped"] ELSE cont
  /\ hl' = IF cur \in DOMAIN HealthOf THEN [hl EXCEPT ![HealthOf[cur]] = "HEALTHY"]
                                      ELSE hl
  /\ desired' = IF cur = "ROLLBACK_FINALIZE"
                  THEN RunningOnly("source") ELSE desired
  /\ pc' = "commit"
  /\ UNCHANGED <<operationVars, routingVars, rt, late, cur, want, faults, anomaly>>
  /\ OthersUnchanged

CheckFails ==
  /\ pc = "body" /\ cur \in CheckSteps /\ ~Ready
  /\ step' = [step EXCEPT ![cur] = "FAILED"]
  /\ hl' = IF cur \in DOMAIN HealthOf
             THEN [hl EXCEPT ![HealthOf[cur]] = "UNHEALTHY"] ELSE hl
  /\ pc' = "failed"
  /\ UNCHANGED <<status, job, attempts, boundary, reqVer, routingVars, rt, desired,
                 nodeVars, cur, want, faults, anomaly>>
  /\ OthersUnchanged

\* succeed_step, after what the step changed was committed.
Commit ==
  /\ pc = "commit"
  /\ step' = [step EXCEPT ![cur] = "SUCCEEDED"]
  /\ pc' = IF cur \in ForwardSteps THEN "next" ELSE "rbnext"
  /\ want' = 0
  /\ UNCHANGED <<status, job, attempts, boundary, reqVer, routingVars, deployVars, nodeVars,
                 cur, faults, anomaly>>
  /\ OthersUnchanged

-----------------------------------------------------------------------------
(************************* the worker: endings *****************************)

\* _handle_stop_source_terminal_failure: what the container does decides.
StopSourceFailed ==
  /\ pc = "failed" /\ cur = "STOP_SOURCE"
  /\ \/ /\ Fault("retryable") \/ Fault("permanent")      \* the inspection fails
        /\ pc' = "manual"
        /\ UNCHANGED <<boundary, rt>>
     \/ /\ cont["source"] = "running"
        /\ boundary' = FALSE
        /\ rt' = [rt EXCEPT !["source"] = "RUNNING"]
        /\ pc' = "aborted"
        /\ UNCHANGED boundVars
     \/ /\ cont["source"] # "running"
        /\ rt' = [rt EXCEPT !["source"] = "STOPPED"]
        /\ pc' = "rollback"
        /\ UNCHANGED <<boundary, boundVars>>
  /\ UNCHANGED <<status, job, attempts, cancel, step, reqVer, routingVars, hl, desired,
                 nodeVars, gatewayVars, cur, want, anomaly>>

\* _handle_forward_terminal_failure and _should_enter_automatic_rollback.
StepFailed ==
  /\ pc = "failed" /\ cur # "STOP_SOURCE"
  /\ pc' = IF boundary /\ cur \in RollbackEnterSteps THEN "rollback" ELSE "aborted"
  /\ UNCHANGED <<operationVars, routingVars, deployVars, nodeVars, cur, want, faults,
                 anomaly>>
  /\ OthersUnchanged

\* _fail_all past the boundary closes the endpoint for the operator; before it,
\* traffic this operation closed is opened again unless Source is STOPPED.
NeverReopenedBug == IF pc = "manual" \/ Destructive THEN "MAINTENANCE" ELSE traffic
TrafficAtEnd ==
  CASE pc = "manual" \/ Destructive -> "MAINTENANCE"
    [] ~(pc = "manual" \/ Destructive) /\ rt["source"] = "STOPPED" -> traffic
    [] OTHER -> "SERVING"

BlockForOperator ==
  /\ \/ pc = "manual"
     \/ pc = "aborted" /\ Destructive
  /\ SetTraffic(TrafficAtEnd)
  /\ pc' = "escalate"
  /\ UNCHANGED <<operationVars, deployVars, nodeVars, cur, want, faults, anomaly>>
  /\ OthersUnchanged

Escalate ==
  /\ pc = "escalate"
  /\ status' = "MANUAL_INTERVENTION_REQUIRED" /\ job' = "FAILED"
  /\ Forget
  /\ UNCHANGED <<attempts, boundary, step, reqVer, routingVars, deployVars, nodeVars,
                 faults, anomaly>>
  /\ OthersUnchanged

\* The gateway's confirmation is awaited and ignored.
Reopen ==
  /\ pc = "aborted" /\ ~Destructive
  /\ SetTraffic(TrafficAtEnd)
  /\ pc' = "failsafe"
  /\ UNCHANGED <<operationVars, deployVars, nodeVars, cur, want, faults, anomaly>>
  /\ OthersUnchanged

Fail ==
  /\ pc = "failsafe"
  /\ status' = IF boundary THEN "MANUAL_INTERVENTION_REQUIRED" ELSE "FAILED"
  /\ job' = "FAILED"
  /\ Forget
  /\ UNCHANGED <<attempts, boundary, step, reqVer, routingVars, deployVars, nodeVars,
                 faults, anomaly>>
  /\ OthersUnchanged

\* _finalize_pre_destructive_cancel: Source must serve again, confirmed by the
\* gateway, or the operator is called.
RestoreForCancel ==
  /\ pc = "cancel"
  /\ IF rt["source"] = "STOPPED"
       THEN pc' = "escalate" /\ UNCHANGED <<routingVars, want>>
       ELSE SetTraffic("SERVING") /\ want' = ver' /\ pc' = "restore"
  /\ UNCHANGED <<operationVars, deployVars, nodeVars, cur, faults, anomaly>>
  /\ OthersUnchanged

RestoreTimesOut ==
  /\ pc = "restore" /\ ~Applied({"SERVING"}, {"source"})
  /\ pc' = "escalate"
  /\ UNCHANGED <<operationVars, routingVars, deployVars, nodeVars, cur, want, faults,
                 anomaly>>
  /\ OthersUnchanged

CancelOperation ==
  /\ pc = "restore" /\ Applied({"SERVING"}, {"source"})
  /\ status' = "CANCELLED" /\ job' = "FAILED"
  /\ step' = SkipOpen(step, ForwardSteps)
  /\ Forget
  /\ UNCHANGED <<attempts, boundary, reqVer, routingVars, deployVars, nodeVars, faults,
                 anomaly>>
  /\ OthersUnchanged

\* _enter_and_run_rollback, first commit.
MarkRollingBack ==
  /\ pc = "rollback"
  /\ status' = "ROLLING_BACK"
  /\ pc' = "block"
  /\ UNCHANGED <<job, attempts, boundary, step, reqVer, routingVars, deployVars,
                 nodeVars, cur, want, faults, anomaly>>
  /\ OthersUnchanged

\* MAINTENANCE (unconfirmed), then the rollback steps exist and no forward step is
\* open.  A resumed rollback passes here again, even if it had restored SERVING
\* already: "anomaly" remembers that.
EnsureRollback ==
  /\ pc = "block"
  /\ SetTraffic("MAINTENANCE")
  /\ step' = [s \in Steps |-> IF s \in RollbackSteps /\ step[s] = "ABSENT"
                                 THEN "PENDING" ELSE SkipOpen(step, ForwardSteps)[s]]
  /\ anomaly' = IF step["ROLLBACK_RESTORE_TRAFFIC"] = "SUCCEEDED"
                  THEN anomaly \cup {"restored rollback blocked"} ELSE anomaly
  /\ pc' = "rbnext"
  /\ UNCHANGED <<status, job, attempts, boundary, reqVer, deployVars, nodeVars, cur,
                 want, faults>>
  /\ OthersUnchanged

BeginRollback ==
  /\ pc = "rbnext"
  /\ \E i \in DOMAIN Rollback : Begin(Rollback, i)
  /\ UNCHANGED <<status, job, attempts, boundary, reqVer, routingVars, deployVars,
                 nodeVars, want, faults, anomaly>>
  /\ OthersUnchanged

FinishRollback ==
  /\ pc = "rbnext" /\ Open(RollbackSteps) = {}
  /\ status' = "ROLLED_BACK" /\ job' = "DONE"
  /\ Forget
  /\ UNCHANGED <<attempts, boundary, step, reqVer, routingVars, deployVars, nodeVars,
                 faults, anomaly>>
  /\ OthersUnchanged

\* The worker process dies: rows and containers stay, and so do the calls it made.
\* Nothing in the rows tells that it was about to hand the operation to the operator.
Crash ==
  /\ pc # "idle"
  /\ Fault("crash")
  /\ Forget
  /\ anomaly' = IF pc = "escalate" THEN anomaly \cup {"escalation interrupted"}
                                     ELSE anomaly
  /\ UNCHANGED <<operationVars, routingVars, deployVars, nodeVars, gatewayVars>>

WorkerStep ==
  \/ Claim \/ RecoverStale \/ Resume \/ ObserveCancel \/ BeginForward
  \/ FinalizeDesired \/ Succeed
  \/ EnterTraffic \/ RecordVersion \/ ActivateRoute \/ StartWait \/ WaitSatisfied
  \/ WaitTimesOut \/ FailTimedOut \/ DecideBoundary
  \/ CallSucceeds \/ RetryableError \/ PermanentError \/ UnexpectedError
  \/ MarkRuntime \/ CheckPasses \/ CheckFails \/ Commit
  \/ StopSourceFailed \/ StepFailed \/ BlockForOperator \/ Escalate \/ Reopen \/ Fail
  \/ RestoreForCancel \/ RestoreTimesOut \/ CancelOperation
  \/ MarkRollingBack \/ EnsureRollback \/ BeginRollback \/ FinishRollback

-----------------------------------------------------------------------------
(**************** the management API, the node, the gateway ****************)

\* cancel_operation: a queued operation ends here; of any other that is not over,
\* only the wish is recorded.
RequestCancel ==
  /\ status \notin Terminal
  /\ ~cancel
  /\ cancel' = TRUE
  /\ IF status = "QUEUED" /\ job = "QUEUED"
       THEN /\ status' = "CANCELLED" /\ job' = "FAILED"
            /\ step' = SkipOpen(step, Steps)
       ELSE UNCHANGED <<status, job, step>>
  /\ UNCHANGED <<attempts, boundary, reqVer, routingVars, deployVars, nodeVars,
                 gatewayVars, workerVars, boundVars, anomaly>>

\* publish, unpublish and the admin route change: only while no worker holds the
\* endpoint's advisory lock, and only to a deployment wanted and seen RUNNING.
OperatorSetsRoute ==
  /\ pc = "idle" /\ status \notin Terminal
  /\ edits < MaxEdits
  /\ \E r \in Routes \ {route} :
       /\ r \in Deployments => desired[r] = "RUNNING" /\ rt[r] = "RUNNING"
       /\ SetRoute(r)
  /\ edits' = edits + 1
  /\ UNCHANGED <<operationVars, deployVars, nodeVars, gatewayVars, workerVars, faults,
                 anomaly>>

\* A command whose caller gave up takes effect.
LateEffect ==
  /\ \E c \in late :
       /\ cont' = IF cont[c.dep] = "absent" THEN cont ELSE [cont EXCEPT ![c.dep] = c.to]
       /\ late' = late \ {c}
  /\ anomaly' = IF cont' = cont THEN anomaly ELSE anomaly \cup {"late effect"}
  /\ UNCHANGED <<operationVars, routingVars, deployVars, gatewayVars, workerVars,
                 boundVars>>

\* load_routing_snapshot reads the version before the rows, in two statements ...
StartReload ==
  /\ load = 0
  /\ load' = ver
  /\ UNCHANGED <<operationVars, routingVars, deployVars, nodeVars, gw, infl, workerVars,
                 boundVars, anomaly>>

\* ... and RoutingStore.reload swaps the snapshot in, newer or not.
OneBehindBug == load > gw.ver + 1
Loaded       == load # 0
FinishReload ==
  /\ Loaded
  /\ gw' = [ver |-> load, traffic |-> traffic, active |-> route]
  /\ load' = 0
  /\ UNCHANGED <<operationVars, routingVars, deployVars, nodeVars, infl, workerVars,
                 boundVars, anomaly>>

\* _admit_resolve_bind: only SERVING lets a request through.  (The gateway also
\* refuses a deployment whose row is not RUNNING and HEALTHY; it admits no more
\* than this.)
Admit ==
  /\ gw.traffic = "SERVING" /\ gw.active \in Deployments
  /\ infl[gw.active] < MaxInflight
  /\ infl' = [infl EXCEPT ![gw.active] = @ + 1]
  /\ UNCHANGED <<operationVars, routingVars, deployVars, nodeVars, gw, load, workerVars,
                 boundVars, anomaly>>

Release ==
  /\ \E d \in Deployments : infl[d] > 0 /\ infl' = [infl EXCEPT ![d] = @ - 1]
  /\ UNCHANGED <<operationVars, routingVars, deployVars, nodeVars, gw, load, workerVars,
                 boundVars, anomaly>>

Next ==
  \/ WorkerStep \/ Crash
  \/ RequestCancel \/ OperatorSetsRoute \/ LateEffect
  \/ StartReload \/ FinishReload \/ Admit \/ Release

Spec == Init /\ [][Next]_vars

\* The worker's loop keeps running (and is restarted), the gateway's poller keeps
\* reloading.  Nothing obliges a request to end, a fault or an edit to happen.
Fairness == WF_vars(WorkerStep) /\ WF_vars(StartReload) /\ WF_vars(FinishReload)
FairSpec == Spec /\ Fairness

-----------------------------------------------------------------------------
(****************************** properties *********************************)

\* Without the departures named in anomaly, late effects allowed or not.
Clean  == anomaly \subseteq {"late effect"}
OnTime == anomaly = {}

\* The gateway never serves from a deployment whose container is not running: the
\* traffic states keep requests off the endpoint while Source is stopped and
\* Target started, through crashes, retries, rollback and cancellation.
NoTrafficToStoppedModel ==
  OnTime /\ gw.traffic = "SERVING" /\ gw.active \in Deployments
    => cont[gw.active] = "running"

\* Source and Target never run at the same time: a cold switch has GPU memory for one.
NoOverlap == OnTime => ~ \A d \in Deployments : cont[d] = "running"

\* The version the gateway reports stands for the rows as of that version: the
\* worker's waits (_wait_gateway) rest on this.
AppliedVersionIsTruth ==
  gw.ver = ver => gw.traffic = traffic /\ gw.active = route

\* A route to Target exists only once Target has passed health check and probe.
RoutedOnlyAfterProbe ==
  Clean /\ route = "target"
    => step["WAIT_TARGET_HEALTH"] = "SUCCEEDED" /\ step["PROBE_TARGET"] = "SUCCEEDED"

\* SUCCEEDED: Target runs alone, serves, and is what the operator wants running.
SucceededMeansServed ==
  Clean /\ edits = 0 /\ status = "SUCCEEDED"
    => /\ boundary
       /\ ServesAlone("target", "source")
       /\ cont["target"] = "running" /\ cont["source"] # "running"
       /\ desired = RunningOnly("target")

\* ROLLED_BACK: Source serves again, alone, and no forward step can resume.
RolledBackMeansRestored ==
  OnTime /\ edits = 0 /\ status = "ROLLED_BACK"
    => /\ ServesAlone("source", "target")
       /\ cont["source"] = "running" /\ cont["target"] # "running"
       /\ desired = RunningOnly("source")
       /\ Open(ForwardSteps) = {}

\* FAILED and CANCELLED are reported only while Source still runs and the endpoint
\* is open: neither ending leaves an outage for an operator to discover.
HarmlessEndings ==
  OnTime /\ edits = 0 /\ status \in {"FAILED", "CANCELLED"}
    => traffic = "SERVING" /\ route = "source" /\ cont["source"] = "running"

\* Source's container is stopped only past the committed boundary, with no request
\* of this endpoint in flight to it.
DrainedBeforeStop ==
  [][OnTime' /\ cont["source"] = "running" /\ cont'["source"] # "running"
       => boundary /\ infl["source"] = 0]_vars

\* A cancellation recorded before the boundary keeps the operation from crossing it.
CancelBeatsBoundary == [][cancel /\ ~boundary => ~boundary']_vars

\* The worker never takes the endpoint away from a deployment that is neither Source
\* nor Target, however the operator came to route to it.
ThirdPartyRouteKept == [][route = "other" /\ pc # "idle" => route' = "other"]_vars

\* Once rolling back, an operation only ends rolled back or with the operator, and
\* never begins a forward step again.
RollbackIsOneWay ==
  [][status = "ROLLING_BACK"
       => /\ status' \in {"ROLLING_BACK", "ROLLED_BACK", "MANUAL_INTERVENTION_REQUIRED"}
          /\ cur' \in ForwardSteps => cur' = cur]_vars

\* In the end the gateway routes as the database says.
GatewayConverges ==
  <>[](gw = [ver |-> ver, traffic |-> traffic, active |-> route])

=============================================================================
