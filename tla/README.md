# Verification of AI ModelOps

AI ModelOps publishes inference *endpoints* (aliases such as `chat`) that a gateway
routes to *deployments* (model servers in containers on GPU nodes). The delicate part
is replacing the deployment behind an endpoint while clients use it. This directory
holds TLA+ models of that machinery, their TLC configurations, and theorems checked by
TLAPS.

Run `tlc -config X.cfg M.tla` for a configuration X.cfg of module M (the table of runs
below), `tlapm M.tla` for the proofs of a module named `...Proofs`.

## The system

| part | state it keeps | operations | talks to |
|---|---|---|---|
| management API (`backend/`) | PostgreSQL rows: endpoint alias (traffic state), routes, routing version, deployments, operations, steps, jobs, model caches and their downloads | enqueue an operation, cancel, retry, publish, unpublish, set route; start, poll and purge a model download | database; node agent |
| worker (`worker/`) | nothing durable of its own; a leased job, a session | claim a job, heartbeat, recover stale leases, run the steps of lifecycle / cold / hot operations, roll back, retire Source, sweep over operations left to an operator | database, node agent (HTTP), gateway (HTTP) |
| gateway (`gateway/`) | routing and policy snapshots, in-flight counters, client slots | reload, admit, resolve, bind, count tokens, proxy, release, report route runtime | database (reads), deployments |
| node agent (`node-agent/`) | Docker containers, download jobs in memory, model cache on disk | prepare, create, start, stop, remove, health, probe; download, list, purge | Docker, NVML, Hugging Face |
| frontend (`frontend/`) | — | user interface | management API |

An operation is a row with an ordered list of steps and one job. A worker leases the
job, executes the steps one after the other, commits after each, and a worker that
dies is succeeded by one that finds the steps where they were left. The gateway polls
the routing version; the worker makes the gateway's answer (`route runtime`: applied
version, traffic state, active deployment, requests in flight) the condition for going
on. So three caches of the truth exist at any time: the rows, the containers, and the
gateway's snapshot.

### What is hard here

* A worker can die between any two commits or calls, and a node-agent call can time out
  with its effect unknown. Everything is resumed from rows.
* The API records a cancellation at any moment; whether the operation is before or after
  a *boundary* (route about to move, Source about to be stopped) decides what it may do.
* The gateway follows the rows late, with a version read before the rows, and a request
  is suspended at every await between the snapshot it was resolved by and its release.
* An operation that was handed to an operator is looked at again by every worker, with
  facts read before the locks are taken and a claim that nobody renews.
* Database sessions do not expire what they read: an old copy decides what is written.
* Endings must be honest: `SUCCEEDED`, `ROLLED_BACK`, `CANCELLED`, `FAILED` and
  `MANUAL_INTERVENTION_REQUIRED` each tell the operator what runs and what is served.

`PROJECT.json` lists the hazards at their lines.

### Properties that make each component correct

* cold switch: no traffic to a stopped model, drain before stop, probe before route, one
  of Source and Target at a time, no boundary crossing after a cancellation, endings that
  mean what they say;
* its reconciliation: what a sweeper ends is so, every operation comes to rest;
* hot switch: what an alias serves is running throughout, Source is stopped only with a
  proof that no request can reach it, a Target the operation did not start is not stopped,
  every operation ends;
* job queue: two workers never work on the same node at once, a dead worker's job is
  taken over, a step that is done is not done again, the queue drains;
* gateway: counters are the requests there are, routes never go back, a request is judged
  by one policy, and the drain that the worker reads is true and stays true;
* model downloads: a row says `READY` only over a whole directory (it does not once a purge
  has gone wrong), every download the operator sees as running is settled.

## Modules

| module | models |
|---|---|
| `ColdSwitch` | one COLD switch operation with worker, API, gateway and node |
| `MCColdSwitch` | its instance for TLC, and one claim of the documentation that the code does not keep |
| `ColdSwitchProofs` | theorems of `ColdSwitch`: types, versions, cancellation, a one-way rollback |
| `ColdSwitchServingProofs` | theorems of `ColdSwitch` about containers, traffic and endings, on top of those |
| `ColdReconcile` | `ColdSwitch` composed with the sweepers that re-examine it once it is with the operator |
| `MCColdReconcile` | its instance for TLC, and two claims of the documentation that the code does not keep |
| `ColdReconcileProofs` | theorems of `ColdReconcile`: what those of `ColdSwitch` become with sweepers, and what a sweeper ends |
| `HotSwitch` | one HOT switch operation with its retirement of Source, its rollback and its sweeps |
| `HotSwitchProofs` | theorems of `HotSwitch`: types, cancellation, a retained Target, traffic and endings |
| `JobQueue` | the job queue and the lifecycle operations it carries, with several workers |
| `MCJobQueue` | its instance for TLC, and one claim of the API that the code does not keep |
| `JobQueueProofs` | theorems of `JobQueue` |
| `Drain` | abstract specification: what the gateway promises whoever waits for a drain |
| `DrainProofs` | what that promise is worth |
| `Gateway` | the gateway process in detail; implements `Drain` |
| `GatewayProofs` | theorems of `Gateway`, that it implements `Drain` among them |
| `MCGateway` | its instance for TLC (symmetry) |
| `CachePipeline` | one model on one node, from its download to its purge |
| `MCCachePipeline` | one claim of the documentation that the code does not keep |
| `CachePipelineProofs` | theorems of `CachePipeline` |

`ColdSwitch` and `HotSwitch` each contain a small gateway (a snapshot, a reload in two
statements, requests in flight), enough to ask what a switch does to requests; `Gateway`
is that process at the grain of its awaits, with a worker reduced to the two drains it
waits for.

### ColdSwitch

**State.** The rows of one operation (`status`, `job`, `attempts`, `cancel`, `boundary`,
`step`, `reqVer`: the routing version a step keeps in `detail_json`), of the endpoint
(`traffic`, `route`, `ver`) and of the two deployments (`rt`, `hl`, `desired`); the
containers on the node (`cont`) and commands that outlive their call (`late`); the
gateway's snapshot, a reload in progress and the requests in flight (`gw`, `load`,
`infl`); what the worker has in memory (`pc`, `cur`, `want`).

**Actions.** One action is one database commit of the worker, one call to the node agent
or gateway with its answer, or one step of another party, so a crash falls between any
two of them. `Claim`, `RecoverStale`, `Resume`, `ObserveCancel` and `BeginForward` are
`_run_locked`. `EnterTraffic`, `RecordVersion`, `WaitSatisfied`, `WaitTimesOut` are the
traffic steps of both directions (change, version, confirmation by the gateway);
`ActivateRoute` both activations; `CallSucceeds`, `RetryableError`, `PermanentError`,
`UnexpectedError` and `MarkRuntime` the container steps; `CheckPasses` and `CheckFails`
the steps that only decide. `StopSourceFailed`, `StepFailed`, `BlockForOperator`,
`Reopen` and the four finalizers are the endings; `MarkRollingBack`, `EnsureRollback`,
`BeginRollback`, `FinishRollback` the rollback. The tables at the top (`TrafficOf`,
`ActivateOf`, `CommandOf`, `HealthOf`, `VersionFrom`) say which step does which.

**Abstractions.** What a check compares (models, GPUs, artifacts) is reduced to pass or
fail, and a remote check may fail for good or transiently. Merged commits: bumping the
step's attempt and requeueing the job (`RetryableError`); the traffic change and the
creation of the rollback steps (`EnsureRollback`). The gateway is a little too generous:
it admits without looking at the deployment's row (`RUNNING`, `HEALTHY`), so what holds
here holds there. A failed reload, after which the gateway keeps its last snapshot, looks
like a slow one. Containers do not die on their own; requests to a deployment outside
the switch are not counted; a database failure inside the best-effort traffic change is
not modelled; one worker at a time (a lease is recovered only when its owner is gone).
The check for an operation that is over when its job is claimed is left out: with one
worker both are written in one transaction.

**`anomaly`.** Four places where the code departs from what its documentation promises
leave a mark in this history variable, which no action reads. Invariants marked `Clean`
speak of all other behaviours; the departures themselves are findings or listed under
"Known departures". Invariants with `edits = 0` are about a switch the operator does not
interfere with: an operator may re-route the endpoint while the worker is down between
the last step and `SUCCEEDED`.

### ColdReconcile

**State.** All of `ColdSwitch`, which it extends, and what reconciliation reads and keeps
beside it: the class of the operation's error code (`err`), whether Target's container has
ever run (`started`, Docker's CREATED or exited), the attempts counted (`sweeps`), and what
each sweeper remembers (`sweeper`). `stale` is a history variable, which no action reads: a
sweeper has resumed the operation from facts it would no longer read (`Current`).

**Actions.** `SweepClaim` is `claim_mir_cold_switch_ids` and everything read before the
locks: steps, flags, error. `LocksBusy`, `SkipSweep` and the five outcomes
(`SweepSucceeds`, `SweepCancels`, `SweepRollsBack`, `ResumeRollback`, `ResumeForward`) with
`Unresolved` are what happens under the locks, `RecordOutcome` the commit of the attempt,
`SweeperCrash` a process that dies between two of them. `SwitchStep` is any step of the
switch, which cannot start while a sweeper has the locks; `BestEffortFails` the swallowed
failure of the closing of the endpoint, left out of `ColdSwitch` alone.

**Why one action may look and decide.** The routing rows cannot change under the advisory
locks (every party that writes them takes one), the containers are moved by the worker
only, which cannot have them, and the gateway's version only grows towards rows that stand
still: an observation that proves something when it is made still proves it when the
decision is written. A command that outlives its call (`late`) is the exception: `EndsAsItIs` speaks of the
moment at which the sweeper looks, and what `PromisesKept` says of containers after an ending
is said under `OnTime`.

**Constants.** `AgentReportsHealth`: the sweeper wants a `health_status` in the answer of
`GET /internal/v1/deployments/{id}`. The node agent's answer
(`node-agent/app/services/deployments.py:1025-1043`) has none, so with FALSE no sweep ever
decides anything (finding 2). The passing runs set TRUE: the reconciliation as its authors
mean it and as its unit tests feed it. Backoff times are abstracted to the order of sweeps:
a claim holds for two minutes and is not renewed, and a sweeper that outsleeps it
(`Oversleep`, counted as a fault) meets another one's work.

### HotSwitch

**State.** As in `ColdSwitch`, but the endpoint is SERVING throughout; `marks` holds the
flags of `metadata_json` (both boundaries, who started Target, whether retirement was
skipped, whether Source's stop was verified), `routeVer` and `backVer` the versions the two
activations keep, `shared` says whether another alias leads to Source, and `unbound` counts
requests that have been resolved and not bound. `sourceRow` says that a route to Source is the
very row the operation moved the alias from: the rollback activates that row only, and an
operator who edits the route makes another. `late` holds, as in `ColdSwitch`, the commands
that outlive their call.

**Actions.** `DecideRoute` and `DecideStop` are the two boundary decisions under row locks;
`ActivateTarget`, `StartWait`, `WaitSatisfied` the route; `StartProof`, `SourceDrained`,
`RouteConflict`, `KeepSource`, `NothingToStop`, `WantSourceStopped` the retirement
(`hot_switch_retirement.py`), in which the drain is proven twice, once by the waiting step
and again by STOP_SOURCE; `StepFailed`, `Classify`, `CancelBeforeRoute`, `StopOwnedTarget`
and `End` the endings; `MarkRollingBack` to `FinishRollback` the rollback. The sweep
(`Reconcile...`, `ResumeForward`, `ResumeRollback`, `CreateRollback`, `Unresolved`) looks
and decides under the locks in one action. The hot sweep reads its facts under the locks,
so nothing stale can be decided and one sweeper is enough. Whoever awaits a command
(`UnderWay`: a step, a cleanup of Target, a sweep) may lose the answer (`LosesAnswer`): the
command is then never run, or has been run, or is still running on the node and takes effect
at any later moment (`LateEffect`).

**`anomaly`.** As in `ColdSwitch`, with one mark more: "late stop" is set when a stop takes a
running container down after its call was given up. `ServedModelsRun`, `SucceededMeansServed`
and `HarmlessEndings` are said under `OnTime` (no mark), for such a stop breaks them
(known departures). `SourceStopProven` says of a late stop only that the boundary was committed, of
every other one the whole drain. `RetainedTargetKept`, `CancelBeatsBoundaries` and
`EventuallyTerminal` hold regardless, and a start that comes late breaks nothing.

**Abstractions.** As in `ColdSwitch`. A Target that serves nobody may go down by itself
(`TargetExits`). A route version known to WAIT_ROUTE_APPLY alone is left out of `Recent`.
`AgentReportsHealth` is as above: `hot_switch_reconcile.py:358-364` wants the same field,
and with a Target that runs already PREFLIGHT asks for it too (`hot_switch.py:812-829`) and
refuses the switch.

### Gateway and Drain

**State.** The database as far as the gateway reads it (`row`, `ver`, `policy`), both
stores (`snap` with its last-known-good mark, `load` of each loader, `pol`), each request
with the await it is suspended at and what it holds (`req`), the counters of
`InflightTracker` (`total`, `unbound`, `bound`), `ClientConcurrencyTracker` (`slots`) and
`TokenCountLimiter` (`counting`), and the drain a worker waits for (`proof`).

**Actions.** A request is an asyncio task and an action takes it from one await to the
next, so tasks interleave exactly where the code lets them: `Arrive`, `AdmitClient`,
`Reserve`, `Bind`, `CheckTokens`, `UpstreamAnswers`, `StreamEnds`, the releases, and
`Cancelled` (the client went away) at any suspension that is not shielded. A limited policy
limits slots and tokens and sets a priority; what the tokenizer answers and what becomes of
the priority are choices. Token-count requests (`AdmitCount` to `ReleaseCount`) go through
their own limiter and take no admission: they are outside the drain promise, in the code as
in the model. `StartReload` and `FinishReload` are the two statements of a load under the
store's lock; `Restart` a process that loads before it serves, or could not. `Observe` is
one answer of the runtime endpoint under `cold_switch` (alias) or `hot_switch_retirement`
(deployment) conditions.

**Refinement.** `Drain` knows resources (aliases and deployments), who uses them, which are
open and which have been reported idle, and no counters, versions or snapshots. The
property `ImplementsDrain` says that `Gateway` implements it, with a resource open while
the rows or the snapshot may still hand it out, and used by a request between its
resolution and its release. `DrainProofs` shows what the promise is worth: a resource
reported idle has no user and no route until it is let go, which is what the worker stops
a model on.

**Abstractions.** Kinds of requests differ in the checks they pass; the bytes proxied, the
client identity beyond one limited client, usage records and metrics are left out.

### CachePipeline

**State.** The cache row and the active download jobs with the locks they are written under
(`row`, `jobs`, `rowLock`, `advisory`); each API request with what its session has read
(`view`, `seen`) and been answered; the agent's jobs in memory, its key entry and threads
(`memory`, `activeKey`, `thread`); the directory (`dir`: absent, partial, whole).

**Actions.** Every await of a request is an action. `StartLock`, `StartFind`, `StartCall`,
`InsertJob` are `start_download`; `Poll`, `Sync`, `List`, `CommitSync` the poll and the
reconciliation of a job the agent has forgotten; `Begin`, `Fetch`, `Settle`, `Finish` the
download thread, which stages, promotes with `os.replace`, settles its job and drops its
key; `Purge`, `PurgeCheck`, `PurgeDelete`, `PurgeCommit` the purge, beside which every other
request, a download and a restart may run, as in the code. `rmtree` may raise half-way
(`PurgeRaises`). A call may fail with or without its effect (`StartFails`, `SyncFails`); any
request may break off, its transaction rolled back, while the agent goes on with what it was
asked (`BreaksOff`); the agent restarts (`Restart`) and forgets, in mid-deletion too. A
session writes at commit only what it changed (`Written`), over rows it does not read again.

**`anomaly`.** A history variable, which no action reads, marks the two ways in which a purge
goes wrong: "purge unfinished", when a deletion that has begun raises or loses its caller, and
"purge overlapped", when beside one there is another request, an active job (in the rows or in
the agent's memory), or a purge whose session has read the row as `MISSING` when it is not, so
that its commit writes nothing. `ReadyRowHasFiles` speaks of behaviours without a mark: each of
these can leave a row `READY` over missing files, and with any of the clauses dropped TLC finds
it violated, the last of them with two purges (finding 5 and the known departures). Until then
it holds however downloads, polls, restarts and purges (refused, repeated, or of a model that is
fetched again) follow each other.

**Abstractions.** The registry rows of a model, the agent's semaphore of concurrent
downloads and the contents of the staging directory are left out. Job rows that are settled
are not read again and are forgotten.

### JobQueue

**State.** For each operation its row (`kind`, `target`, `status`, `step`) and its job's
(`job`, `owner`, `attempts`; `stale` stands for a `locked_at` older than the window,
`ready` for an `available_at` that has come); for each deployment the row (`desired`,
`runtime`, `health`) and the container (`cont`); the advisory lock keys of each worker's
lock connection (`held`); for each worker where it is (`pc`), its job and step (`cur`,
`pos`) and the columns its session has loaded (`seenJob` and the other `seen...`
variables): sessions do not expire on commit and write only columns that differ from
what they loaded, so an old copy decides what is written. `asked` holds API requests
that have passed the check for an active operation and not yet written.

**Actions.** One action is one commit or one call. `Check` and `Enqueue` are
`enqueue_lifecycle`; `RecoverStale`, `Claim`, `Heartbeat`, `LeaseExpires`, `Pause` and
`BecomesReady` the lease; `TryAcquire`, `ReadBusyJob`, `GiveBack` the locks and their
refusal; `Load`, `BeginStep`, `CallNode`, `CallFails`, `CommitRow`, `SucceedStep` the
steps; `BumpStep`, `RequeueRetry`, `FailStep` the retries; `FailOperation`, `FailJob`,
`ApplySuccess`, `SucceedOperation`, `FinishJob`, `Release` the endings; `Exception`,
`AbandonJob`, `AbandonOperation` the path of an unexpected exception; `Crash` a worker
that dies anywhere.

**Abstractions.** A node-agent call that fails has had its effect or never has it (a
late effect is in the switch modules). Locks go with the worker: a lock connection lost while
its worker lives is not modelled. Containers do not die on their own. Rows that vanish,
a deployment without a node and switch jobs are left out of `execute`; the test for an
active route in DELETE is outside. Attempts of different sizes (backoff, priorities) are
reduced to "ready": all lifecycle jobs have one priority, so the oldest ready job goes
first. A step that failed is passed over by the next run after a crash, as in the code.

**History.** `disturbed` is set by a crash or a missed heartbeat; properties named
`Undisturbed...` speak of behaviours until then, because the code's own answer to a lost
lease (run again, count again) breaks them: an attempt is counted per lease, and a
second run may write an old outcome (finding 4). `orphaned` marks operations whose worker
dies between failing the job and failing the operation (`poll_once`, two commits); they
stay active for ever and are excepted, by name, in `ActiveHasLiveJob` and `QueueDrains`.

### Fairness

* Worker, in `ColdReconcile`, `HotSwitch` and `JobQueue`: its loop goes on. It is a
  supervised process, a stale lease is recovered without regard to attempts, and every wait
  inside a step has a deadline. Sweeping is part of each poll.
* Gateway: the poller keeps reloading, and the two statements of a load end.
* Clock, in `JobQueue`: leases grow old and delays pass. A heartbeat is not assumed to come
  in time.
* `CachePipeline`: the download threads go on, and so does some request, the poll of a page that
  shows a running download among them. No client is owed its turn at a lock.

Nothing assumes that a request ends, a container obeys, a call succeeds or anyone cancels.

## Runs

| run | specification and bounds | shows |
|---|---|---|
| `ColdSwitchCore` | `Spec`; 2 attempts, 1 request per deployment, 2 faults of any kind, 1 edit, late effects | eight invariants, four action properties; 4.1 million states |
| `ColdSwitchCancel` | 1 retryable fault | violation of `NeverCancelledPastBoundary` |
| `ColdReconcile` | `FairSpecR`; 1 attempt, 2 sweepers, 2 sweeps, 1 fault (crash, retryable, unexpected, a sweeper that oversleeps), late effects | `PromisesKept`, `EndsAsItIs`, `EventuallyRests`, `GatewayConverges`; 0.7 million states |
| `ColdReconcileBlind` | 1 sweeper, 1 fault, an agent that answers as it does | violation of `ProvenSwitchCanSucceed` |
| `ColdReconcileStale` | 2 sweepers, 2 sweeps, 1 fault | violation of `TargetStoppedBehindMaintenance` |
| `HotSwitchCore` | `Spec`; 2 attempts, 1 sweep, 1 request, 1 fault (crash, retryable), 1 edit, late effects | `ServedModelsRun`, `SourceStopProven`, `RetainedTargetKept`, `CancelBeatsBoundaries`; 5.3 million states |
| `HotSwitchLive` | `FairSpec`; 2 attempts, 1 sweep, 2 faults of any kind, late effects | `SucceededMeansServed`, `HarmlessEndings`, `EventuallyTerminal`; 0.8 million states |
| `Gateway` | `Spec`; 2 requests of one limited client, 2 aliases, 2 deployments, 2 loaders, 1 edit, 1 drain, 1 fault (failed load, exception, restart); symmetry of all four sets | `CountersAreRequests`, `RoutesNeverGoBack`, `PolicyOfOneMoment`, `ImplementsDrain`; 1 million states |
| `CachePipeline` | `Spec` (fair); 2 clients, 2 downloads, 1 purge, 1 fault (a call, a deletion, a request or the agent) | `ReadyRowHasFiles`, `DownloadsSettle`; 1.6 million states |
| `CachePurgeRaces` | 2 clients, 1 purge, no fault | violation of `ReadyMeansDownloaded` |
| `JobQueue` | `FairSpec`; 2 workers, 2 deployments of one node, 2 operations, 2 attempts, 1 fault of any kind | four invariants, two action properties, `QueueDrains`; 1.2 million states |
| `JobQueueReplay` | 1 crash | violation of `RuntimeStatusIsObserved` |

**Why the bounds are enough.** With two faults a behaviour can fail forward and again in the
rollback, or crash twice, or exhaust two attempts; one request per deployment is enough to tell
drained from not drained; a cancellation may come at any point. Two sweepers are what a lost
claim needs, and two sweeps let the first be undone by the second. In `Gateway` two requests
contend for one slot while one of them keeps a drain waiting, the two aliases start on different
deployments and may come to share one, and two loaders may overlap; the one edit is a route, a
traffic state, an `enabled` flag or the policy. In `CachePipeline` the index that allows one
active job needs two downloads to refuse one. More is too large for a run: with two purges TLC
has 4.9 million states for `ReadyRowHasFiles`, with two faults 3.1 million for both properties,
and finds them true. In `JobQueue` two workers are what a lost lease needs (the old owner and
the new one), two operations what an overwritten outcome and a contended lock need, and two
attempts tell a retry from the last one. With two faults a paused worker meets a crashed one:
one deployment then gives 3.3 million states, up to a permutation of the workers, in which the
invariants and action properties hold, as is proved for any number. Every action fires in one of
the passing runs. Symmetry is used where no liveness is checked. Deadlock is not checked: an
operation that is over, on a gateway that is up to date, has nothing left to do, and neither has
an empty queue, a gateway whose requests are all done, or a cache that is purged.

`ColdSwitchCore` lets commands outlive their call. Five properties (`NoTrafficToStoppedModel`,
`NoOverlap`, `RolledBackMeansRestored`, `HarmlessEndings`, `DrainedBeforeStop`) do not survive
one that takes effect after the worker has looked, and say so (`OnTime`); the others hold
regardless. The two passing runs of `HotSwitch` have late commands too. `PromisesKept` collects
six properties of `ColdSwitch` for a switch with sweepers, `OnTime` where they say it and as
long as nothing `stale` was resumed. In `ColdReconcile` one fault and two sweeps are few: with
two faults and three sweeps TLC has 13.9 million states, too many for a run, and there the stale
resumptions break `SucceededMeansServed` and `NoOverlap` (below). That nothing else does, for
any number of faults and sweeps, is proved.

## Findings

Where the code does not do what its own documentation, comments or tests say; each is a
run that ends in a violation.

1. *Cancelled past the boundary* (`ColdSwitchCancel`). After a crash or a retryable error in
   `STOP_SOURCE`, a cancellation makes `decide_destructive_boundary` answer "cancelled"
   although the flag is already committed; the operation ends `CANCELLED`, the endpoint is
   put back to `SERVING`, and Source may be stopped.
2. *A sweeper that proves nothing* (`ColdReconcileBlind`). The reconciliation of both
   switches wants a `health_status` that the node agent does not answer; every sweep stays
   unresolved. A hot switch to a Target that already runs is refused in PREFLIGHT for the same
   reason. The unit tests feed the field by hand.
3. *A stale resumption* (`ColdReconcileStale`). A sweeper reads the steps before the locks and
   looks only at the status again under them. One that outslept its claim reopens a forward
   step of a rollback that has begun and broken since; the worker passes the broken
   `ROLLBACK_BLOCK_TRAFFIC` over and stops Target under a gateway that serves from it.
4. *An old outcome is written again* (`JobQueueReplay`). `_run_operation` does not look at the
   operation's status. A worker that dies with every step done, but before the job is DONE,
   leaves a job that is leased again; when another operation has changed the deployment
   meanwhile, the second run writes `runtime_status` and `desired_state` of the first over it.
5. *A poll over a purge* (`CachePurgeRaces`). Of two polls that were told `READY` one commits,
   a purge then finds no active job, deletes and writes `MISSING`, and the other poll commits
   `READY` over the deleted directory. No fault is needed.

### Known departures

Behaviours the models have; no run is spent on them. All are excluded by name in the
properties.

* *Stale resumptions* (`stale`). With a second fault the stale facts of finding 3 do more. In both cases
  the gateway did not confirm the route, the operation is with the operator, and two sweepers
  claim it, one of them after outsleeping its claim; the first resumes it, the worker hands it
  over again, and the second sweeper still resumes forward (`reconcile_operation` reads before
  the locks, and the status is the expected one again).
  - The worker had finished every step and met an unexpected error while the success was being
    written, which leaves `MAINTENANCE`. `reopen_mir_for_resume` reopens no step but queues the
    operation; the worker finds nothing open and ends `SUCCEEDED` on a closed endpoint.
  - An operator's cancellation had begun the rollback, and `ROLLBACK_STOP_TARGET` had failed. The
    worker goes on with the rollback after the failed step and starts Source beside a running
    Target.
* *A failed step is passed over* (both switches, "failed step skipped"). The loops resume with
  open steps only. A crash between `fail_step` and the ending makes the next attempt go on
  after the failed step: stop Source although the drain timed out, or route to a Target that
  failed its probe.
* *A resumed rollback closes the endpoint* ("restored rollback blocked").
  `_enter_and_run_rollback` writes `MAINTENANCE` again on every resume; one step before
  `ROLLBACK_FINALIZE` the operation then ends with the operator.
* *A late stop* (`OnTime`; "late effect" in the cold switch, "late stop" in the hot one). After
  a timed-out stop the cold worker inspects the container once and, if it still runs, reports
  `FAILED`, reopened; the stop may still be under way. In the hot switch the call of
  `STOP_SOURCE` is retried (`hot_switch_retirement.py:576`, `node_agent.py:126-139`). If the next
  attempt observes a cancellation, `HOT_ROLLBACK_START_SOURCE` takes the Source that still runs
  as it is (`hot_switch_rollback.py:428`), the route goes back, and the stop lands under it; a
  fresh proof that fails on the retry reaches the same by keeping Source.
* *Escalation interrupted*. A crash after `MAINTENANCE` was written for the operator and before
  `MANUAL_INTERVENTION_REQUIRED` leaves nothing in the rows that tells why.
* *Cleanup interrupted* (hot). A crash while the cleanup stops Target: the next attempt goes
  on with the forward steps, with a stopped container.
* *Another alias and a dead Source* (hot, "dead model routed"). Rows say nothing of a call that
  failed: the row of Source may say RUNNING and HEALTHY over a container that is down, and
  the operator may route an alias to it.
* *A Target routed by hand* (hot, "target routed early"). An operator routes an alias to Target
  before the switch has moved its own; when the switch then fails, the cleanup stops the
  Target it started without looking at routes
  (`hot_switch.py:2073`, `_best_effort_stop_target_if_started`).
* *Leaked admission* (`leaked` in `Gateway`). An exception that
  `_enforce_chat_input_token_policy` does not list leaves through it with slot and counters
  held (`gateway/app/api/openai_routes.py:638-639`): `CountersAreRequests` still counts it as a
  request, and a drain of its alias never ends.
* *A purge that breaks off* ("purge unfinished"). `rmtree` raises half-way
  (`model_cache.py:794`), the call times out, or the agent restarts while it deletes;
  `purge_cache` raises (`hf_download.py:497`) and the row stays `READY` over a part of the
  files, or none.
* *A deletion beside a download* ("purge overlapped", as finding 5). The agent looks for active
  downloads under its lock, releases it, asks Docker for the mounts and deletes, without the
  key lock that a download thread holds; the check of the API is earlier still. The mark is
  wider than the harm: a request beside a deletion need not do any.
* *A row that stays `PREPARING`*. Two polls and a start can lose an update so that the job is
  settled and the row is not; `DownloadsSettle` is about the job only.
* *A stopped deployment that must be stopped first*. A start whose health check gets no answer
  leaves `health_status` at STARTING; stopping does not reset it, and DELETE is refused with
  "Stop first".

## Proofs

`ColdSwitchProofs` proves for all values of the constants (any number of attempts,
requests, faults, edits, with late effects or without), from `BoundsAssumption` and
`KindsAssumption`:

* `Typing` — `TypeOK`. Not inductive alone: a container is commanded only in steps that
  command one, and the boundary is decided only in `STOP_SOURCE` (`PhaseOK`).
* `VersionIsTruth` — `AppliedVersionIsTruth`. The strengthening is that neither the
  version applied nor the one a reload has read is ahead of the database (`VersionInv`);
  `MovesStep` reduces the specification to five kinds of routing move.
* `ThirdPartyKept` — `ThirdPartyRouteKept`, from the same lemma.
* `CancelWins` — `CancelBeatsBoundary`: one action crosses the boundary, and it looks at
  the cancellation under the lock.
* `OneWayRollback` — `RollbackIsOneWay`. The strengthening (`RollingInv`): while rolling
  back the worker is in no phase of the forward direction and executes rollback steps.

`ColdSwitchServingProofs` extends it. Two layers of order come first. `OrderInv` ties the
worker's phase to its step and to the operation's status (`PhaseInv`), says that no rollback
step exists before the rollback (`NotBegun`) and that whatever comes before the current step
has succeeded (`InOrder`); `NoGap` says the same of any step that has succeeded. Then one
lemma per piece of state says who moves it (`WhoStarts`, `WhoStops`, `WhoServes`,
`WhoRoutes`, `WhoReloads`, ...), and every later proof goes through those and not through
the actions. `ServingInv` is the inductive invariant about the node and the route:

* what each finished step has left behind, and for how long: Source stopped past the boundary
  (`Past`, `Stopped`), Target running from its start and down from its rollback stop
  (`TargetUp`, `TargetDown`), Source back (`SourceUp`), commands that outlive their call
  only in the direction taken (`LateForward`);
* the endpoint closed and drained from `DRAIN_TRAFFIC` to the stop of Source (`HeldOff`),
  closed again from `ROLLBACK_BLOCK_TRAFFIC` to the stop of Target (`Blocked`), and what is
  routed under open rows running (`RowsRun`).

From it follow `ProbedBeforeRouted` (`RoutedOnlyAfterProbe`), `OneAtATime` (`NoOverlap`),
`TrafficReachesRunning` (`NoTrafficToStoppedModel`) and `StopsDrained` (`DrainedBeforeStop`).
`EndInv` adds what holds on the way to each ending (`Won`, `Served`, `Restored`, `Unharmed`),
and gives `SuccessIsService` (`SucceededMeansServed`), `RollbackIsRestored`
(`RolledBackMeansRestored`) and `EndingsAreHarmless` (`HarmlessEndings`). `Clean`, `OnTime` and
`edits = 0` occur in the invariants where they occur in the properties (a known departure, or
an operator who re-routes, makes the outcome another), and no theorem assumes more.

`ColdReconcileProofs` extends both and proves, from the same assumptions and for any sweepers
and sweeps, five theorems without a proviso:

* `SweepTyping` — `SweepTypeOK`, with `Counted`: a sweeper at work has counted its attempt.
* `VersionSwept` (`AppliedVersionIsTruth`), `CancelWinsSwept` (`CancelBeatsBoundary`) and
  `ThirdPartySwept` (`ThirdPartyRouteKept`) — a sweeper writes no route, no boundary and no
  cancellation (`HandsOff`), so these survive it as they are.
* `OneWaySwept` — `RollbackIsOneWay`. A sweeper finds an operation with the operator; the one
  it puts on its way back is nobody's yet, and nothing else it does begins a forward step of it.

and those that hold while nothing `stale` has been resumed (`Undeceived`):

* `PromisesSwept` — `PromisesKept`;
* `SweptAsItIs` — `EndsAsItIs`, whose first half, that only an operation that is with the
  operator is moved, holds regardless;
* `StopsDrainedSwept` — `DrainedBeforeStop`.

The invariant of `ColdSwitch` is not enough: most of it is said of an operation that goes
forward or rolls back, and one that is with the operator does neither until a sweeper puts it
back there. `Sound` says of the rows what holds whatever the status. `RowsInv`: the steps of a
rollback are created together, which closes the forward steps and the endpoint, and a forward
step that has begun has those before it behind it. `PastInv`: Source is untouched until the
boundary, so that only an operation past it rolls back. `EvidenceInv`: a deployment that was
started or probed is so by its row, and Target has run only after Source was stopped.
`ClaimedBefore` bounds what a sweeper remembers: an operation it saw before the boundary will
not cross it. `SwitchSound` shows that the steps of the switch keep all this (the swallowed
failure of the closing of the endpoint included), `CalmSound` that looking and letting go do,
and `RulingSound` that a decision does if it fits the rows (`FitRows`, `FitStatus`); one lemma
for each of the five decisions shows that it fits. The two resumptions do so because their
facts are current, the three endings even when theirs are old.

`HotSwitchProofs` proves, from `HotBounds` and `HotKinds`, for any number of attempts,
sweeps, requests, faults and edits:

* `Typing` — `TypeOK`, again with a `PhaseOK`: a container is commanded only in a step that
  commands one.
* `CancelWins` — `CancelBeatsBoundaries`. Only the two decisions set a boundary mark
  (`OnlyDecisionsCross`), and they look at the cancellation under the row locks.
* `RetainedTarget` — `RetainedTargetKept`. `TargetStops` goes through the actions: the
  commands of the steps never stop a running Target (`CommandsSpareTarget`), a cleanup
  stops only one that this operation started, and a stop of Target that is still under way
  after its call is such a cleanup's (`LateOwned`).

* `SourceStop` — `SourceStopProven`. Four invariants carry it. `PhaseInv` ties the worker's
  phase to its step and to the operation's status. `RollbackInv` says how far the steps of
  each direction can have come (no back step without a cancellation or a rollback, forward
  steps first). `StopInv` is the drain proof: the snapshot is never ahead of the rows
  (`SnapshotTrue`), what the worker has observed while it proves a drain still holds when it
  decides (`Proving`), from the decision to the call nothing reaches Source any more
  (`AtStop` implies `Unreached`), and a stop of Source that outlives its call was asked for
  past the boundary (`LateCrossed`). No `OnTime` is assumed: a late stop is spared the drain
  only, by the property.
* `ServedRun` — `ServedModelsRun`. `ServeInv` adds that the route is moved only to a probed
  Target (`ProbedBefore`, `TargetUp`), that no cleanup reaches one that is routed
  (`NotEarly`, `CleanupSafe`), and that what is routed, shared or applied runs
  (`RoutedRuns`, `SharedRuns`, `AppliedRuns`). It is said under `OnTime`, where it has to be: no
  stop has come late, while any number may be under way (`LateStops`), and a start that comes
  late only adds a container that runs. `ServingHolds` goes through the actions by who
  moves a container, a route or the gateway's snapshot, one lemma each.
* `EndingsAreHarmless` — `HarmlessEndings`. `EndInv` adds that a route nobody edits leads to
  one of the two, and to Source until the switch has moved it (`RouteOwn`), that a retirement
  comes after the route (`StopLate`) and has done nothing before its boundary (`NotRetired`),
  that what is being cancelled has not crossed the route's boundary (`CancelEarly`), and that
  a rollback has its steps only once begun (`NoBack`) and serves from Source once the last of
  them has passed (`BackDone`). `WhoEnds` names the writers of each ending.
* `SuccessIsService` — `SucceededMeansServed`. `WinInv` follows Source through an operation
  that may still go forward (`Moving`): steps are opened in their order (`OpenAt`,
  `Onwards`), `STOP_SOURCE` is at work only on a Source that is not to be kept (`AtRetire`),
  the row, the mark and the open drain each say whether Source runs (`SourceKept`), what
  `FINALIZE` has found stays (`FinalStep`, `Final`), and a start of Source, late or not, is a
  rollback's (`LateStarts`), so that none revives a Source that was retired. As for the
  endings above, `OnTime` excludes the stop that comes late, and nothing else is assumed.

`GatewayProofs` proves, from `GatewayKinds`, `GatewayNone`, `GatewayResources`,
`GatewayFinite` and `GatewayBounds`, for any requests, aliases, deployments and loaders:

* `Typing` — `TypeOK`, with what a request holds at each await (`RequestShape`).
* `CountersTrue` — `CountersAreRequests`. The strengthening (`CountInv`) states each counter
  as the cardinality of a set of requests, and every step as one request that enters or
  leaves some of those sets.
* `NewerSnapshots` — `RoutesNeverGoBack`, from what a reload in progress has read
  (`ReloadInv`); `OnePolicy` — `PolicyOfOneMoment`.
* `DrainRefined` — `ImplementsDrain`, step by step: every step of the gateway is a step of
  `Drain` or leaves its variables alone. Needed for it: a snapshot of the current version is
  the rows (`SnapshotInv`), what a drain waits for is closed in the rows and in every snapshot
  fresh enough (`WaitInv`), and once it is reported idle no request uses it and no older
  snapshot or load is left (`ProvenInv`).
* `StoppedMeansUnused` — what has been reported idle has no request in the gateway and no way
  in until it is let go: the invariant of `Drain`, of the detailed gateway.

`DrainProofs` proves, for any requests and resources, `IdleIsUnused`: the invariant a worker
relies on follows from `Drain` alone.

`CachePipelineProofs` proves, from `CacheAssumption`, for any requests, downloads and faults:

* `Typing` — `TypeOK`.
* `ReadyRows` — `ReadyRowHasFiles`, from no assumption about purges: the behaviours in which one
  goes wrong are excluded by the property itself, through `anomaly`, from the moment on at which
  it does (`WatchInv`: without a mark no purge that deletes is overlapped or unfinished). The
  strengthening follows one promise from the thread to the row: whoever holds the row's lock has
  not read READY (`LockInv`), a thread has the status of its job (`ThreadInv`), and, as long as
  nothing is marked, whatever says READY and may still be written, in the agent's memory, in a
  request or in the row, says so of a whole directory (`FilesInv`). Beside a purge that deletes
  there is nobody left to be told (`Beside`), so that it begins (`PurgeBegins`) and ends
  (`PurgeTells`) with a row that is not READY or with its own request to say so.

`JobQueueProofs` proves, from `QueueAssumption`, for any number of workers, deployments,
nodes, operations, attempts and faults:

* `Typing` — `TypeOK`, with the shape of the steps (`StepShape`): an operation has the
  steps of its kind once created, none before.
* `LocksKeepApart` — `OneRunnerPerNode`. The strengthening (`LockInv`): a worker in a run
  phase holds exactly the keys of its deployment and node, every other worker none, and
  no key has two holders. `StepKinds` sorts all actions into those that keep the locks,
  those without, those that drop them and the one that takes them. Leases play no part.
* `SucceededForGood` — `StepsNeverRepeat`. Added to `LockInv`: the step a worker is at is
  RUNNING (`OpenAt`); two workers with locks are at different operations, so only it
  writes the step.
* `ActiveKeepsJob` — `ActiveHasLiveJob`. The strengthening (`EndInv`): a job is ended
  only after its operation, and a terminal status a session has seen is still there.
* `AttemptsCounted` — `UndisturbedAttempts`. Until a lease is lost (`LeaseInv`) nobody but its
  owner works on a job (`Fenced`, `OwnerWorks`), a running job has its owner
  (`RunningIsOwned`), what a session has loaded is what the row holds (`SeenIsNow`), and so the
  attempt given back is the one counted (`AttemptsHeld`).
* `RowsObserved` — `UndisturbedRowsAreObserved`. Added (`ObserveInv`): steps succeed in their
  order (`InOrder`), a worker past a step has its effect (`Accepted`), and the last step of an
  operation leaves the container in the state that is written (`LastFits`).

Model-checked only is liveness, with the fairness it needs: `EventuallyRests` and
`GatewayConverges` (`ColdReconcile`), `EventuallyTerminal` (`HotSwitch`), `QueueDrains`
(`JobQueue`) and `DownloadsSettle` (`CachePipeline`); fairness and ENABLED are out of the
prover's reach. The five departures that are findings are TLC's as well: they are
counterexamples.

## Plan

Every safety property of a passing run is proved. What would say more about the system next:
the gateway's token arithmetic and usage records, deployments made from a cache, and a
reconciliation that reads its facts under the locks, of which `stale` could be dropped.

## Not modelled

* Management API: the retry endpoint, idempotency keys and the catalogue (models, artifacts,
  deployments, preflight, resource fit) validate and store, one request at a time, under
  database constraints; resource fit is arithmetic over one report with tests of its own.
* Downloads: deployments made from a cache, the worker that verifies the cached path when it
  starts one (`_prepare_artifacts`), the decommission view.
* Node agent: what Docker and NVML are asked, create conflicts, label checks, the preparation
  of files. Its effects on a container are in the switch modules and in `JobQueue`.
* Gateway: bytes, headers, token arithmetic, streaming chunks, usage records.
* Metrics, analytics and observability read and aggregate; frontend, migrations and scripts
  have no part in the protocols above.
