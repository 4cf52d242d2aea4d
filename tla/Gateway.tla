------------------------------- MODULE Gateway ------------------------------
(***************************************************************************)
(* The gateway process: the routing and policy snapshots it keeps, the     *)
(* requests it carries, the counters it reports, and the worker that reads *)
(* them to prove that an alias or a deployment is drained.                 *)
(*                                                                         *)
(* A request is an asyncio task; it may be suspended at every await, and   *)
(* an action is what it does from one await to the next.                   *)
(***************************************************************************)
EXTENDS Integers, FiniteSets, Functions

CONSTANTS
  Requests, Aliases, Deployments,
  Loaders,        \* who reloads routes: the poller; NOTIFY and POST /internal/v1/routes/reload
  NoDeployment,   \* no active route
  NoAlias,        \* of a request not read yet, or over
  Kinds,          \* which requests arrive: a subset of AllKinds
  SlotLimit,      \* max_concurrent_requests of the client, when its policy is "limited"
  CountLimit,     \* token_count_max_concurrent
  MaxEdits,       \* bound on the changes of routes, traffic and policy
  MaxProofs,      \* bound on the drains the worker waits for
  MaxFaults,      \* bound on failed loads, unforeseen exceptions and restarts
  FaultKinds      \* subset of {"load", "exception", "restart"}

AllKinds == {"chat", "stream", "embed", "count"}

ASSUME GatewayKinds == Kinds \subseteq AllKinds
ASSUME GatewayNone == NoDeployment \notin Deployments /\ NoAlias \notin Aliases
ASSUME GatewayResources == Aliases \cap Deployments = {}
ASSUME GatewayFinite == IsFiniteSet(Requests)
ASSUME GatewayBounds ==
  SlotLimit \in Nat \ {0} /\ CountLimit \in Nat \ {0} /\ MaxFaults \in Nat

VARIABLES
  row,      \* the database: active route, enabled flag and traffic state of an alias
  ver,      \* its routing version
  policy,   \* its policy of the client: "none" or "limited"
  snap,     \* RoutingStore._snapshot
  load,     \* the version a reload has read, while it waits for the rows
  pol,      \* PolicyStore.snapshot: "absent" until it is first loaded
  req,      \* each request: what it awaits, and what it holds
  total, unbound, bound,           \* InflightTracker: per alias, per alias, per deployment
  slots,    \* ClientConcurrencyTracker
  counting, \* TokenCountLimiter
  proof,    \* the drain the worker waits for, under its advisory locks
  edits, faults, proofs            \* bounds

dbVars      == <<row, ver, policy>>
storeVars   == <<snap, load, pol>>
counterVars == <<total, unbound, bound, slots, counting>>
workerVars  == <<proof, proofs>>
boundVars   == <<edits, faults>>
vars == <<dbVars, storeVars, req, counterVars, workerVars, boundVars>>

Nowhere  == [dep |-> NoDeployment, enabled |-> TRUE, traffic |-> "SERVING"]
NoRows   == [a \in Aliases |-> Nowhere]
NotReady == [ready |-> FALSE, ver |-> 0, lkg |-> FALSE, row |-> NoRows]
LoadedBug(v) == [ready |-> TRUE, ver |-> v, lkg |-> FALSE,
                 row |-> [a \in {b \in Aliases : row[b].enabled} |-> row[a]]]
Loaded(v) == [ready |-> TRUE, ver |-> v, lkg |-> FALSE, row |-> row]
NoProof  == [on |-> "none", alias |-> NoAlias, dep |-> NoDeployment, ver |-> 0,
             proven |-> FALSE]

\* A request that is not read yet, or over.
Outside(phase) == [at |-> phase, kind |-> "chat", alias |-> NoAlias, pin |-> "none",
                   slot |-> FALSE, entry |-> NoDeployment]

Phases == {"new", "limit", "admit", "bind", "tokens", "upstream", "streaming", "unreserve",
           "release", "releaseclient", "limiter", "body", "tokenize", "releasecount",
           "done", "leaked"}

Rows     == [Aliases -> [dep : Deployments \cup {NoDeployment}, enabled : BOOLEAN,
                         traffic : {"SERVING", "DRAINING", "MAINTENANCE"}]]
Request  == [at : Phases, kind : AllKinds,
             alias : Aliases \cup {NoAlias}, pin : {"none", "limited"},
             slot : BOOLEAN, entry : Deployments \cup {NoDeployment}]

DbType == row \in Rows /\ ver \in Nat /\ policy \in {"none", "limited"}
StoreType ==
  /\ snap \in [ready : BOOLEAN, ver : Nat, lkg : BOOLEAN, row : Rows]
  /\ load \in [Loaders -> -1 .. ver] /\ pol \in {"absent", "none", "limited"}
RequestType == req \in [Requests -> Request]
CounterType ==
  /\ total \in [Aliases -> Nat] /\ unbound \in [Aliases -> Nat]
  /\ bound \in [Deployments -> Nat]
  /\ slots \in Nat /\ counting \in Nat
ProofType ==
  proof \in [on : {"none", "cold", "hot"}, alias : Aliases \cup {NoAlias},
            dep : Deployments \cup {NoDeployment}, ver : Nat, proven : BOOLEAN]
BoundType == edits \in Nat /\ proofs \in Nat /\ faults \in 0 .. MaxFaults
TypeOK == DbType /\ StoreType /\ RequestType /\ CounterType /\ ProofType /\ BoundType

\* At first no two aliases share a deployment; edits may bring them together.
Init ==
  /\ row \in {[a \in Aliases |-> [Nowhere EXCEPT !.dep = f[a]]] :
             f \in Injection(Aliases, Deployments)}
  /\ ver = 1 /\ policy \in {"none", "limited"}
  /\ snap = Loaded(ver) /\ load = [l \in Loaders |-> -1] /\ pol = policy
  /\ req = [r \in Requests |-> Outside("new")]
  /\ total = [a \in Aliases |-> 0] /\ unbound = [a \in Aliases |-> 0]
  /\ bound = [d \in Deployments |-> 0] /\ slots = 0 /\ counting = 0
  /\ proof = NoProof /\ edits = 0 /\ proofs = 0 /\ faults = 0

-----------------------------------------------------------------------------
(* Common parts.                                                           *)

Fault(f) == f \in FaultKinds /\ faults < MaxFaults /\ faults' = faults + 1

\* Counters are popped at one: they never go below zero, even if decremented once too often.
Less(n) == IF n <= 1 THEN 0 ELSE n - 1

At(r, phase)   == req[r].at = phase
Goes(r, phase) == req' = [req EXCEPT ![r].at = phase]
Ends(r)        == req' = [req EXCEPT ![r] = Outside("done")]

\* The client's slot, if it has one, is all that is left to release.
ClientLeft(r) == IF req[r].slot THEN Goes(r, "releaseclient") ELSE Ends(r)

\* resolve_route: not found, disabled, draining, in maintenance, without a route.
Resolvable(e) == e.enabled /\ e.traffic = "SERVING" /\ e.dep # NoDeployment
LimitedBug(r) == pol = "limited"
Limited(r)    == req[r].pin = "limited"
Chat(r)       == req[r].kind \in {"chat", "stream"}

RequestsOnly == UNCHANGED <<dbVars, storeVars, workerVars, boundVars>>

-----------------------------------------------------------------------------
(* The management API and the switches change routes: each change bumps    *)
(* the version in its transaction, and waits for nobody: a held lock is    *)
(* answered with ROUTE_MUTATION_BUSY.                                      *)

LockedAliases     == IF proof.on = "none" THEN {} ELSE {proof.alias}
LockedDeployments == IF proof.on = "hot" THEN {proof.dep, row[proof.alias].dep} ELSE {}

Edit ==
  /\ edits < MaxEdits /\ edits' = edits + 1
  /\ UNCHANGED <<policy, storeVars, req, counterVars, workerVars, faults>>

\* _activate_route: the endpoint and the new deployment are locked.
Activate(a, d) ==
  /\ Edit
  /\ a \notin LockedAliases /\ d \notin LockedDeployments
  /\ row' = [row EXCEPT ![a].dep = d] /\ ver' = ver + 1

\* unpublish: the endpoint and the deployment it routes to are locked.
Unpublish(a) ==
  /\ Edit
  /\ row[a].dep # NoDeployment /\ a \notin LockedAliases /\ row[a].dep \notin LockedDeployments
  /\ row' = [row EXCEPT ![a].dep = NoDeployment] /\ ver' = ver + 1

\* update_endpoint takes no advisory lock.
SetEnabled(a) ==
  /\ Edit
  /\ row' = [row EXCEPT ![a].enabled = ~@] /\ ver' = ver + 1

\* A cold switch that ends opens the endpoint it holds, or closes it for an operator.
SetTraffic(a) ==
  /\ Edit
  /\ a \notin LockedAliases /\ row[a].traffic # "SERVING"
  /\ \E t \in {"SERVING", "MAINTENANCE"} : row' = [row EXCEPT ![a].traffic = t]
  /\ ver' = ver + 1

EditPolicy ==
  /\ edits < MaxEdits /\ edits' = edits + 1
  /\ policy' = IF policy = "none" THEN "limited" ELSE "none"
  /\ UNCHANGED <<row, ver, storeVars, req, counterVars, workerVars, faults>>

-----------------------------------------------------------------------------
(* Reloads.  RoutingStore.reload holds the store's lock from before the    *)
(* version is read until the snapshot is replaced.                         *)

StoresOnly == UNCHANGED <<dbVars, req, counterVars, workerVars, edits>>

UnlockedBug(l) == load[l] = -1
LockFree(l)    == \A m \in Loaders : load[m] = -1

StartReload(l) ==
  /\ LockFree(l)
  /\ load' = [load EXCEPT ![l] = ver]
  /\ UNCHANGED <<snap, pol, faults>>
  /\ StoresOnly

FinishReload(l) ==
  /\ load[l] # -1
  /\ snap' = Loaded(load[l])
  /\ load' = [load EXCEPT ![l] = -1]
  /\ UNCHANGED <<pol, faults>>
  /\ StoresOnly

\* The database is away: what was loaded last stays, marked; with nothing loaded, nothing.
FailReload(l) ==
  /\ load[l] # -1
  /\ Fault("load")
  /\ snap' = [snap EXCEPT !.lkg = snap.ready]
  /\ load' = [load EXCEPT ![l] = -1]
  /\ UNCHANGED pol
  /\ StoresOnly

ReloadPolicy ==
  /\ pol # policy /\ pol' = policy
  /\ UNCHANGED <<snap, load, faults>>
  /\ StoresOnly

-----------------------------------------------------------------------------
(* Chat, streamed chat and embeddings.                                     *)

\* The request is read and its client's policy pinned: without a limit nothing is asked
\* of the tracker.
Arrive(r) ==
  /\ At(r, "new")
  /\ \E k \in Kinds \ {"count"}, a \in Aliases :
       req' = [req EXCEPT ![r] = [Outside(IF pol = "limited" THEN "limit" ELSE "admit")
                                    EXCEPT !.kind = k, !.alias = a,
                                      !.pin = IF pol = "limited" THEN "limited" ELSE "none"]]
  /\ UNCHANGED counterVars
  /\ RequestsOnly

\* What the policy or the body refuses at once is answered without any admission.
RefuseAtOnce(r) ==
  /\ At(r, "new") /\ Ends(r)
  /\ UNCHANGED counterVars
  /\ RequestsOnly

\* tracker.admit.
AdmitClient(r) ==
  /\ At(r, "limit")
  /\ \/ slots >= SlotLimit /\ Ends(r) /\ UNCHANGED slots
     \/ /\ slots < SlotLimit /\ slots' = slots + 1
        /\ req' = [req EXCEPT ![r].at = "admit", ![r].slot = TRUE]
  /\ UNCHANGED <<total, unbound, bound, counting>>
  /\ RequestsOnly

\* inflight.admit, then resolve_route on the snapshot of that moment.
Reserve(r) ==
  /\ At(r, "admit")
  /\ total' = [total EXCEPT ![req[r].alias] = @ + 1]
  /\ unbound' = [unbound EXCEPT ![req[r].alias] = @ + 1]
  /\ LET e == snap.row[req[r].alias]
     IN  IF snap.ready /\ Resolvable(e)
         THEN req' = [req EXCEPT ![r].at = "bind", ![r].entry = e.dep]
         ELSE Goes(r, "unreserve")
  /\ UNCHANGED <<bound, slots, counting>>
  /\ RequestsOnly

Bind(r) ==
  /\ At(r, "bind")
  /\ unbound' = [unbound EXCEPT ![req[r].alias] = Less(@)]
  /\ bound' = [bound EXCEPT ![req[r].entry] = @ + 1]
  /\ Goes(r, IF Chat(r) /\ Limited(r) THEN "tokens" ELSE "upstream")
  /\ UNCHANGED <<total, slots, counting>>
  /\ RequestsOnly

\* What the tokenizer of the bound deployment says, and what becomes of the policy's
\* priority, by the evidence that the deployment's scheduler knows of priorities.
TokenAnswers    == {"within", "exceeded", "invalid", "unavailable"}
PriorityAnswers == {"stripped", "injected", "refused"}

\* Every refusal releases.
CheckTokens(r) ==
  /\ At(r, "tokens")
  /\ \E answer \in TokenAnswers, priority \in PriorityAnswers :
       Goes(r, IF answer = "within" /\ priority # "refused" THEN "upstream" ELSE "release")
  /\ UNCHANGED counterVars
  /\ RequestsOnly

\* An exception that _enforce_chat_input_token_policy does not list leaves through it:
\* nothing is released.
TokenCheckRaises(r) ==
  /\ At(r, "tokens")
  /\ Fault("exception") /\ Goes(r, "leaked")
  /\ UNCHANGED <<counterVars, dbVars, storeVars, workerVars, edits>>

\* The upstream has answered, or failed: only a stream goes on.
UpstreamAnswers(r) ==
  /\ At(r, "upstream")
  /\ \/ Goes(r, "release")
     \/ req[r].kind = "stream" /\ Goes(r, "streaming")
  /\ UNCHANGED counterVars
  /\ RequestsOnly

\* End of the stream, an error in it, a timeout or a client that went away.
StreamEnds(r) ==
  /\ At(r, "streaming") /\ Goes(r, "release")
  /\ UNCHANGED counterVars
  /\ RequestsOnly

\* The client went away while the request was suspended: asyncio.CancelledError.
AfterCancelBug == [p \in {"bind", "tokens", "upstream"} |-> "release"]
AfterCancel == [p \in {"bind", "tokens", "upstream"} |->
  IF p = "bind" THEN "unreserve" ELSE "release"]
Cancelled(r) ==
  /\ \/ At(r, "limit") /\ Ends(r)
     \/ At(r, "admit") /\ ClientLeft(r)
     \/ req[r].at \in DOMAIN AfterCancel /\ Goes(r, AfterCancel[req[r].at])
  /\ UNCHANGED counterVars
  /\ RequestsOnly

-----------------------------------------------------------------------------
(* Releases: shielded, so a request cannot be cancelled out of them.       *)

\* release of an admission that was never bound.
Unreserve(r) ==
  /\ At(r, "unreserve") /\ ClientLeft(r)
  /\ unbound' = [unbound EXCEPT ![req[r].alias] = Less(@)]
  /\ total' = [total EXCEPT ![req[r].alias] = Less(@)]
  /\ UNCHANGED <<bound, slots, counting>>
  /\ RequestsOnly

\* _release_all: the alias and the deployment, then the client.
Release(r) ==
  /\ At(r, "release") /\ ClientLeft(r)
  /\ bound' = [bound EXCEPT ![req[r].entry] = Less(@)]
  /\ total' = [total EXCEPT ![req[r].alias] = Less(@)]
  /\ UNCHANGED <<unbound, slots, counting>>
  /\ RequestsOnly

ReleaseClient(r) ==
  /\ At(r, "releaseclient") /\ Ends(r)
  /\ slots' = Less(slots)
  /\ UNCHANGED <<total, unbound, bound, counting>>
  /\ RequestsOnly

-----------------------------------------------------------------------------
(* Token counts: a limiter of their own, and no admission.                 *)

AdmitCount(r) ==
  /\ "count" \in Kinds /\ At(r, "new")
  /\ \/ counting >= CountLimit /\ Ends(r) /\ UNCHANGED counting
     \/ /\ counting < CountLimit /\ counting' = counting + 1
        /\ req' = [req EXCEPT ![r] = [Outside("body") EXCEPT !.kind = "count"]]
  /\ UNCHANGED <<total, unbound, bound, slots>>
  /\ RequestsOnly

\* The body is read, in bounds and valid or not; then a fresh snapshot must resolve.
ResolveCount(r) ==
  /\ At(r, "body")
  /\ \/ /\ snap.ready /\ ~snap.lkg /\ \E a \in Aliases : Resolvable(snap.row[a])
        /\ Goes(r, "tokenize")
     \/ Goes(r, "releasecount")
  /\ UNCHANGED counterVars
  /\ RequestsOnly

\* An answer, a failure or a cancellation, at whichever await.
CountEnds(r) ==
  /\ At(r, "tokenize") /\ Goes(r, "releasecount")
  /\ UNCHANGED counterVars
  /\ RequestsOnly

ReleaseCount(r) ==
  /\ At(r, "releasecount") /\ Ends(r)
  /\ counting' = IF counting > 0 THEN counting - 1 ELSE 0
  /\ UNCHANGED <<total, unbound, bound, slots>>
  /\ RequestsOnly

-----------------------------------------------------------------------------
(* The process dies.  The next one loads both snapshots before it serves,  *)
(* or serves without those it could not load.                              *)

Restart ==
  /\ Fault("restart")
  /\ snap' \in {Loaded(ver), NotReady} /\ pol' \in {policy, "absent"}
  /\ load' = [l \in Loaders |-> -1]
  /\ req' = [r \in Requests |-> IF At(r, "new") THEN req[r] ELSE Outside("done")]
  /\ total' = [a \in Aliases |-> 0] /\ unbound' = [a \in Aliases |-> 0]
  /\ bound' = [d \in Deployments |-> 0] /\ slots' = 0 /\ counting' = 0
  /\ UNCHANGED <<dbVars, workerVars, edits>>

-----------------------------------------------------------------------------
(* The worker waits for a drain.  What it is told is one answer of         *)
(* /internal/v1/routes/{alias}/runtime, taken from one snapshot and one    *)
(* state of the counters.                                                  *)

WorkerOnly == UNCHANGED <<req, counterVars, storeVars, policy, boundVars>>

\* Cold switch: the alias is put to DRAINING.
DrainAlias(a) ==
  /\ proof.on = "none" /\ proofs < MaxProofs /\ proofs' = proofs + 1
  /\ row[a].traffic = "SERVING"
  /\ row' = [row EXCEPT ![a].traffic = "DRAINING"] /\ ver' = ver + 1
  /\ proof' = [NoProof EXCEPT !.on = "cold", !.alias = a, !.ver = ver + 1]
  /\ WorkerOnly

\* Hot switch: the alias already routes elsewhere, and no alias routes to Source.
DrainDeployment(a, d) ==
  /\ proof.on = "none" /\ proofs < MaxProofs /\ proofs' = proofs + 1
  /\ row[a].dep # NoDeployment /\ \A b \in Aliases : row[b].dep # d
  /\ proof' = [NoProof EXCEPT !.on = "hot", !.alias = a, !.dep = d, !.ver = ver]
  /\ UNCHANGED <<row, ver>>
  /\ WorkerOnly

Drained ==
  /\ proof.on = "cold"
  /\ snap.row[proof.alias].traffic = "DRAINING" /\ total[proof.alias] = 0

AliasUnboundBug == unbound[proof.alias] = 0
\* The sum over all aliases is zero.
AllUnbound      == \A a \in Aliases : unbound[a] = 0
Retirable ==
  /\ proof.on = "hot"
  /\ snap.row[proof.alias].dep \notin {proof.dep, NoDeployment}
  /\ snap.row[proof.alias].traffic = "SERVING"
  /\ AllUnbound /\ bound[proof.dep] = 0

Observe ==
  /\ ~proof.proven /\ snap.ready /\ snap.ver >= proof.ver
  /\ Drained \/ Retirable
  /\ proof' = [proof EXCEPT !.proven = TRUE]
  /\ UNCHANGED <<row, ver, proofs>>
  /\ WorkerOnly

\* The locks are released: drained or not, the wait is over.
EndProof ==
  /\ proof.on # "none" /\ proof' = NoProof
  /\ UNCHANGED <<row, ver, proofs>>
  /\ WorkerOnly

-----------------------------------------------------------------------------
RequestStep(r) ==
  \/ Arrive(r) \/ RefuseAtOnce(r) \/ AdmitClient(r) \/ Reserve(r) \/ Bind(r) \/ CheckTokens(r)
  \/ UpstreamAnswers(r) \/ StreamEnds(r)
  \/ Unreserve(r) \/ Release(r) \/ ReleaseClient(r)
  \/ AdmitCount(r) \/ ResolveCount(r) \/ CountEnds(r) \/ ReleaseCount(r)

Next ==
  \/ \E a \in Aliases, d \in Deployments : Activate(a, d) \/ DrainDeployment(a, d)
  \/ \E a \in Aliases : Unpublish(a) \/ SetEnabled(a) \/ SetTraffic(a) \/ DrainAlias(a)
  \/ EditPolicy \/ ReloadPolicy \/ Observe \/ EndProof \/ Restart
  \/ \E l \in Loaders : StartReload(l) \/ FinishReload(l) \/ FailReload(l)
  \/ \E r \in Requests : RequestStep(r) \/ TokenCheckRaises(r) \/ Cancelled(r)

Spec == Init /\ [][Next]_vars

-----------------------------------------------------------------------------
(* What holds.                                                             *)

Those(P(_)) == Cardinality({r \in Requests : P(req[r])})

Reserved(q) == q.at \in {"bind", "unreserve"}
Bound(q)    == q.at \in {"tokens", "upstream", "streaming", "release", "leaked"}

\* The counters the worker and the limits read are the requests there are: nothing is
\* counted twice, nothing is missed, and no decrement is swallowed at zero.
CountersAreRequests ==
  /\ \A a \in Aliases :
       /\ total[a] = Those(LAMBDA q : q.alias = a /\ (Reserved(q) \/ Bound(q)))
       /\ unbound[a] = Those(LAMBDA q : q.alias = a /\ Reserved(q))
  /\ \A d \in Deployments : bound[d] = Those(LAMBDA q : q.entry = d /\ Bound(q))
  /\ slots = Those(LAMBDA q : q.slot)
  /\ counting = Those(LAMBDA q : q.at \in {"body", "tokenize", "releasecount"})

\* A snapshot is never replaced by an older one, whoever reloads: the worker that has seen
\* a version applied may rely on it.
RoutesNeverGoBack == [][snap'.ready /\ snap.ready => snap'.ver >= snap.ver]_vars

\* A request is judged by one version of its client's policy: one that was let in under a
\* limit on slots is not sent upstream past the limit on tokens of the same policy, although
\* the policy store reloads in between.
PolicyOfOneMoment ==
  [][\A r \in Requests : req[r].slot /\ Chat(r) /\ At(r, "bind")
       => req'[r].at # "upstream"]_vars

\* The gateway implements what Drain promises: the reports it is read for are true, for an
\* alias and for a deployment, and stay true as long as the worker holds its locks.
Using(q) == q.at \in {"bind", "tokens", "upstream", "streaming"}
Routed(rows) == {a \in Aliases : Resolvable(rows[a])}
OpenBy(rows) == Routed(rows) \cup {rows[a].dep : a \in Routed(rows)}
DrainSpec == INSTANCE Drain WITH
  Resources <- Aliases \cup Deployments,
  open  <- OpenBy(row) \cup OpenBy(snap.row),
  users <- [x \in Aliases \cup Deployments |->
              {r \in Requests : (req[r].alias = x \/ req[r].entry = x) /\ Using(req[r])}],
  idle  <- IF ~proof.proven THEN {}
           ELSE {IF proof.on = "cold" THEN proof.alias ELSE proof.dep}
ImplementsDrain == DrainSpec!Spec
=============================================================================
