---------------------------- MODULE GatewayProofs ---------------------------
(***************************************************************************)
(* Theorems of Gateway, for every number of requests, aliases, deployments *)
(* and loaders: types, counters that are the requests, routes that do not  *)
(* go back, one policy per request, and the refinement of Drain.           *)
(***************************************************************************)
EXTENDS Gateway, FiniteSetTheorems, TLAPS

\* What one request does; the rest of Next is about routes, stores and the worker.
RequestAct(r) == RequestStep(r) \/ TokenCheckRaises(r) \/ Cancelled(r)

-----------------------------------------------------------------------------
(******************************** types ************************************)

\* What a request holds, by the await it is suspended at.
Holding  == {"bind", "unreserve", "tokens", "upstream", "streaming", "release", "leaked"}
Shape(q) ==
  /\ q.slot => q.pin = "limited" /\ q.at \in Holding \cup {"admit", "releaseclient"}
  /\ q.at = "releaseclient" => q.slot
  /\ q.at \in Holding \cup {"limit", "admit"} => q.alias \in Aliases
  /\ q.at = "limit" => q.pin = "limited"
  /\ q.at \in Holding \ {"unreserve"} => q.entry \in Deployments
RequestShape == \A r \in Requests : Shape(req[r])

\* A request that is over or not read yet has its type and holds nothing.
LEMMA OutsideTyped == \A p \in {"new", "done"} : Outside(p) \in Request /\ Shape(Outside(p))
BY GatewayNone DEF Outside, Request, Phases, AllKinds, Shape, Holding

\* A step of a request changes that request only, and keeps its type and shape.
LEMMA RequestMoves ==
  ASSUME StoreType, RequestType, RequestShape, NEW r \in Requests, RequestAct(r)
  PROVE  \E q \in Request : Shape(q) /\ req' = [req EXCEPT ![r] = q]
<1>0. req[r] \in Request /\ Shape(req[r])
  BY DEF RequestType, RequestShape
<1>1. ASSUME Ends(r) PROVE \E q \in Request : Shape(q) /\ req' = [req EXCEPT ![r] = q]
  BY <1>1, OutsideTyped DEF Ends
<1>2. ASSUME NEW p \in Phases, Goes(r, p), Shape([req[r] EXCEPT !.at = p])
      PROVE  \E q \in Request : Shape(q) /\ req' = [req EXCEPT ![r] = q]
  <2>1. [req[r] EXCEPT !.at = p] \in Request
    BY <1>0 DEF Request
  <2>2. req' = [req EXCEPT ![r] = [req[r] EXCEPT !.at = p]]
    BY <1>2 DEF Goes
  <2> QED BY <2>1, <2>2, <1>2
<1>3. ASSUME ClientLeft(r), req[r].at \in Holding \cup {"admit"}
      PROVE  \E q \in Request : Shape(q) /\ req' = [req EXCEPT ![r] = q]
  <2>1. CASE req[r].slot
    <3>1. Goes(r, "releaseclient")
      BY <1>3, <2>1 DEF ClientLeft
    <3>2. Shape([req[r] EXCEPT !.at = "releaseclient"])
      BY <1>0, <2>1 DEF Shape, Request, Holding
    <3> QED BY <3>1, <3>2, <1>2 DEF Phases
  <2>2. CASE ~req[r].slot
    BY <1>3, <1>1, <2>2 DEF ClientLeft
  <2> QED BY <2>1, <2>2
<1>4. CASE Arrive(r)
  <2> DEFINE Read(p, n, k, a) == [Outside(p) EXCEPT !.kind = k, !.alias = a, !.pin = n]
  <2>1. PICK k \in Kinds \ {"count"}, a \in Aliases :
          req' = [req EXCEPT ![r] = Read(IF pol = "limited" THEN "limit" ELSE "admit",
                                         IF pol = "limited" THEN "limited" ELSE "none", k, a)]
    BY <1>4 DEF Arrive
  <2>2. ASSUME NEW p \in {"limit", "admit"}, NEW n \in {"none", "limited"},
               p = "limit" => n = "limited"
        PROVE  Read(p, n, k, a) \in Request /\ Shape(Read(p, n, k, a))
    <3>1. Read(p, n, k, a) \in Request
      BY <2>2, GatewayKinds DEF Outside, Request, Phases, AllKinds
    <3>2. Shape(Read(p, n, k, a))
      BY <2>2 DEF Outside, Shape, Holding
    <3> QED BY <3>1, <3>2
  <2> HIDE DEF Read
  <2> QED BY <2>1, <2>2
<1>5. CASE RefuseAtOnce(r)
  BY <1>5, <1>1 DEF RefuseAtOnce
<1>6. CASE AdmitClient(r)
  <2>1. CASE Ends(r)
    BY <2>1, <1>1
  <2>2. CASE ~Ends(r)
    <3> DEFINE q == [req[r] EXCEPT !.at = "admit", !.slot = TRUE]
    <3>1. req' = [req EXCEPT ![r] = q]
      BY <1>6, <2>2 DEF AdmitClient
    <3>2. q \in Request
      BY <1>0 DEF Request, Phases
    <3>3. Shape(q)
      BY <1>6, <1>0 DEF Shape, Request, Holding, AdmitClient, At
    <3> QED BY <3>1, <3>2, <3>3
  <2> QED BY <2>1, <2>2
<1>7. CASE Reserve(r)
  <2> DEFINE e == snap.row[req[r].alias]
             q == [req[r] EXCEPT !.at = "bind", !.entry = e.dep]
  <2>1. req[r].alias \in Aliases
    BY <1>0, <1>7 DEF Shape, Holding, Reserve, At
  <2>2. CASE snap.ready /\ Resolvable(e)
    <3>1. e.dep \in Deployments
      BY <2>1, <2>2 DEF StoreType, Rows, Resolvable
    <3>2. req' = [req EXCEPT ![r] = q]
      BY <1>7, <2>2 DEF Reserve
    <3>3. q \in Request
      BY <1>0, <3>1 DEF Request, Phases
    <3>4. Shape(q)
      BY <1>0, <1>7, <3>1, <2>1 DEF Shape, Request, Holding, Reserve, At
    <3> QED BY <3>2, <3>3, <3>4
  <2>3. CASE ~(snap.ready /\ Resolvable(e))
    <3>1. Goes(r, "unreserve")
      BY <1>7, <2>3 DEF Reserve
    <3>2. Shape([req[r] EXCEPT !.at = "unreserve"])
      BY <1>0, <1>7, <2>1 DEF Shape, Request, Holding, Reserve, At
    <3> QED BY <3>1, <3>2, <1>2 DEF Phases
  <2> QED BY <2>2, <2>3
<1>8. ASSUME NEW p \in Holding, Goes(r, p), req[r].at \in Holding \ {"unreserve"}
      PROVE  \E q \in Request : Shape(q) /\ req' = [req EXCEPT ![r] = q]
  <2>1. Shape([req[r] EXCEPT !.at = p])
    BY <1>8, <1>0 DEF Shape, Request, Holding
  <2> QED BY <1>8, <1>2, <2>1 DEF Phases, Holding
<1>9. CASE Bind(r) \/ CheckTokens(r) \/ UpstreamAnswers(r) \/ StreamEnds(r) \/ TokenCheckRaises(r)
  <2>1. \E p \in Holding : Goes(r, p)
    BY <1>9, Zenon DEF Bind, CheckTokens, UpstreamAnswers, StreamEnds, TokenCheckRaises, Holding
  <2>2. req[r].at \in Holding \ {"unreserve"}
    BY <1>9 DEF Bind, CheckTokens, UpstreamAnswers, StreamEnds, TokenCheckRaises, Holding, At
  <2> QED BY <2>1, <2>2, <1>8
<1>10. CASE Unreserve(r) \/ Release(r)
  BY <1>10, <1>3 DEF Unreserve, Release, At, Holding
<1>11. CASE ReleaseClient(r) \/ ReleaseCount(r)
  BY <1>11, <1>1 DEF ReleaseClient, ReleaseCount
<1>12. CASE AdmitCount(r)
  <2> DEFINE q == [Outside("body") EXCEPT !.kind = "count"]
  <2>1. q \in Request /\ Shape(q)
    BY DEF Outside, Request, Phases, AllKinds, Shape, Holding
  <2>2. Ends(r) \/ req' = [req EXCEPT ![r] = q]
    BY <1>12 DEF AdmitCount
  <2> QED BY <2>1, <2>2, <1>1
<1>13. CASE ResolveCount(r) \/ CountEnds(r)
  <2>1. \E p \in {"tokenize", "releasecount"} : Goes(r, p)
    BY <1>13 DEF ResolveCount, CountEnds
  <2>2. req[r].at \in {"body", "tokenize"}
    BY <1>13 DEF ResolveCount, CountEnds, At
  <2>3. \A p \in {"tokenize", "releasecount"} : Shape([req[r] EXCEPT !.at = p])
    BY <2>2, <1>0 DEF Shape, Request, Holding
  <2> QED BY <2>1, <2>3, <1>2 DEF Phases
<1>14. CASE Cancelled(r)
  <2>1. CASE At(r, "limit") /\ Ends(r)
    BY <2>1, <1>1
  <2>2. CASE At(r, "admit") /\ ClientLeft(r)
    BY <2>2, <1>3 DEF At
  <2>3. CASE req[r].at \in DOMAIN AfterCancel /\ Goes(r, AfterCancel[req[r].at])
    BY <2>3, <1>8 DEF AfterCancel, Holding
  <2> QED BY <1>14, <2>1, <2>2, <2>3 DEF Cancelled
<1> QED BY <1>4, <1>5, <1>6, <1>7, <1>9, <1>10, <1>11, <1>12, <1>13, <1>14
     DEF RequestAct, RequestStep

\* Every step is one of these: a request, an edit of the routes, a reload, the worker, or
\* the process.
LEMMA Steps ==
  ASSUME [Next]_vars
  PROVE  \/ \E r \in Requests : RequestAct(r)
         \/ \E a \in Aliases, d \in Deployments : Activate(a, d)
         \/ \E a \in Aliases : Unpublish(a)
         \/ \E a \in Aliases : SetEnabled(a)
         \/ \E a \in Aliases : SetTraffic(a)
         \/ EditPolicy \/ ReloadPolicy
         \/ \E l \in Loaders : StartReload(l)
         \/ \E l \in Loaders : FinishReload(l)
         \/ \E l \in Loaders : FailReload(l)
         \/ \E a \in Aliases : DrainAlias(a)
         \/ \E a \in Aliases, d \in Deployments : DrainDeployment(a, d)
         \/ Observe \/ EndProof \/ Restart
         \/ UNCHANGED vars
BY DEF Next, RequestAct

\* Requests and counters change together, by a request or by a new process.
LEMMA RequestSteps ==
  ASSUME [Next]_vars
  PROVE  Restart \/ UNCHANGED <<req, counterVars>> \/ \E r \in Requests : RequestAct(r)
BY Steps DEF vars, Activate, DrainDeployment, Unpublish, SetEnabled, SetTraffic, DrainAlias,
   EditPolicy, ReloadPolicy, Observe, EndProof, StartReload, FinishReload, FailReload, Edit,
   WorkerOnly, StoresOnly

\* Whatever happens, requests keep their type and shape.
LEMMA RequestsKept ==
  ASSUME StoreType, RequestType, RequestShape, [Next]_vars
  PROVE  RequestType' /\ RequestShape'
<1>1. ASSUME NEW r \in Requests, RequestAct(r) PROVE RequestType' /\ RequestShape'
  <2>1. PICK q \in Request : Shape(q) /\ req' = [req EXCEPT ![r] = q]
    BY <1>1, RequestMoves
  <2> QED BY <2>1 DEF RequestType, RequestShape
<1>2. CASE Restart
  BY <1>2, OutsideTyped DEF Restart, RequestType, RequestShape
<1>3. CASE UNCHANGED req
  BY <1>3 DEF RequestType, RequestShape
<1> QED BY <1>1, <1>2, <1>3, RequestSteps

\* What a request leaves alone.
LEMMA RequestLeaves ==
  ASSUME NEW r \in Requests, RequestAct(r)
  PROVE  UNCHANGED <<dbVars, storeVars, workerVars, edits>>
         /\ (faults' = faults \/ Fault("exception"))
<1>1. CASE TokenCheckRaises(r)
  BY <1>1 DEF TokenCheckRaises
<1>2. CASE ~TokenCheckRaises(r)
  <2>1. RequestsOnly
    BY <1>2, Zenon DEF RequestAct, RequestStep, Arrive, RefuseAtOnce, AdmitClient, Reserve, Bind,
       CheckTokens, UpstreamAnswers, StreamEnds, Cancelled, Unreserve, Release, ReleaseClient,
       AdmitCount, ResolveCount, CountEnds, ReleaseCount
  <2> QED BY <2>1 DEF RequestsOnly, boundVars
<1> QED BY <1>1, <1>2

\* The gateway's rows keep their types.
LEMMA DbTyped == ASSUME TypeOK, [Next]_vars PROVE DbType'
<1> USE DEF TypeOK, DbType, Rows
<1>1. ASSUME NEW r \in Requests, RequestAct(r) PROVE DbType'
  BY <1>1, RequestLeaves DEF dbVars
<1>2. ASSUME NEW a \in Aliases, NEW d \in Deployments, Activate(a, d) PROVE DbType'
  BY <1>2 DEF Activate, Edit
<1>3. ASSUME NEW a \in Aliases, Unpublish(a) PROVE DbType'
  BY <1>3 DEF Unpublish, Edit
<1>4. ASSUME NEW a \in Aliases, SetEnabled(a) PROVE DbType'
  <2> DEFINE b == ~row[a].enabled
  <2>1. row' = [row EXCEPT ![a].enabled = b] /\ ver' = ver + 1 /\ policy' = policy
    BY <1>4 DEF SetEnabled, Edit
  <2>2. b \in BOOLEAN
    OBVIOUS
  <2> HIDE DEF b
  <2> QED BY <2>1, <2>2
<1>5. ASSUME NEW a \in Aliases, SetTraffic(a) PROVE DbType'
  BY <1>5 DEF SetTraffic, Edit
<1>6. CASE EditPolicy
  BY <1>6 DEF EditPolicy
<1>7. ASSUME NEW a \in Aliases, DrainAlias(a) PROVE DbType'
  BY <1>7 DEF DrainAlias, WorkerOnly
<1>8. CASE UNCHANGED dbVars
  BY <1>8 DEF dbVars
<1>9. ASSUME NEW l \in Loaders, StartReload(l) \/ FinishReload(l) \/ FailReload(l)
      PROVE  DbType'
  BY <1>9, <1>8 DEF StartReload, FinishReload, FailReload, StoresOnly
<1>10. ASSUME NEW a \in Aliases, NEW d \in Deployments, DrainDeployment(a, d) PROVE DbType'
  BY <1>10 DEF DrainDeployment, WorkerOnly
<1>11. CASE ReloadPolicy \/ Observe \/ EndProof \/ Restart
  BY <1>11, <1>8 DEF ReloadPolicy, Observe, EndProof, Restart, StoresOnly, WorkerOnly, dbVars
<1> QED BY <1>1, <1>2, <1>3, <1>4, <1>5, <1>6, <1>7, <1>8, <1>9, <1>10, <1>11, Steps
     DEF vars

\* The snapshot in memory and the one being loaded keep theirs.
LEMMA StoreTyped == ASSUME TypeOK, [Next]_vars PROVE StoreType'
<1> USE DEF TypeOK, DbType, StoreType
<1>0. \A v \in Nat : Loaded(v) \in [ready : BOOLEAN, ver : Nat, lkg : BOOLEAN, row : Rows]
  BY DEF Loaded
<1>1. CASE UNCHANGED storeVars /\ ver' \in {ver, ver + 1}
  BY <1>1 DEF storeVars
<1>2. ASSUME NEW r \in Requests, RequestAct(r) PROVE StoreType'
  BY <1>2, <1>1, RequestLeaves DEF dbVars
<1>3. ASSUME NEW a \in Aliases, NEW d \in Deployments, Activate(a, d) \/ DrainDeployment(a, d)
      PROVE  StoreType'
  BY <1>3, <1>1 DEF Activate, DrainDeployment, Edit, WorkerOnly
<1>4. ASSUME NEW a \in Aliases, Unpublish(a) \/ SetEnabled(a) \/ SetTraffic(a) \/ DrainAlias(a)
      PROVE  StoreType'
  BY <1>4, <1>1 DEF Unpublish, SetEnabled, SetTraffic, DrainAlias, Edit, WorkerOnly
<1>5. CASE EditPolicy \/ Observe \/ EndProof \/ UNCHANGED vars
  BY <1>5, <1>1 DEF EditPolicy, Observe, EndProof, WorkerOnly, vars, dbVars
<1>6. CASE ReloadPolicy
  BY <1>6 DEF ReloadPolicy, StoresOnly, dbVars
<1>7. ASSUME NEW l \in Loaders, StartReload(l) PROVE StoreType'
  BY <1>7 DEF StartReload, StoresOnly, dbVars
<1>8. ASSUME NEW l \in Loaders, FinishReload(l) PROVE StoreType'
  <2>1. load[l] \in Nat
    BY <1>8 DEF FinishReload
  <2> QED BY <1>8, <2>1, <1>0 DEF FinishReload, StoresOnly, dbVars
<1>9. ASSUME NEW l \in Loaders, FailReload(l) PROVE StoreType'
  BY <1>9 DEF FailReload, StoresOnly, dbVars
<1>10. CASE Restart
  <2>1. NotReady \in [ready : BOOLEAN, ver : Nat, lkg : BOOLEAN, row : Rows]
    BY DEF NotReady, NoRows, Nowhere, Rows
  <2>2. snap' \in [ready : BOOLEAN, ver : Nat, lkg : BOOLEAN, row : Rows]
    BY <1>10, <2>1, <1>0 DEF Restart
  <2> QED BY <1>10, <2>2 DEF Restart, dbVars
<1> QED BY <1>2, <1>3, <1>4, <1>5, <1>6, <1>7, <1>8, <1>9, <1>10, Steps

\* A counter is never taken below zero.
LEMMA LessTyped == \A n \in Nat : Less(n) \in Nat
BY DEF Less

\* Counters stay natural numbers, whatever request moves.
LEMMA CounterTyped == ASSUME TypeOK, RequestShape, [Next]_vars PROVE CounterType'
<1> USE DEF TypeOK, CounterType
<1>1. CASE UNCHANGED counterVars
  BY <1>1 DEF counterVars
<1>2. ASSUME NEW r \in Requests, RequestAct(r) PROVE CounterType'
  <2>1. CASE AdmitClient(r) \/ ReleaseClient(r)
    BY <2>1, LessTyped DEF AdmitClient, ReleaseClient
  <2>2. CASE Reserve(r)
    <3>0. req[r].alias \in Aliases
      BY <2>2 DEF Reserve, At, RequestShape, Shape, Holding
    <3>1. total' \in [Aliases -> Nat]
      BY <2>2, <3>0 DEF Reserve
    <3>2. unbound' \in [Aliases -> Nat]
      BY <2>2, <3>0 DEF Reserve
    <3>3. UNCHANGED <<bound, slots, counting>>
      BY <2>2 DEF Reserve
    <3> QED BY <3>1, <3>2, <3>3
  <2>3. CASE Bind(r)
    <3>0. req[r].entry \in Deployments
      BY <2>3 DEF Bind, At, RequestShape, Shape, Holding
    <3>1. unbound' \in [Aliases -> Nat]
      BY <2>3, LessTyped DEF Bind
    <3>2. bound' \in [Deployments -> Nat]
      BY <2>3, <3>0 DEF Bind
    <3>3. UNCHANGED <<total, slots, counting>>
      BY <2>3 DEF Bind
    <3> QED BY <3>1, <3>2, <3>3
  <2>4. CASE Unreserve(r)
    BY <2>4, LessTyped DEF Unreserve
  <2>5. CASE Release(r)
    BY <2>5, LessTyped DEF Release
  <2>6. CASE AdmitCount(r) \/ ReleaseCount(r)
    <3>1. counting' \in {counting, counting + 1, counting - 1, 0} /\ counting' \in Nat
      BY <2>6 DEF AdmitCount, ReleaseCount
    <3>2. UNCHANGED <<total, unbound, bound, slots>>
      BY <2>6 DEF AdmitCount, ReleaseCount
    <3> QED BY <3>1, <3>2
  <2>7. CASE \/ Arrive(r) \/ RefuseAtOnce(r) \/ CheckTokens(r) \/ UpstreamAnswers(r)
             \/ StreamEnds(r) \/ ResolveCount(r) \/ CountEnds(r) \/ Cancelled(r)
             \/ TokenCheckRaises(r)
    <3>1. UNCHANGED counterVars
      BY <2>7 DEF Arrive, RefuseAtOnce, CheckTokens, UpstreamAnswers, StreamEnds,
         ResolveCount, CountEnds, Cancelled, TokenCheckRaises, counterVars
    <3> QED BY <3>1, <1>1
  <2> QED BY <1>2, <2>1, <2>2, <2>3, <2>4, <2>5, <2>6, <2>7 DEF RequestAct, RequestStep
<1>3. CASE Restart
  BY <1>3 DEF Restart
<1> QED BY <1>1, <1>2, <1>3, RequestSteps

\* The worker's drain keeps its types.
LEMMA ProofTyped == ASSUME TypeOK, [Next]_vars PROVE ProofType' /\ proofs' \in Nat
<1> USE DEF TypeOK, DbType, ProofType, BoundType
<1>1. CASE UNCHANGED workerVars
  BY <1>1 DEF workerVars
<1>2. ASSUME NEW a \in Aliases, DrainAlias(a) PROVE ProofType' /\ proofs' \in Nat
  <2>1. proof' \in [on : {"none", "cold", "hot"}, alias : Aliases \cup {NoAlias},
                   dep : Deployments \cup {NoDeployment}, ver : Nat, proven : BOOLEAN]
    <3>1. ver + 1 \in Nat
      OBVIOUS
    <3>2. PICK v \in Nat : proof' = [NoProof EXCEPT !.on = "cold", !.alias = a, !.ver = v]
      BY <1>2, <3>1, Zenon DEF DrainAlias
    <3> QED BY <3>2 DEF NoProof
  <2>2. proofs' = proofs + 1
    BY <1>2 DEF DrainAlias
  <2> QED BY <2>1, <2>2
<1>3. ASSUME NEW a \in Aliases, NEW d \in Deployments, DrainDeployment(a, d)
      PROVE  ProofType' /\ proofs' \in Nat
  <2>1. proof' \in [on : {"none", "cold", "hot"}, alias : Aliases \cup {NoAlias},
                   dep : Deployments \cup {NoDeployment}, ver : Nat, proven : BOOLEAN]
    BY <1>3 DEF DrainDeployment, NoProof
  <2>2. proofs' = proofs + 1
    BY <1>3 DEF DrainDeployment
  <2> QED BY <2>1, <2>2
<1>4. CASE Observe
  BY <1>4 DEF Observe
<1>5. CASE EndProof
  BY <1>5 DEF EndProof, NoProof
<1>6. \/ UNCHANGED workerVars \/ Observe \/ EndProof
      \/ \E a \in Aliases : DrainAlias(a)
      \/ \E a \in Aliases, d \in Deployments : DrainDeployment(a, d)
  BY Steps, RequestLeaves DEF vars, Activate, Unpublish, SetEnabled, SetTraffic, EditPolicy,
     ReloadPolicy, StartReload, FinishReload, FailReload, Edit, StoresOnly, Restart
<1> QED BY <1>1, <1>2, <1>3, <1>4, <1>5, <1>6

\* Edits are counted and faults stay within their bound.
LEMMA BoundTyped == ASSUME TypeOK, [Next]_vars PROVE edits' \in Nat /\ faults' \in 0 .. MaxFaults
<1> USE GatewayBounds DEF TypeOK, BoundType
<1>1. \/ edits' = edits \/ edits' = edits + 1
  BY Steps, RequestLeaves DEF vars, boundVars, Activate, DrainDeployment, Unpublish, SetEnabled,
     SetTraffic, DrainAlias, EditPolicy, ReloadPolicy, Observe, EndProof, StartReload,
     FinishReload, FailReload, Edit, WorkerOnly, StoresOnly, Restart
<1>2. \/ faults' = faults \/ (faults < MaxFaults /\ faults' = faults + 1)
  BY Steps, RequestLeaves DEF vars, boundVars, Activate, DrainDeployment, Unpublish, SetEnabled,
     SetTraffic, DrainAlias, EditPolicy, ReloadPolicy, Observe, EndProof, StartReload,
     FinishReload, FailReload, Edit, WorkerOnly, StoresOnly, Restart, Fault
<1> QED BY <1>1, <1>2

TypeInv == TypeOK /\ RequestShape

\* The typing holds at the start.
LEMMA TypesAtStart == Init => TypeInv
<1> SUFFICES ASSUME Init PROVE TypeInv
  OBVIOUS
<1>1. DbType
  <2>1. PICK f \in Injection(Aliases, Deployments) :
          row = [a \in Aliases |-> [Nowhere EXCEPT !.dep = f[a]]]
    BY DEF Init
  <2>2. f \in [Aliases -> Deployments]
    BY DEF Injection, IsInjective
  <2> QED BY <2>1, <2>2 DEF Init, DbType, Rows, Nowhere
<1>2. StoreType
  BY <1>1 DEF Init, StoreType, DbType, Loaded
<1>3. RequestType /\ RequestShape
  BY OutsideTyped DEF Init, RequestType, RequestShape
<1>4. CounterType /\ ProofType /\ BoundType
  BY GatewayBounds DEF Init, CounterType, ProofType, BoundType, NoProof
<1> QED BY <1>1, <1>2, <1>3, <1>4 DEF TypeInv, TypeOK

\* Every step preserves it.
LEMMA TypesKept == TypeInv /\ [Next]_vars => TypeInv'
BY DbTyped, StoreTyped, RequestsKept, CounterTyped, ProofTyped, BoundTyped
   DEF TypeInv, TypeOK, BoundType

\* So it holds in every state a run reaches.
LEMMA TypesHold == Spec => []TypeInv
BY TypesAtStart, TypesKept, PTL DEF Spec

\* Every variable of the gateway keeps its type, whatever the bounds.
THEOREM Typing == Spec => []TypeOK
<1>1. TypeInv => TypeOK
  BY DEF TypeInv
<1> QED BY <1>1, TypesHold, PTL

-----------------------------------------------------------------------------
(******************************* counters **********************************)

\* The requests each counter counts.
Admitted(q)  == Reserved(q) \/ Bound(q)
OfAlias(a)   == {q \in Request : q.alias = a /\ Admitted(q)}
UnboundOf(a) == {q \in Request : q.alias = a /\ Reserved(q)}
BoundTo(d)   == {q \in Request : q.entry = d /\ Bound(q)}
Slotted      == {q \in Request : q.slot}
Counted      == {q \in Request : q.at \in {"body", "tokenize", "releasecount"}}
InClass(f, K) == {r \in Requests : f[r] \in K}

CountInv ==
  /\ \A a \in Aliases : /\ total[a] = Cardinality(InClass(req, OfAlias(a)))
                        /\ unbound[a] = Cardinality(InClass(req, UnboundOf(a)))
  /\ \A d \in Deployments : bound[d] = Cardinality(InClass(req, BoundTo(d)))
  /\ slots = Cardinality(InClass(req, Slotted))
  /\ counting = Cardinality(InClass(req, Counted))

\* The checked sum over requests is the size of a set of requests.
LEMMA CountersAreSizes == ASSUME RequestType PROVE CountersAreRequests <=> CountInv
<1>1. \A a \in Aliases :
        /\ InClass(req, OfAlias(a)) = {r \in Requests : req[r].alias = a /\ Admitted(req[r])}
        /\ InClass(req, UnboundOf(a)) = {r \in Requests : req[r].alias = a /\ Reserved(req[r])}
  BY DEF InClass, OfAlias, UnboundOf, RequestType
<1>2. \A d \in Deployments :
        InClass(req, BoundTo(d)) = {r \in Requests : req[r].entry = d /\ Bound(req[r])}
  BY DEF InClass, BoundTo, RequestType
<1>3. /\ InClass(req, Slotted) = {r \in Requests : req[r].slot}
      /\ InClass(req, Counted)
           = {r \in Requests : req[r].at \in {"body", "tokenize", "releasecount"}}
  BY DEF InClass, Slotted, Counted, RequestType
<1> QED BY <1>1, <1>2, <1>3 DEF CountersAreRequests, Those, CountInv, Admitted

\* The size of a set of requests when one of them joins it or leaves it.
Size(n, was, is) == IF is /\ ~was THEN n + 1 ELSE IF was /\ ~is THEN Less(n) ELSE n

\* A set that one request enters or leaves grows or shrinks by one.
LEMMA OneMoves ==
  ASSUME NEW S \in SUBSET Requests, NEW T \in SUBSET Requests, NEW r \in Requests,
         \A s \in Requests \ {r} : s \in S <=> s \in T
  PROVE  Cardinality(T) = IF r \in T /\ r \notin S THEN Cardinality(S) + 1
                          ELSE IF r \in S /\ r \notin T THEN Less(Cardinality(S))
                          ELSE Cardinality(S)
<1>1. IsFiniteSet(S) /\ Cardinality(S) \in Nat
  BY GatewayFinite, FS_Subset, FS_CardinalityType
<1>2. CASE r \in T
  <2>1. T = S \cup {r}
    BY <1>2
  <2> QED BY <1>1, <1>2, <2>1, FS_AddElement
<1>3. CASE r \notin T
  <2>1. T = S \ {r}
    BY <1>3
  <2>2. r \in S => Cardinality(S) # 0
    BY <1>1, FS_EmptySet
  <2>3. Cardinality(T) = IF r \in S THEN Cardinality(S) - 1 ELSE Cardinality(S)
    BY <1>1, <2>1, FS_RemoveElement
  <2>4. r \in S => Less(Cardinality(S)) = Cardinality(S) - 1
    BY <1>1, <2>2 DEF Less
  <2> QED BY <1>3, <2>3, <2>4
<1> QED BY <1>2, <1>3

\* The requests of a class after a step of one request, from what it is before and after.
LEMMA Recount ==
  ASSUME RequestType, NEW r \in Requests, NEW q \in Request, req' = [req EXCEPT ![r] = q],
         NEW K
  PROVE  Cardinality(InClass(req', K)) = Size(Cardinality(InClass(req, K)), req[r] \in K, q \in K)
<1> DEFINE Before == InClass(req, K)
           After  == InClass(req', K)
<1>1. req'[r] = q /\ \A s \in Requests \ {r} : req'[s] = req[s]
  BY DEF RequestType
<1>2. /\ r \in Before <=> req[r] \in K
      /\ r \in After <=> q \in K
      /\ \A s \in Requests \ {r} : s \in Before <=> s \in After
  BY <1>1 DEF InClass
<1>3. Before \in SUBSET Requests /\ After \in SUBSET Requests
  BY DEF InClass
<1> HIDE DEF Before, After
<1>4. Cardinality(After) = IF r \in After /\ r \notin Before THEN Cardinality(Before) + 1
                           ELSE IF r \in Before /\ r \notin After
                                  THEN Less(Cardinality(Before))
                           ELSE Cardinality(Before)
  BY <1>2, <1>3, OneMoves
<1>5. Cardinality(After) = Size(Cardinality(Before), req[r] \in K, q \in K)
  BY <1>2, <1>4 DEF Size
<1> QED BY <1>5 DEF Before, After

\* A request in the same classes before and after is counted the same.
LEMMA SameClasses ==
  ASSUME RequestType, CountInv, NEW r \in Requests, NEW q \in Request,
         req' = [req EXCEPT ![r] = q], UNCHANGED counterVars,
         \A a \in Aliases : /\ q \in OfAlias(a) <=> req[r] \in OfAlias(a)
                            /\ q \in UnboundOf(a) <=> req[r] \in UnboundOf(a),
         \A d \in Deployments : q \in BoundTo(d) <=> req[r] \in BoundTo(d),
         q \in Slotted <=> req[r] \in Slotted, q \in Counted <=> req[r] \in Counted
  PROVE  CountInv'
<1>1. \A K : (q \in K <=> req[r] \in K)
              => Cardinality(InClass(req', K)) = Cardinality(InClass(req, K))
  BY Recount DEF Size
<1> QED BY <1>1 DEF CountInv, counterVars

\* A request that enters or leaves a class is counted in or out of it by the same step.
LEMMA RequestsCounted ==
  ASSUME StoreType, RequestType, CounterType, RequestShape, CountInv, NEW r \in Requests,
         RequestAct(r)
  PROVE  CountInv'
<1>0. req[r] \in Request /\ Shape(req[r])
  BY DEF RequestType, RequestShape
<1>1. PICK q \in Request : Shape(q) /\ req' = [req EXCEPT ![r] = q]
  BY RequestMoves
<1>2. q = req'[r]
  BY <1>1 DEF RequestType
<1>3. \A K : Cardinality(InClass(req', K))
               = Size(Cardinality(InClass(req, K)), req[r] \in K, q \in K)
  BY <1>1, Recount
<1>4. CASE /\ UNCHANGED counterVars
           /\ Admitted(q) <=> Admitted(req[r])
           /\ Reserved(q) <=> Reserved(req[r])
           /\ Admitted(q) => q.alias = req[r].alias /\ q.entry = req[r].entry
           /\ q.slot = req[r].slot
           /\ q \in Counted <=> req[r] \in Counted
  <2>1. \A a \in Aliases : /\ q \in OfAlias(a) <=> req[r] \in OfAlias(a)
                           /\ q \in UnboundOf(a) <=> req[r] \in UnboundOf(a)
    BY <1>0, <1>4 DEF OfAlias, UnboundOf, Admitted
  <2>2. \A d \in Deployments : q \in BoundTo(d) <=> req[r] \in BoundTo(d)
    BY <1>0, <1>4 DEF BoundTo, Admitted, Reserved, Bound
  <2>3. q \in Slotted <=> req[r] \in Slotted
    BY <1>0, <1>4 DEF Slotted
  <2> QED BY <1>1, <1>4, <2>1, <2>2, <2>3, SameClasses
<1>5. CASE Arrive(r)
  <2>1. UNCHANGED counterVars /\ req[r].at = "new"
    BY <1>5 DEF Arrive, At
  <2>2. PICK p \in {"limit", "admit"}, k \in Kinds, a \in Aliases, n \in {"none", "limited"} :
          q = [Outside(p) EXCEPT !.kind = k, !.alias = a, !.pin = n]
    BY <1>5, <1>2 DEF Arrive, RequestType
  <2>3. q.at \in {"limit", "admit"} /\ q.slot = FALSE
    BY <2>2 DEF Outside
  <2>4. req[r].slot = FALSE
    BY <2>1, <1>0 DEF Shape, Holding, Request
  <2> QED BY <2>1, <2>3, <2>4, <1>4, <1>0 DEF Admitted, Reserved, Bound, Counted
<1>6. CASE RefuseAtOnce(r)
  <2>1. UNCHANGED counterVars /\ req[r].at = "new"
    BY <1>6 DEF RefuseAtOnce, At
  <2>2. q.at = "done" /\ q.slot = FALSE
    BY <1>6, <1>2 DEF RefuseAtOnce, Ends, Outside, RequestType
  <2>3. req[r].slot = FALSE
    BY <2>1, <1>0 DEF Shape, Holding, Request
  <2> QED BY <2>1, <2>2, <2>3, <1>4, <1>0 DEF Admitted, Reserved, Bound, Counted
<1>7. CASE ResolveCount(r) \/ CountEnds(r)
  <2>1. UNCHANGED counterVars /\ req[r].at \in {"body", "tokenize"}
    BY <1>7 DEF ResolveCount, CountEnds, At
  <2>2. PICK p \in {"tokenize", "releasecount"} : Goes(r, p)
    BY <1>7 DEF ResolveCount, CountEnds
  <2>3. q = [req[r] EXCEPT !.at = p]
    BY <2>2, <1>2 DEF Goes, RequestType
  <2> QED BY <2>1, <2>3, <1>4, <1>0 DEF Admitted, Reserved, Bound, Counted, Request
<1>8. CASE CheckTokens(r) \/ UpstreamAnswers(r) \/ StreamEnds(r) \/ TokenCheckRaises(r)
  <2>1. UNCHANGED counterVars
    BY <1>8 DEF CheckTokens, UpstreamAnswers, StreamEnds, TokenCheckRaises, counterVars
  <2>2. PICK p \in {"upstream", "release", "leaked", "streaming"} : Goes(r, p)
    BY <1>8, Zenon DEF CheckTokens, UpstreamAnswers, StreamEnds, TokenCheckRaises
  <2>3. q = [req[r] EXCEPT !.at = p]
    BY <2>2, <1>2 DEF Goes, RequestType
  <2>4. req[r].at \in {"tokens", "upstream", "streaming"}
    BY <1>8 DEF CheckTokens, UpstreamAnswers, StreamEnds, TokenCheckRaises, At
  <2> QED BY <2>1, <2>3, <2>4, <1>4, <1>0 DEF Admitted, Reserved, Bound, Counted, Request
<1>9. CASE Cancelled(r)
  <2>0. UNCHANGED counterVars
    BY <1>9 DEF Cancelled
  <2>1. CASE At(r, "limit") /\ Ends(r)
    <3>1. q.at = "done" /\ q.slot = FALSE
      BY <2>1, <1>2 DEF Ends, Outside, RequestType
    <3>2. req[r].at = "limit" /\ req[r].slot = FALSE
      BY <2>1, <1>0 DEF Shape, Holding, Request, At
    <3> QED BY <2>0, <3>1, <3>2, <1>4, <1>0 DEF Admitted, Reserved, Bound, Counted
  <2>2. CASE At(r, "admit") /\ ClientLeft(r)
    <3>1. \/ req[r].slot /\ q = [req[r] EXCEPT !.at = "releaseclient"]
          \/ ~req[r].slot /\ q = Outside("done")
      BY <2>2, <1>2 DEF ClientLeft, Goes, Ends, RequestType
    <3>2. q.at \in {"releaseclient", "done"} /\ q.slot = req[r].slot
      BY <3>1, <1>0 DEF Outside, Request
    <3> QED BY <2>0, <2>2, <3>2, <1>4, <1>0 DEF Admitted, Reserved, Bound, Counted, At
  <2>3. CASE req[r].at \in DOMAIN AfterCancel /\ Goes(r, AfterCancel[req[r].at])
    <3>1. \/ req[r].at = "bind" /\ q = [req[r] EXCEPT !.at = "unreserve"]
          \/ req[r].at \in {"tokens", "upstream"} /\ q = [req[r] EXCEPT !.at = "release"]
      BY <2>3, <1>2 DEF AfterCancel, Goes, RequestType
    <3> QED BY <2>0, <3>1, <1>4, <1>0 DEF Admitted, Reserved, Bound, Counted, Request
  <2> QED BY <1>9, <2>1, <2>2, <2>3 DEF Cancelled
<1>10. CASE AdmitClient(r)
  <2>1. CASE Ends(r) /\ UNCHANGED slots
    <3>1. UNCHANGED counterVars /\ req[r].at = "limit"
      BY <1>10, <2>1 DEF AdmitClient, At, counterVars
    <3>2. q.at = "done" /\ q.slot = FALSE
      BY <2>1, <1>2 DEF Ends, Outside, RequestType
    <3>3. req[r].slot = FALSE
      BY <3>1, <1>0 DEF Shape, Holding, Request
    <3> QED BY <3>1, <3>2, <3>3, <1>4, <1>0 DEF Admitted, Reserved, Bound, Counted
  <2>2. CASE slots' = slots + 1 /\ req' = [req EXCEPT ![r].at = "admit", ![r].slot = TRUE]
    <3>1. q = [req[r] EXCEPT !.at = "admit", !.slot = TRUE] /\ req[r].at = "limit"
      BY <1>10, <2>2, <1>2 DEF RequestType, AdmitClient, At
    <3>2. UNCHANGED <<total, unbound, bound, counting>>
      BY <1>10 DEF AdmitClient
    <3>3. req[r] \notin Slotted /\ q \in Slotted
      BY <3>1, <1>0 DEF Slotted, Shape, Holding, Request
    <3>4. /\ \A a : /\ req[r] \notin OfAlias(a) /\ q \notin OfAlias(a)
                    /\ req[r] \notin UnboundOf(a) /\ q \notin UnboundOf(a)
                    /\ req[r] \notin BoundTo(a) /\ q \notin BoundTo(a)
          /\ req[r] \notin Counted /\ q \notin Counted
      BY <3>1, <1>0 DEF OfAlias, UnboundOf, BoundTo, Counted, Admitted, Reserved, Bound, Request
    <3>5. \A a : /\ Cardinality(InClass(req', OfAlias(a))) = Cardinality(InClass(req, OfAlias(a)))
                 /\ Cardinality(InClass(req', UnboundOf(a)))
                      = Cardinality(InClass(req, UnboundOf(a)))
                 /\ Cardinality(InClass(req', BoundTo(a))) = Cardinality(InClass(req, BoundTo(a)))
      BY <3>4, <1>3 DEF Size
    <3>6. Cardinality(InClass(req', Counted)) = Cardinality(InClass(req, Counted))
      BY <3>4, <1>3 DEF Size
    <3>7. Cardinality(InClass(req', Slotted)) = Cardinality(InClass(req, Slotted)) + 1
      BY <3>3, <1>3 DEF Size
    <3> QED BY <2>2, <3>2, <3>5, <3>6, <3>7 DEF CountInv
  <2> QED BY <1>10, <2>1, <2>2 DEF AdmitClient
<1>11. CASE Reserve(r)
  <2>1. /\ q.at \in {"bind", "unreserve"} /\ q.alias = req[r].alias
        /\ q.slot = req[r].slot /\ req[r].at = "admit"
    <3>1. \/ q = [req[r] EXCEPT !.at = "bind", !.entry = snap.row[req[r].alias].dep]
          \/ q = [req[r] EXCEPT !.at = "unreserve"]
      BY <1>11, <1>2 DEF Reserve, Goes, RequestType
    <3> QED BY <3>1, <1>11, <1>0 DEF Request, Reserve, At
  <2>2. UNCHANGED <<bound, slots, counting>>
    BY <1>11 DEF Reserve
  <2>3. /\ \A a : /\ req[r] \notin OfAlias(a) /\ (q \in OfAlias(a) <=> a = req[r].alias)
                  /\ req[r] \notin UnboundOf(a) /\ (q \in UnboundOf(a) <=> a = req[r].alias)
                  /\ req[r] \notin BoundTo(a) /\ q \notin BoundTo(a)
        /\ req[r] \notin Counted /\ q \notin Counted
        /\ req[r] \in Slotted <=> q \in Slotted
    BY <2>1, <1>0 DEF OfAlias, UnboundOf, BoundTo, Counted, Slotted, Admitted, Reserved, Bound
  <2>4. \A a \in Aliases : /\ total'[a] = IF a = req[r].alias THEN total[a] + 1 ELSE total[a]
                           /\ unbound'[a] = IF a = req[r].alias THEN unbound[a] + 1 ELSE unbound[a]
    BY <1>11 DEF Reserve, CounterType
  <2> QED BY <2>2, <2>3, <2>4, <1>3 DEF CountInv, Size
<1>12. CASE Bind(r)
  <2>1. /\ q.at \in {"tokens", "upstream"} /\ q.alias = req[r].alias /\ q.entry = req[r].entry
        /\ q.slot = req[r].slot /\ req[r].at = "bind"
    <3>1. \E p \in {"tokens", "upstream"} : q = [req[r] EXCEPT !.at = p]
      BY <1>12, <1>2 DEF Bind, Goes, RequestType
    <3> QED BY <3>1, <1>12, <1>0 DEF Request, Bind, At
  <2>2. UNCHANGED <<total, slots, counting>>
    BY <1>12 DEF Bind
  <2>3. /\ \A a : /\ req[r] \in OfAlias(a) <=> q \in OfAlias(a)
                  /\ q \notin UnboundOf(a) /\ (req[r] \in UnboundOf(a) <=> a = req[r].alias)
                  /\ req[r] \notin BoundTo(a) /\ (q \in BoundTo(a) <=> a = req[r].entry)
        /\ req[r] \notin Counted /\ q \notin Counted
        /\ req[r] \in Slotted <=> q \in Slotted
    BY <2>1, <1>0 DEF OfAlias, UnboundOf, BoundTo, Counted, Slotted, Admitted, Reserved, Bound
  <2>4. \A a \in Aliases : unbound'[a] = IF a = req[r].alias THEN Less(unbound[a]) ELSE unbound[a]
    BY <1>12 DEF Bind, CounterType
  <2>5. \A d \in Deployments : bound'[d] = IF d = req[r].entry THEN bound[d] + 1 ELSE bound[d]
    BY <1>12 DEF Bind, CounterType
  <2> QED BY <2>2, <2>3, <2>4, <2>5, <1>3 DEF CountInv, Size
<1>13. ASSUME ClientLeft(r), req[r].at \in {"unreserve", "release"}
       PROVE  /\ q.at \in {"done", "releaseclient"}
              /\ \A a : q \notin OfAlias(a) /\ q \notin UnboundOf(a) /\ q \notin BoundTo(a)
              /\ req[r] \notin Counted /\ q \notin Counted
              /\ req[r] \in Slotted <=> q \in Slotted
  <2>1. \/ req[r].slot /\ q = [req[r] EXCEPT !.at = "releaseclient"]
        \/ ~req[r].slot /\ q = Outside("done")
    BY <1>13, <1>2 DEF ClientLeft, Goes, Ends, RequestType
  <2>2. q.at \in {"done", "releaseclient"} /\ q.slot = req[r].slot
    BY <2>1, <1>0 DEF Outside, Request
  <2> QED BY <1>13, <2>2, <1>0
       DEF OfAlias, UnboundOf, BoundTo, Counted, Slotted, Admitted, Reserved, Bound
<1>14. CASE Unreserve(r)
  <2>1. ClientLeft(r) /\ req[r].at = "unreserve" /\ UNCHANGED <<bound, slots, counting>>
    BY <1>14 DEF Unreserve, At
  <2>2. \A a : /\ req[r] \in OfAlias(a) <=> a = req[r].alias
               /\ req[r] \in UnboundOf(a) <=> a = req[r].alias
               /\ req[r] \notin BoundTo(a)
    BY <2>1, <1>0 DEF OfAlias, UnboundOf, BoundTo, Admitted, Reserved, Bound
  <2>3. \A a \in Aliases :
          /\ total'[a] = IF a = req[r].alias THEN Less(total[a]) ELSE total[a]
          /\ unbound'[a] = IF a = req[r].alias THEN Less(unbound[a]) ELSE unbound[a]
    BY <1>14 DEF Unreserve, CounterType
  <2>4. /\ \A a : q \notin OfAlias(a) /\ q \notin UnboundOf(a) /\ q \notin BoundTo(a)
        /\ req[r] \notin Counted /\ q \notin Counted
        /\ req[r] \in Slotted <=> q \in Slotted
    BY <2>1, <1>13
  <2>5. \A a \in Aliases : total'[a] = Cardinality(InClass(req', OfAlias(a)))
    BY <2>2, <2>3, <2>4, <1>3 DEF CountInv, Size
  <2>6. \A a \in Aliases : unbound'[a] = Cardinality(InClass(req', UnboundOf(a)))
    BY <2>1, <2>2, <2>3, <2>4, <1>3 DEF CountInv, Size
  <2>7. \A d \in Deployments : bound'[d] = Cardinality(InClass(req', BoundTo(d)))
    BY <2>1, <2>2, <2>3, <2>4, <1>3 DEF CountInv, Size
  <2>8. /\ slots' = Cardinality(InClass(req', Slotted))
        /\ counting' = Cardinality(InClass(req', Counted))
    BY <2>1, <2>4, <1>3 DEF CountInv, Size
  <2> QED BY <2>5, <2>6, <2>7, <2>8 DEF CountInv
<1>15. CASE Release(r)
  <2>1. ClientLeft(r) /\ req[r].at = "release" /\ UNCHANGED <<unbound, slots, counting>>
    BY <1>15 DEF Release, At
  <2>2. \A a : /\ req[r] \in OfAlias(a) <=> a = req[r].alias
               /\ req[r] \notin UnboundOf(a)
               /\ req[r] \in BoundTo(a) <=> a = req[r].entry
    BY <2>1, <1>0 DEF OfAlias, UnboundOf, BoundTo, Admitted, Reserved, Bound
  <2>3. /\ \A a \in Aliases : total'[a] = IF a = req[r].alias THEN Less(total[a]) ELSE total[a]
        /\ \A d \in Deployments : bound'[d] = IF d = req[r].entry THEN Less(bound[d]) ELSE bound[d]
    BY <1>15 DEF Release, CounterType
  <2>4. /\ \A a : q \notin OfAlias(a) /\ q \notin UnboundOf(a) /\ q \notin BoundTo(a)
        /\ req[r] \notin Counted /\ q \notin Counted
        /\ req[r] \in Slotted <=> q \in Slotted
    BY <2>1, <1>13
  <2>5. \A a \in Aliases : total'[a] = Cardinality(InClass(req', OfAlias(a)))
    BY <2>2, <2>3, <2>4, <1>3 DEF CountInv, Size
  <2>6. \A a \in Aliases : unbound'[a] = Cardinality(InClass(req', UnboundOf(a)))
    BY <2>1, <2>2, <2>3, <2>4, <1>3 DEF CountInv, Size
  <2>7. \A d \in Deployments : bound'[d] = Cardinality(InClass(req', BoundTo(d)))
    BY <2>1, <2>2, <2>3, <2>4, <1>3 DEF CountInv, Size
  <2>8. /\ slots' = Cardinality(InClass(req', Slotted))
        /\ counting' = Cardinality(InClass(req', Counted))
    BY <2>1, <2>4, <1>3 DEF CountInv, Size
  <2> QED BY <2>5, <2>6, <2>7, <2>8 DEF CountInv
<1>16. CASE ReleaseClient(r) \/ ReleaseCount(r)
  <2>1. q = Outside("done") /\ req[r].at \in {"releaseclient", "releasecount"}
    BY <1>16, <1>2 DEF ReleaseClient, ReleaseCount, Ends, RequestType, At
  <2>2. /\ \A a : /\ req[r] \notin OfAlias(a) /\ q \notin OfAlias(a)
                  /\ req[r] \notin UnboundOf(a) /\ q \notin UnboundOf(a)
                  /\ req[r] \notin BoundTo(a) /\ q \notin BoundTo(a)
        /\ q \notin Slotted /\ q \notin Counted
    BY <2>1, <1>0
       DEF OfAlias, UnboundOf, BoundTo, Counted, Slotted, Admitted, Reserved, Bound, Outside
  <2>3. CASE ReleaseClient(r)
    <3>1. req[r] \in Slotted /\ req[r] \notin Counted
      BY <2>3, <1>0 DEF ReleaseClient, At, Slotted, Counted, Shape
    <3>2. slots' = Less(slots) /\ UNCHANGED <<total, unbound, bound, counting>>
      BY <2>3 DEF ReleaseClient
    <3> QED BY <2>2, <3>1, <3>2, <1>3 DEF CountInv, Size
  <2>4. CASE ReleaseCount(r)
    <3>1. req[r] \notin Slotted /\ req[r] \in Counted
      BY <2>4, <1>0 DEF ReleaseCount, At, Slotted, Counted, Shape, Holding
    <3>2. counting' = Less(counting) /\ UNCHANGED <<total, unbound, bound, slots>>
      BY <2>4 DEF ReleaseCount, Less, CounterType
    <3> QED BY <2>2, <3>1, <3>2, <1>3 DEF CountInv, Size
  <2> QED BY <1>16, <2>3, <2>4
<1>17. CASE AdmitCount(r)
  <2>1. CASE Ends(r) /\ UNCHANGED counting
    <3>1. UNCHANGED counterVars /\ req[r].at = "new"
      BY <1>17, <2>1 DEF AdmitCount, At, counterVars
    <3>2. q.at = "done" /\ q.slot = FALSE
      BY <2>1, <1>2 DEF Ends, Outside, RequestType
    <3>3. req[r].slot = FALSE
      BY <3>1, <1>0 DEF Shape, Holding, Request
    <3> QED BY <3>1, <3>2, <3>3, <1>4, <1>0 DEF Admitted, Reserved, Bound, Counted
  <2>2. CASE /\ counting' = counting + 1
             /\ req' = [req EXCEPT ![r] = [Outside("body") EXCEPT !.kind = "count"]]
    <3>1. q = [Outside("body") EXCEPT !.kind = "count"] /\ req[r].at = "new"
      BY <1>17, <2>2, <1>2 DEF RequestType, AdmitCount, At
    <3>2. UNCHANGED <<total, unbound, bound, slots>>
      BY <1>17 DEF AdmitCount
    <3>3. req[r] \notin Slotted /\ q \notin Slotted
      BY <3>1, <1>0 DEF Slotted, Shape, Holding, Request, Outside
    <3>4. /\ \A a : /\ req[r] \notin OfAlias(a) /\ q \notin OfAlias(a)
                    /\ req[r] \notin UnboundOf(a) /\ q \notin UnboundOf(a)
                    /\ req[r] \notin BoundTo(a) /\ q \notin BoundTo(a)
          /\ req[r] \notin Counted /\ q \in Counted
      BY <3>1, <1>0
         DEF OfAlias, UnboundOf, BoundTo, Counted, Admitted, Reserved, Bound, Outside
    <3> QED BY <2>2, <3>2, <3>3, <3>4, <1>3 DEF CountInv, Size
  <2> QED BY <1>17, <2>1, <2>2 DEF AdmitCount
<1> QED BY <1>5, <1>6, <1>7, <1>8, <1>9, <1>10, <1>11, <1>12, <1>14, <1>15, <1>16, <1>17
     DEF RequestAct, RequestStep

\* No request is inside at the start, and every counter is zero.
LEMMA CountsAtStart == ASSUME Init PROVE CountInv
<1>1. \A r \in Requests : req[r] = Outside("new")
  BY DEF Init
<1>2. /\ \A a : InClass(req, OfAlias(a)) = {} /\ InClass(req, UnboundOf(a)) = {}
              /\ InClass(req, BoundTo(a)) = {}
      /\ InClass(req, Slotted) = {} /\ InClass(req, Counted) = {}
  BY <1>1 DEF InClass, OfAlias, UnboundOf, BoundTo, Slotted, Counted, Admitted, Reserved, Bound,
     Outside
<1> QED BY <1>2, FS_EmptySet DEF Init, CountInv

\* Every step preserves the counts.
LEMMA CountsKept ==
  ASSUME TypeInv, CountInv, [Next]_vars
  PROVE  CountInv'
<1> USE DEF TypeInv, TypeOK
<1>1. CASE UNCHANGED <<req, counterVars>>
  BY <1>1 DEF CountInv, counterVars
<1>2. CASE Restart
  <2>1. \A r \in Requests : req'[r] \in {Outside("new"), Outside("done")} \/ req'[r].at = "new"
    BY <1>2 DEF Restart, At
  <2>2. \A r \in Requests : Shape(req'[r]) /\ req'[r] \in Request
    BY RequestsKept DEF RequestShape, RequestType
  <2>3. \A r \in Requests : req'[r].at \in {"new", "done"} /\ req'[r].slot = FALSE
    BY <2>1, <2>2 DEF Outside, Shape, Holding, Request
  <2>4. /\ \A a : /\ InClass(req', OfAlias(a)) = {} /\ InClass(req', UnboundOf(a)) = {}
                  /\ InClass(req', BoundTo(a)) = {}
        /\ InClass(req', Slotted) = {} /\ InClass(req', Counted) = {}
    BY <2>3
       DEF InClass, OfAlias, UnboundOf, BoundTo, Slotted, Counted, Admitted, Reserved, Bound
  <2> QED BY <1>2, <2>4, FS_EmptySet DEF Restart, CountInv
<1> QED BY <1>1, <1>2, RequestSteps, RequestsCounted

\* The counters of the gateway are the requests it carries, whatever number of them is
\* admitted, bound, cancelled, refused or broken, in whatever order.
THEOREM CountersTrue == Spec => []CountersAreRequests
<1>1. Init => TypeInv /\ CountInv
  BY TypesAtStart, CountsAtStart
<1>2. TypeInv /\ CountInv /\ [Next]_vars => (TypeInv /\ CountInv)'
  BY TypesKept, CountsKept
<1>3. TypeInv /\ CountInv => CountersAreRequests
  BY CountersAreSizes DEF TypeInv, TypeOK
<1> QED BY <1>1, <1>2, <1>3, PTL DEF Spec

-----------------------------------------------------------------------------
(******************************** reloads **********************************)

\* One reload at a time, and it has read a version that is no older than the snapshot's.
ReloadInv ==
  /\ snap.ver <= ver
  /\ \A l \in Loaders : load[l] # -1 => snap.ver <= load[l]
  /\ \A l, m \in Loaders : load[l] # -1 /\ load[m] # -1 => l = m

\* One reload at a time is what the store's lock gives, so no snapshot is overtaken.
LEMMA ReloadsKept == ASSUME TypeInv, ReloadInv, [Next]_vars PROVE ReloadInv'
<1> USE DEF TypeInv, TypeOK, DbType, StoreType, ReloadInv
<1>1. CASE UNCHANGED <<snap, load>> /\ ver' \in {ver, ver + 1}
  BY <1>1
<1>2. ASSUME NEW r \in Requests, RequestAct(r) PROVE ReloadInv'
  BY <1>2, <1>1, RequestLeaves DEF storeVars, dbVars
<1>3. ASSUME NEW a \in Aliases, NEW d \in Deployments, Activate(a, d) \/ DrainDeployment(a, d)
      PROVE  ReloadInv'
  BY <1>3, <1>1 DEF Activate, DrainDeployment, Edit, WorkerOnly, storeVars
<1>4. ASSUME NEW a \in Aliases, Unpublish(a) \/ SetEnabled(a) \/ SetTraffic(a) \/ DrainAlias(a)
      PROVE  ReloadInv'
  BY <1>4, <1>1 DEF Unpublish, SetEnabled, SetTraffic, DrainAlias, Edit, WorkerOnly, storeVars
<1>5. CASE EditPolicy \/ Observe \/ EndProof \/ UNCHANGED vars
  BY <1>5, <1>1 DEF EditPolicy, Observe, EndProof, WorkerOnly, storeVars, vars, dbVars
<1>6. CASE ReloadPolicy
  BY <1>6 DEF ReloadPolicy, StoresOnly, dbVars
<1>7. ASSUME NEW l \in Loaders, StartReload(l) PROVE ReloadInv'
  BY <1>7 DEF StartReload, LockFree, StoresOnly, dbVars
<1>8. ASSUME NEW l \in Loaders, FinishReload(l) PROVE ReloadInv'
  <2>1. snap'.ver = load[l] /\ load[l] <= ver /\ ver' = ver
    BY <1>8 DEF FinishReload, StoresOnly, dbVars, Loaded
  <2>2. \A m \in Loaders : load'[m] = -1
    BY <1>8 DEF FinishReload
  <2> QED BY <2>1, <2>2
<1>9. ASSUME NEW l \in Loaders, FailReload(l) PROVE ReloadInv'
  BY <1>9 DEF FailReload, StoresOnly, dbVars
<1>10. CASE Restart
  BY <1>10 DEF Restart, dbVars, Loaded, NotReady
<1> QED BY <1>2, <1>3, <1>4, <1>5, <1>6, <1>7, <1>8, <1>9, <1>10, Steps

\* So it does in every state a run reaches.
LEMMA ReloadsHold == Spec => [](TypeInv /\ ReloadInv)
<1>1. Init => ReloadInv
  BY DEF Init, ReloadInv, Loaded
<1> QED BY <1>1, TypesAtStart, TypesKept, ReloadsKept, PTL DEF Spec

\* What a step may do to the snapshot.
LEMMA SnapshotSteps ==
  ASSUME [Next]_vars
  PROVE  \/ snap' = snap
         \/ \E l \in Loaders : load[l] # -1 /\ snap' = Loaded(load[l])
         \/ snap' = [snap EXCEPT !.lkg = snap.ready]
         \/ snap' \in {Loaded(ver), NotReady} /\ Restart
BY Steps, RequestLeaves DEF vars, storeVars, Activate, DrainDeployment, Unpublish, SetEnabled,
   SetTraffic, DrainAlias, EditPolicy, ReloadPolicy, Observe, EndProof, StartReload, FinishReload,
   FailReload, Edit, WorkerOnly, StoresOnly, Restart

\* A snapshot is never replaced by an older one, by whatever loaders and failures.
THEOREM NewerSnapshots == Spec => RoutesNeverGoBack
<1>1. ASSUME TypeInv, ReloadInv, [Next]_vars, snap'.ready, snap.ready
      PROVE  snap'.ver >= snap.ver
  BY <1>1, SnapshotSteps DEF TypeInv, TypeOK, DbType, StoreType, ReloadInv, Loaded, NotReady
<1> QED BY <1>1, ReloadsHold, PTL DEF Spec, RoutesNeverGoBack

\* A chat request that holds a slot goes through the limit on tokens of the same policy.
THEOREM OnePolicy == Spec => PolicyOfOneMoment
<1>1. ASSUME TypeInv, [Next]_vars, NEW r \in Requests, req[r].slot, Chat(r), At(r, "bind")
      PROVE  req'[r].at # "upstream"
  <2>1. req[r].at = "bind" /\ Limited(r)
    BY <1>1 DEF TypeInv, RequestShape, Shape, Limited, At
  <2>2. ASSUME NEW s \in Requests, RequestAct(s) PROVE req'[r].at # "upstream"
    <3>1. CASE s # r
      BY <2>1, <2>2, <3>1, RequestMoves, <1>1 DEF TypeInv, TypeOK, RequestType
    <3>2. CASE s = r
      <4>1. Bind(r) \/ Cancelled(r)
        BY <2>1, <2>2, <3>2 DEF RequestAct, RequestStep, Arrive, RefuseAtOnce, AdmitClient,
           Reserve, CheckTokens, TokenCheckRaises, UpstreamAnswers, StreamEnds, Unreserve,
           Release, ReleaseClient, AdmitCount, ResolveCount, CountEnds, ReleaseCount, At
      <4>2. Goes(r, "tokens") \/ Goes(r, "unreserve")
        BY <4>1, <2>1, <1>1 DEF Bind, Cancelled, AfterCancel, At
      <4> QED BY <4>2, <1>1 DEF Goes, TypeInv, TypeOK, RequestType, Request
    <3> QED BY <3>1, <3>2
  <2>3. CASE Restart
    BY <2>3, <2>1, <1>1 DEF Restart, Outside, At
  <2>4. CASE UNCHANGED req
    BY <2>4, <2>1
  <2> QED BY <1>1, <2>2, <2>3, <2>4, RequestSteps
<1>2. TypeInv /\ [Next]_vars
        => [\A r \in Requests : req[r].slot /\ Chat(r) /\ At(r, "bind")
              => req'[r].at # "upstream"]_vars
  BY <1>1
<1> QED BY <1>2, TypesHold, PTL DEF Spec, PolicyOfOneMoment

-----------------------------------------------------------------------------
(***************************** the drain promise ***************************)

\* A snapshot of the current version has the current rows; a process without a snapshot has
\* no rows.
SnapshotInv ==
  /\ snap.ready /\ snap.ver = ver => snap.row = row
  /\ ~snap.ready => snap.row = NoRows

\* What is waited for is out of the routes of the database, and of every snapshot that has
\* reached the version the worker noted.
Fresh    == snap.ready /\ snap.ver >= proof.ver
WaitInv ==
  /\ proof.on = "none" => ~proof.proven
  /\ proof.on # "none" => proof.ver <= ver /\ proof.alias \in Aliases
  /\ proof.on = "cold" =>
       /\ row[proof.alias].traffic = "DRAINING"
       /\ Fresh => snap.row[proof.alias].traffic = "DRAINING"
  /\ proof.on = "hot" =>
       /\ proof.dep \in Deployments
       /\ \A b \in Aliases : row[b].dep # proof.dep
       /\ Fresh => \A b \in Aliases : snap.row[b].dep # proof.dep

\* Once the report was made, no older routes can come back, and no request uses the resource.
Target    == IF proof.on = "cold" THEN proof.alias ELSE proof.dep
Uses(q, x) == (q.alias = x \/ q.entry = x) /\ Using(q)
ProvenInv ==
  proof.proven => /\ snap.ready => snap.ver >= proof.ver
                  /\ \A l \in Loaders : load[l] # -1 => load[l] >= proof.ver
                  /\ \A r \in Requests : ~Uses(req[r], Target)

\* Every step keeps a snapshot of the current version showing the current rows.
LEMMA SnapshotKept == ASSUME TypeInv, ReloadInv, SnapshotInv, [Next]_vars PROVE SnapshotInv'
<1> USE DEF TypeInv, TypeOK, DbType, StoreType, ReloadInv, SnapshotInv
<1>1. CASE UNCHANGED snap /\ (ver' = ver + 1 \/ UNCHANGED <<row, ver>>)
  BY <1>1
<1>2. ASSUME NEW r \in Requests, RequestAct(r) PROVE SnapshotInv'
  BY <1>2, <1>1, RequestLeaves DEF storeVars, dbVars
<1>3. ASSUME NEW a \in Aliases, NEW d \in Deployments, Activate(a, d) \/ DrainDeployment(a, d)
      PROVE  SnapshotInv'
  BY <1>3, <1>1 DEF Activate, DrainDeployment, Edit, WorkerOnly, storeVars
<1>4. ASSUME NEW a \in Aliases, Unpublish(a) \/ SetEnabled(a) \/ SetTraffic(a) \/ DrainAlias(a)
      PROVE  SnapshotInv'
  BY <1>4, <1>1 DEF Unpublish, SetEnabled, SetTraffic, DrainAlias, Edit, WorkerOnly, storeVars
<1>5. CASE EditPolicy \/ Observe \/ EndProof \/ UNCHANGED vars
  BY <1>5, <1>1 DEF EditPolicy, Observe, EndProof, WorkerOnly, storeVars, vars, dbVars
<1>6. CASE ReloadPolicy \/ \E l \in Loaders : StartReload(l)
  BY <1>6, <1>1 DEF ReloadPolicy, StartReload, StoresOnly, dbVars
<1>7. ASSUME NEW l \in Loaders, FinishReload(l) PROVE SnapshotInv'
  BY <1>7 DEF FinishReload, StoresOnly, dbVars, Loaded
<1>8. ASSUME NEW l \in Loaders, FailReload(l) PROVE SnapshotInv'
  BY <1>8 DEF FailReload, StoresOnly, dbVars
<1>9. CASE Restart
  BY <1>9 DEF Restart, dbVars, Loaded, NotReady
<1> QED BY <1>2, <1>3, <1>4, <1>5, <1>6, <1>7, <1>8, <1>9, Steps

\* A snapshot at the row's version shows the row.
LEMMA SnapshotOfNow ==
  ASSUME TypeInv, ReloadInv, SnapshotInv
  PROVE  snap.ready /\ snap.ver >= ver => snap.row = row
<1>1. snap.ver \in Nat /\ ver \in Nat
  BY DEF TypeInv, TypeOK, DbType, StoreType
<1>2. snap.ver >= ver => snap.ver = ver
  BY <1>1 DEF ReloadInv
<1> QED BY <1>2 DEF SnapshotInv

\* A wait that goes on keeps what it is for: edits stay away from the locked rows, and a
\* reload reads the rows of now.
LEMMA WaitKept ==
  ASSUME TypeInv, ReloadInv, SnapshotInv, WaitInv, [Next]_vars
  PROVE  WaitInv'
<1> USE DEF TypeInv, TypeOK, DbType, StoreType, ProofType, Rows
<1>1. CASE /\ UNCHANGED <<proof, row, ver>>
           /\ snap' = snap \/ snap' = [snap EXCEPT !.lkg = snap.ready]
  <2>1. /\ snap'.ready = snap.ready /\ snap'.ver = snap.ver /\ snap'.row = snap.row
        /\ proof' = proof /\ row' = row /\ ver' = ver
    BY <1>1
  <2> QED BY <2>1 DEF WaitInv, Fresh
<1>2. ASSUME NEW r \in Requests, RequestAct(r) PROVE WaitInv'
  BY <1>2, <1>1, RequestLeaves DEF storeVars, dbVars, workerVars
<1>3. ASSUME NEW a \in Aliases, NEW d \in Deployments, Activate(a, d) PROVE WaitInv'
  <2>1. /\ a \notin LockedAliases /\ d \notin LockedDeployments /\ ver' = ver + 1
        /\ row' = [row EXCEPT ![a].dep = d] /\ UNCHANGED <<snap, proof>>
    BY <1>3 DEF Activate, Edit, storeVars, workerVars
  <2> QED BY <2>1 DEF WaitInv, Fresh, LockedAliases, LockedDeployments
<1>4. ASSUME NEW a \in Aliases, Unpublish(a) PROVE WaitInv'
  <2>1. /\ a \notin LockedAliases /\ ver' = ver + 1
        /\ row' = [row EXCEPT ![a].dep = NoDeployment] /\ UNCHANGED <<snap, proof>>
    BY <1>4 DEF Unpublish, Edit, storeVars, workerVars
  <2> QED BY <2>1, GatewayNone DEF WaitInv, Fresh, LockedAliases
<1>5. ASSUME NEW a \in Aliases, SetEnabled(a) PROVE WaitInv'
  <2>1. /\ ver' = ver + 1 /\ row' \in [Aliases -> [dep : Deployments \cup {NoDeployment},
             enabled : BOOLEAN, traffic : {"SERVING", "DRAINING", "MAINTENANCE"}]]
        /\ UNCHANGED <<snap, proof>>
    BY <1>5, DbTyped DEF SetEnabled, Edit, storeVars, workerVars
  <2>2. \A b \in Aliases : row'[b].dep = row[b].dep /\ row'[b].traffic = row[b].traffic
    BY <1>5 DEF SetEnabled
  <2> QED BY <2>1, <2>2 DEF WaitInv, Fresh
<1>6. ASSUME NEW a \in Aliases, SetTraffic(a) PROVE WaitInv'
  <2>1. PICK t : row' = [row EXCEPT ![a].traffic = t]
    BY <1>6 DEF SetTraffic
  <2>2. a \notin LockedAliases /\ ver' = ver + 1 /\ UNCHANGED <<snap, proof>>
    BY <1>6 DEF SetTraffic, Edit, storeVars, workerVars
  <2> QED BY <2>1, <2>2 DEF WaitInv, Fresh, LockedAliases
<1>7. CASE EditPolicy \/ UNCHANGED vars
  BY <1>7, <1>1 DEF EditPolicy, storeVars, workerVars, vars, dbVars
<1>8. CASE ReloadPolicy \/ \E l \in Loaders : StartReload(l) \/ FailReload(l)
  BY <1>8, <1>1 DEF ReloadPolicy, StartReload, FailReload, StoresOnly, dbVars, workerVars
<1>9. ASSUME NEW v \in Nat, snap' = Loaded(v), UNCHANGED <<proof, row, ver>> PROVE WaitInv'
  BY <1>9 DEF WaitInv, Fresh, Loaded
<1>10. ASSUME NEW l \in Loaders, FinishReload(l) PROVE WaitInv'
  <2>1. load[l] \in Nat
    BY <1>10 DEF FinishReload
  <2> QED BY <1>10, <2>1, <1>9 DEF FinishReload, StoresOnly, dbVars, workerVars
<1>11. CASE Restart
  <2>1. CASE snap' = NotReady
    BY <1>11, <2>1 DEF Restart, dbVars, workerVars, NotReady, WaitInv, Fresh
  <2> QED BY <1>11, <2>1, <1>9 DEF Restart, dbVars, workerVars
<1>12. ASSUME NEW a \in Aliases, DrainAlias(a) PROVE WaitInv'
  <2>1. /\ ver' = ver + 1 /\ row' = [row EXCEPT ![a].traffic = "DRAINING"] /\ snap' = snap
        /\ proof'.on = "cold" /\ proof'.alias = a /\ proof'.ver = ver'
    BY <1>12 DEF DrainAlias, WorkerOnly, storeVars, NoProof
  <2> QED BY <2>1 DEF WaitInv, Fresh, ReloadInv
<1>13. ASSUME NEW a \in Aliases, NEW d \in Deployments, DrainDeployment(a, d) PROVE WaitInv'
  <2>1. /\ UNCHANGED <<row, ver, snap>> /\ \A b \in Aliases : row[b].dep # d
        /\ proof'.on = "hot" /\ proof'.alias = a /\ proof'.dep = d /\ proof'.ver = ver
    BY <1>13 DEF DrainDeployment, WorkerOnly, storeVars, NoProof
  <2>2. snap.ready /\ snap.ver >= ver => snap.row = row
    BY SnapshotOfNow
  <2>3. (Fresh => \A b \in Aliases : snap.row[b].dep # proof.dep)'
    BY <2>1, <2>2 DEF Fresh
  <2> QED BY <2>1, <2>3 DEF WaitInv
<1>14. CASE Observe
  <2>1. UNCHANGED <<row, ver, snap>> /\ proof' = [proof EXCEPT !.proven = TRUE]
        /\ proof.on # "none"
    BY <1>14 DEF Observe, WorkerOnly, storeVars, Drained, Retirable
  <2> QED BY <2>1 DEF WaitInv, Fresh
<1>15. CASE EndProof
  BY <1>15 DEF EndProof, NoProof, WaitInv
<1> QED BY <1>2, <1>3, <1>4, <1>5, <1>6, <1>7, <1>8, <1>10, <1>11, <1>12, <1>13, <1>14, <1>15,
     Steps

-----------------------------------------------------------------------------
\* What the refinement mapping says: resources that routes may hand out, and their users.
Open      == OpenBy(row) \cup OpenBy(snap.row)
Resources == Aliases \cup Deployments
UsersOf(f) == [x \in Resources |-> {r \in Requests : Uses(f[r], x)}]
Idle      == IF ~proof.proven THEN {} ELSE {Target}

\* What is waited for is not open in a fresh snapshot.
LEMMA TargetShut ==
  ASSUME TypeInv, WaitInv, proof.on # "none", snap.ready => Fresh, ~snap.ready => snap.row = NoRows
  PROVE  Target \in Resources /\ Target \notin Open
<1> USE DEF TypeInv, TypeOK, DbType, StoreType, ProofType, Rows
<1>1. /\ Target \in Resources
      /\ Target \in Aliases => proof.on = "cold" /\ Target = proof.alias
      /\ Target \in Deployments => proof.on = "hot" /\ Target = proof.dep
  BY GatewayResources DEF WaitInv, Target, Resources
<1>2. ASSUME NEW f \in [Aliases -> [dep : Deployments \cup {NoDeployment}, enabled : BOOLEAN,
                                   traffic : {"SERVING", "DRAINING", "MAINTENANCE"}]],
             Target \in Aliases => f[Target].traffic # "SERVING",
             Target \in Deployments => \A b \in Aliases : f[b].dep # Target
      PROVE  Target \notin OpenBy(f)
  BY <1>1, <1>2, GatewayResources DEF OpenBy, Routed, Resolvable, Resources
<1>3. Target \notin OpenBy(row)
  BY <1>1, <1>2 DEF WaitInv
<1>4. CASE Fresh
  <2>1. Target \notin OpenBy(snap.row)
    BY <1>1, <1>2, <1>4 DEF WaitInv
  <2> QED BY <1>1, <1>3, <2>1 DEF Open
<1>5. CASE snap.row = NoRows
  <2>1. OpenBy(snap.row) = {}
    BY <1>5 DEF NoRows, Nowhere, OpenBy, Routed, Resolvable
  <2> QED BY <1>1, <1>3, <2>1 DEF Open
<1> QED BY <1>4, <1>5

\* How a step of a request changes what it uses: it goes on, it starts with what the routes
\* of the snapshot give it, or it uses nothing any more.
LEMMA UseSteps ==
  ASSUME TypeInv, NEW r \in Requests, RequestAct(r)
  PROVE  \/ /\ Using(req[r]) /\ Using(req'[r])
            /\ req'[r].alias = req[r].alias /\ req'[r].entry = req[r].entry
         \/ ~Using(req'[r])
         \/ /\ ~Using(req[r]) /\ Using(req'[r])
            /\ req'[r].alias \in Aliases /\ Resolvable(snap.row[req'[r].alias])
            /\ req'[r].entry = snap.row[req'[r].alias].dep
<1> DEFINE q == req'[r]
<1>0. req[r] \in Request /\ Shape(req[r])
  BY DEF TypeInv, TypeOK, RequestType, RequestShape
<1>1. ASSUME NEW p, Goes(r, p)
      PROVE  q.at = p /\ q.alias = req[r].alias /\ q.entry = req[r].entry
  BY <1>0, <1>1 DEF Goes, TypeInv, TypeOK, RequestType, Request
<1>2. ASSUME Ends(r) PROVE ~Using(q)
  BY <1>2 DEF Ends, Outside, Using, TypeInv, TypeOK, RequestType
<1>3. ASSUME ClientLeft(r) PROVE ~Using(q)
  BY <1>1, <1>2, <1>3 DEF ClientLeft, Using
<1>4. CASE Bind(r) \/ CheckTokens(r) \/ UpstreamAnswers(r) \/ StreamEnds(r)
  <2>1. Using(req[r])
    BY <1>4 DEF Bind, CheckTokens, UpstreamAnswers, StreamEnds, At, Using
  <2>2. \E p : Goes(r, p)
    BY <1>4, Zenon DEF Bind, CheckTokens, UpstreamAnswers, StreamEnds
  <2> QED BY <2>1, <2>2, <1>1
<1>5. CASE Reserve(r)
  <2>1. req[r].alias \in Aliases /\ ~Using(req[r])
    BY <1>0, <1>5 DEF Reserve, At, Shape, Holding, Using
  <2>2. CASE snap.ready /\ Resolvable(snap.row[req[r].alias])
    <3>1. /\ q.alias = req[r].alias /\ q.entry = snap.row[req[r].alias].dep /\ q.at = "bind"
      BY <1>0, <1>5, <2>2 DEF Reserve, TypeInv, TypeOK, RequestType, Request
    <3> QED BY <2>1, <2>2, <3>1 DEF Using
  <2>3. CASE ~(snap.ready /\ Resolvable(snap.row[req[r].alias]))
    BY <1>5, <2>3, <1>1 DEF Reserve, Using
  <2> QED BY <2>2, <2>3
<1>6. CASE TokenCheckRaises(r) \/ ResolveCount(r) \/ CountEnds(r)
  <2>1. \E p \in {"leaked", "tokenize", "releasecount"} : Goes(r, p)
    BY <1>6, Zenon DEF TokenCheckRaises, ResolveCount, CountEnds
  <2> QED BY <2>1, <1>1 DEF Using
<1>7. CASE RefuseAtOnce(r) \/ Unreserve(r) \/ Release(r) \/ ReleaseClient(r) \/ ReleaseCount(r)
  BY <1>7, <1>2, <1>3 DEF RefuseAtOnce, Unreserve, Release, ReleaseClient, ReleaseCount
<1>8. CASE Cancelled(r)
  <2>1. CASE req[r].at \in DOMAIN AfterCancel /\ Goes(r, AfterCancel[req[r].at])
    <3>1. Goes(r, "unreserve") \/ Goes(r, "release")
      BY <2>1 DEF AfterCancel
    <3> QED BY <3>1, <1>1 DEF Using
  <2> QED BY <1>8, <2>1, <1>2, <1>3 DEF Cancelled
<1>9. CASE AdmitClient(r) \/ AdmitCount(r)
  <2>1. Ends(r) \/ q.at \in {"admit", "body"}
    BY <1>0, <1>9 DEF AdmitClient, AdmitCount, Outside, TypeInv, TypeOK, RequestType, Request
  <2> QED BY <2>1, <1>2 DEF Using
<1>10. CASE Arrive(r)
  <2>1. \E p \in {"limit", "admit"}, k \in Kinds, a \in Aliases, n \in {"none", "limited"} :
          q = [Outside(p) EXCEPT !.kind = k, !.alias = a, !.pin = n]
    BY <1>10 DEF Arrive, TypeInv, TypeOK, RequestType
  <2> QED BY <2>1 DEF Outside, Using
<1> QED BY <1>4, <1>5, <1>6, <1>7, <1>8, <1>9, <1>10 DEF RequestAct, RequestStep

\* A counter at zero counts nobody.
LEMMA NobodyCounted ==
  ASSUME NEW K, Cardinality(InClass(req, K)) = 0
  PROVE  \A r \in Requests : req[r] \notin K
<1>1. IsFiniteSet(InClass(req, K))
  BY GatewayFinite, FS_Subset DEF InClass
<1>2. InClass(req, K) = {}
  BY <1>1, FS_EmptySet
<1> QED BY <1>2 DEF InClass

\* So what is observed means that the resource has no user.
LEMMA ReportIsTrue ==
  ASSUME TypeInv, CountInv, WaitInv, Drained \/ Retirable
  PROVE  \A r \in Requests : ~Uses(req[r], Target)
<1> SUFFICES ASSUME NEW r \in Requests, Uses(req[r], Target) PROVE FALSE
  OBVIOUS
<1>1. req[r] \in Request /\ req[r].alias \in Aliases /\ req[r].entry \in Deployments
  BY DEF TypeInv, TypeOK, RequestType, RequestShape, Shape, Uses, Using, Holding
<1>2. CASE Drained
  <2>1. Target = proof.alias /\ proof.alias \in Aliases /\ total[proof.alias] = 0
    BY <1>2 DEF Drained, Target, WaitInv
  <2>2. req[r] \notin OfAlias(proof.alias)
    BY <2>1, NobodyCounted DEF CountInv
  <2>3. req[r].alias = proof.alias
    BY <1>1, <2>1, GatewayResources DEF Uses
  <2> QED BY <1>1, <2>2, <2>3 DEF Uses, Using, OfAlias, Admitted, Reserved, Bound
<1>3. CASE Retirable
  <2>1. /\ Target = proof.dep /\ proof.dep \in Deployments /\ bound[proof.dep] = 0
        /\ unbound[req[r].alias] = 0
    BY <1>1, <1>3 DEF Retirable, Target, WaitInv, AllUnbound
  <2>2. req[r] \notin BoundTo(proof.dep) /\ req[r] \notin UnboundOf(req[r].alias)
    BY <1>1, <2>1, NobodyCounted DEF CountInv
  <2>3. req[r].entry = proof.dep
    BY <1>1, <2>1, GatewayResources DEF Uses
  <2> QED BY <1>1, <2>2, <2>3 DEF Uses, Using, BoundTo, UnboundOf, Reserved, Bound
<1> QED BY <1>2, <1>3

\* What the worker has read of a drain stays true until it acts on it.
LEMMA ProvenKept ==
  ASSUME TypeInv, ReloadInv, SnapshotInv, CountInv, WaitInv, ProvenInv, [Next]_vars
  PROVE  ProvenInv'
<1> USE DEF TypeInv, TypeOK, DbType, StoreType, ProofType
<1>0. proof.proven => Target \in Resources /\ Target \notin Open
  BY TargetShut DEF WaitInv, ProvenInv, SnapshotInv, Fresh
<1>1. ASSUME NEW r \in Requests, RequestAct(r), proof.proven PROVE ProvenInv'
  <2>1. UNCHANGED <<proof, snap, load>>
    BY <1>1, RequestLeaves DEF storeVars, workerVars
  <2>2. ASSUME NEW s \in Requests PROVE ~Uses(req'[s], Target)
    <3>1. CASE s # r
      BY <3>1, <1>1, RequestMoves DEF ProvenInv, RequestType
    <3>2. CASE s = r
      <4>1. ASSUME req'[r].alias \in Aliases, Resolvable(snap.row[req'[r].alias]),
                   req'[r].entry = snap.row[req'[r].alias].dep
            PROVE  req'[r].alias \in Open /\ req'[r].entry \in Open
        BY <4>1 DEF Open, OpenBy, Routed
      <4> QED BY <3>2, <4>1, <1>0, <1>1, UseSteps DEF ProvenInv, Uses
    <3> QED BY <3>1, <3>2
  <2> QED BY <2>1, <2>2 DEF ProvenInv, Target
<1>2. CASE UNCHANGED <<proof, snap, load, req>>
  BY <1>2 DEF ProvenInv, Target
<1>3. CASE UNCHANGED <<proof, req>> /\ proof.proven
           /\ \E l \in Loaders : StartReload(l) \/ FinishReload(l) \/ FailReload(l)
  <2>1. snap'.ready => snap'.ver >= proof.ver
    BY <1>3 DEF StartReload, FinishReload, FailReload, Loaded, ProvenInv
  <2>2. \A l \in Loaders : load'[l] # -1 => load'[l] >= proof.ver
    BY <1>3 DEF StartReload, FinishReload, FailReload, ProvenInv, WaitInv
  <2> QED BY <1>3, <2>1, <2>2 DEF ProvenInv, Target
<1>4. CASE Restart /\ proof.proven
  <2>1. proof' = proof /\ snap' \in {Loaded(ver), NotReady} /\ \A l \in Loaders : load'[l] = -1
    BY <1>4 DEF Restart, workerVars
  <2>2. \A r \in Requests : ~Using(req'[r])
    BY <1>4 DEF Restart, Outside, Using, At
  <2> QED BY <1>4, <2>1, <2>2 DEF ProvenInv, Target, Uses, Loaded, NotReady, WaitInv
<1>5. CASE ~proof'.proven
  BY <1>5 DEF ProvenInv
<1>6. CASE Observe
  <2>1. /\ snap.ready /\ snap.ver >= proof.ver /\ UNCHANGED <<snap, load, req>>
        /\ proof' = [proof EXCEPT !.proven = TRUE] /\ (Drained \/ Retirable)
    BY <1>6 DEF Observe, WorkerOnly, storeVars
  <2>2. \A l \in Loaders : load[l] # -1 => load[l] >= proof.ver
    BY <2>1 DEF ReloadInv
  <2>3. Target' = Target /\ proof'.ver = proof.ver
    BY <2>1 DEF Target
  <2>4. \A r \in Requests : ~Uses(req[r], Target)
    BY <2>1, ReportIsTrue
  <2> QED BY <2>1, <2>2, <2>3, <2>4 DEF ProvenInv
<1>7. ASSUME NEW a \in Aliases, DrainAlias(a) \/ \E d \in Deployments : DrainDeployment(a, d)
      PROVE  ~proof'.proven
  BY <1>7 DEF DrainAlias, DrainDeployment, NoProof
<1>8. CASE EndProof
  BY <1>8, <1>5 DEF EndProof, NoProof
<1>9. ASSUME NEW a \in Aliases, \/ Unpublish(a) \/ SetEnabled(a) \/ SetTraffic(a)
                               \/ \E d \in Deployments : Activate(a, d)
      PROVE  UNCHANGED <<proof, snap, load, req>>
  BY <1>9 DEF Unpublish, SetEnabled, SetTraffic, Activate, Edit, workerVars, storeVars
<1>10. CASE EditPolicy \/ ReloadPolicy \/ UNCHANGED vars
  BY <1>10, <1>2 DEF EditPolicy, ReloadPolicy, StoresOnly, workerVars, storeVars, vars
<1>11. CASE /\ ~proof.proven
            /\ \/ \E r \in Requests : RequestAct(r)
               \/ \E l \in Loaders : StartReload(l) \/ FinishReload(l) \/ FailReload(l)
               \/ Restart
  <2>1. UNCHANGED proof
    BY <1>11, RequestLeaves DEF StartReload, FinishReload, FailReload, StoresOnly, Restart,
       workerVars
  <2> QED BY <1>11, <2>1, <1>5
<1>12. ASSUME NEW l \in Loaders, StartReload(l) \/ FinishReload(l) \/ FailReload(l)
       PROVE  UNCHANGED <<proof, req>>
  BY <1>12 DEF StartReload, FinishReload, FailReload, StoresOnly, workerVars
<1> QED BY <1>1, <1>2, <1>3, <1>4, <1>5, <1>6, <1>7, <1>8, <1>9, <1>10, <1>11, <1>12, Steps

DrainInv == TypeInv /\ ReloadInv /\ SnapshotInv /\ CountInv /\ WaitInv /\ ProvenInv

\* The parts of DrainInv hold together, in every state a run reaches.
LEMMA DrainInvHolds == Spec => []DrainInv
<1>1. Init => ReloadInv /\ SnapshotInv
  BY DEF Init, ReloadInv, SnapshotInv, Loaded
<1>2. Init => WaitInv /\ ProvenInv
  BY DEF Init, WaitInv, ProvenInv, NoProof
<1>3. DrainInv /\ [Next]_vars => DrainInv'
  BY TypesKept, ReloadsKept, SnapshotKept, CountsKept, WaitKept, ProvenKept DEF DrainInv
<1>4. Init => DrainInv
  BY <1>1, <1>2, TypesAtStart, CountsAtStart DEF DrainInv
<1> QED BY <1>3, <1>4, PTL DEF Spec

\* The abstract steps, in the names used here.
LEMMA Mapping ==
  /\ DrainSpec!Init <=> /\ Open \in SUBSET Resources /\ Idle = {}
                        /\ UsersOf(req) = [x \in Resources |-> {}]
  /\ Open' \in SUBSET (Resources \ Idle) /\ UsersOf(req') = UsersOf(req) /\ Idle' = Idle
       => DrainSpec!Next
  /\ Idle' \in SUBSET Idle /\ Open' = Open /\ UsersOf(req') = UsersOf(req) => DrainSpec!Next
  /\ \A r \in Requests, X \in SUBSET Open :
       /\ \A x \in Resources : r \notin UsersOf(req)[x]
       /\ UsersOf(req') = [x \in Resources |-> IF x \in X THEN UsersOf(req)[x] \cup {r}
                                                        ELSE UsersOf(req)[x]]
       /\ Open' = Open /\ Idle' = Idle
       => DrainSpec!Next
  /\ \A R \in SUBSET Requests :
       /\ UsersOf(req') = [x \in Resources |-> UsersOf(req)[x] \ R]
       /\ Open' \in SUBSET Open /\ Idle' = Idle
       => DrainSpec!Next
  /\ \A x \in Resources :
       /\ x \notin Open /\ UsersOf(req)[x] = {} /\ Idle' = Idle \cup {x}
       /\ Open' = Open /\ UsersOf(req') = UsersOf(req)
       => DrainSpec!Next
<1> USE DEF Open, Resources, UsersOf, Uses, Idle, Target
<1>1. DrainSpec!Init <=> /\ Open \in SUBSET Resources /\ Idle = {}
                         /\ UsersOf(req) = [x \in Resources |-> {}]
  BY DEF DrainSpec!Init
<1>2. Open' \in SUBSET (Resources \ Idle) /\ UsersOf(req') = UsersOf(req) /\ Idle' = Idle
        => DrainSpec!Reroute
  BY DEF DrainSpec!Reroute
<1>3. Idle' \in SUBSET Idle /\ Open' = Open /\ UsersOf(req') = UsersOf(req) => DrainSpec!LetGo
  BY DEF DrainSpec!LetGo
<1>4. ASSUME NEW r \in Requests, NEW X \in SUBSET Open,
             \A x \in Resources : r \notin UsersOf(req)[x],
             UsersOf(req') = [x \in Resources |-> IF x \in X THEN UsersOf(req)[x] \cup {r}
                                                             ELSE UsersOf(req)[x]],
             Open' = Open, Idle' = Idle
      PROVE  DrainSpec!Start(r)
  <2>1. /\ \A x \in Resources : r \notin UsersOf(req)[x]
        /\ \E Y \in SUBSET Open :
             UsersOf(req') = [x \in Resources |-> IF x \in Y THEN UsersOf(req)[x] \cup {r}
                                                             ELSE UsersOf(req)[x]]
        /\ Open' = Open /\ Idle' = Idle
    BY <1>4, Zenon
  <2> QED BY <2>1, Zenon DEF DrainSpec!Start
<1>5. ASSUME NEW R \in SUBSET Requests,
             UsersOf(req') = [x \in Resources |-> UsersOf(req)[x] \ R],
             Open' \in SUBSET Open, Idle' = Idle
      PROVE  DrainSpec!End(R)
  BY <1>5 DEF DrainSpec!End
<1>6. ASSUME NEW x \in Resources,
             x \notin Open, UsersOf(req)[x] = {}, Idle' = Idle \cup {x},
             Open' = Open, UsersOf(req') = UsersOf(req)
      PROVE  DrainSpec!Report(x)
  BY <1>6 DEF DrainSpec!Report
<1> USE DEF DrainSpec!Next
<1>7. DrainSpec!Reroute \/ DrainSpec!LetGo => DrainSpec!Next
  OBVIOUS
<1>8. ASSUME NEW r \in Requests, DrainSpec!Start(r) PROVE DrainSpec!Next
  BY <1>8
<1>9. ASSUME NEW R \in SUBSET Requests, DrainSpec!End(R) PROVE DrainSpec!Next
  BY <1>9
<1>10. ASSUME NEW x \in Resources, DrainSpec!Report(x) PROVE DrainSpec!Next
  BY <1>10 DEF Resources
<1> HIDE DEF Open, Resources, UsersOf, Uses, Idle, Target, DrainSpec!Next
<1>11. \A r \in Requests, X \in SUBSET Open :
         /\ \A x \in Resources : r \notin UsersOf(req)[x]
         /\ UsersOf(req') = [x \in Resources |-> IF x \in X THEN UsersOf(req)[x] \cup {r}
                                                          ELSE UsersOf(req)[x]]
         /\ Open' = Open /\ Idle' = Idle
         => DrainSpec!Next
  BY <1>4, <1>8, Zenon
<1>12. \A R \in SUBSET Requests :
         /\ UsersOf(req') = [x \in Resources |-> UsersOf(req)[x] \ R]
         /\ Open' \in SUBSET Open /\ Idle' = Idle
         => DrainSpec!Next
  BY <1>5, <1>9, Zenon
<1>13. \A x \in Resources :
         /\ x \notin Open /\ UsersOf(req)[x] = {} /\ Idle' = Idle \cup {x}
         /\ Open' = Open /\ UsersOf(req') = UsersOf(req)
         => DrainSpec!Next
  BY <1>6, <1>10, Zenon
<1> QED BY <1>1, <1>2, <1>3, <1>7, <1>11, <1>12, <1>13, Zenon

\* What the worker was told is idle is shut while it holds its locks.
Shut == Open \subseteq Resources \ Idle

\* What the worker was told is idle is no longer open: the abstract specification's invariant.
LEMMA DrainedIsShut == DrainInv => Shut
<1> SUFFICES ASSUME DrainInv PROVE Shut
  OBVIOUS
<1>1. ASSUME NEW f \in Rows PROVE OpenBy(f) \subseteq Resources
  BY <1>1 DEF Rows, OpenBy, Routed, Resolvable, Resources
<1>2. Open \subseteq Resources
  BY <1>1 DEF Open, DrainInv, TypeInv, TypeOK, DbType, StoreType
<1>3. CASE proof.proven
  <2>1. proof.on # "none" /\ (snap.ready => Fresh) /\ (~snap.ready => snap.row = NoRows)
    BY <1>3 DEF DrainInv, WaitInv, ProvenInv, SnapshotInv, Fresh
  <2>2. Target \notin Open
    BY <2>1, TargetShut DEF DrainInv
  <2> QED BY <1>2, <2>2 DEF Shut, Idle
<1> QED BY <1>2, <1>3 DEF Shut, Idle

\* Steps of routes and stores reroute, whatever they do.
LEMMA Reroutes == ASSUME Shut', UNCHANGED <<req, proof>> PROVE DrainSpec!Next
<1>1. Idle' = Idle /\ UsersOf(req') = UsersOf(req)
  BY DEF Idle, Target, UsersOf
<1>2. Open' \in SUBSET (Resources \ Idle)
  BY <1>1 DEF Shut, Resources
<1> QED BY <1>1, <1>2, Mapping

\* A step of a request starts its use of what is open, ends it, or leaves it as it is.
LEMMA RequestRefines ==
  ASSUME TypeInv, NEW r \in Requests, RequestAct(r)
  PROVE  DrainSpec!Next
<1>1. Open' = Open /\ Idle' = Idle
  BY RequestLeaves DEF dbVars, storeVars, workerVars, Open, Idle, Target
<1>2. \A s \in Requests : s # r => req'[s] = req[s]
  BY RequestMoves DEF TypeInv, TypeOK, RequestType
<1>3. CASE ~Using(req'[r])
  <2>1. PICK R \in SUBSET Requests : R = {r}
    OBVIOUS
  <2>2. UsersOf(req') = [x \in Resources |-> UsersOf(req)[x] \ R]
    BY <1>2, <1>3, <2>1 DEF UsersOf, Uses
  <2> QED BY <1>1, <2>2, Mapping
<1>4. CASE /\ Using(req[r]) /\ Using(req'[r])
           /\ req'[r].alias = req[r].alias /\ req'[r].entry = req[r].entry
  <2>1. UsersOf(req') = [x \in Resources |-> UsersOf(req)[x] \ {}]
    BY <1>2, <1>4 DEF UsersOf, Uses
  <2> QED BY <1>1, <2>1, Mapping
<1>5. CASE /\ ~Using(req[r]) /\ Using(req'[r])
           /\ req'[r].alias \in Aliases /\ Resolvable(snap.row[req'[r].alias])
           /\ req'[r].entry = snap.row[req'[r].alias].dep
  <2> DEFINE X == {req'[r].alias, req'[r].entry}
  <2>1. X \in SUBSET Open
    BY <1>5 DEF Open, OpenBy, Routed
  <2>2. \A x \in Resources : r \notin UsersOf(req)[x]
    BY <1>5 DEF UsersOf, Uses
  <2>3. UsersOf(req') = [x \in Resources |-> IF x \in X THEN UsersOf(req)[x] \cup {r}
                                                       ELSE UsersOf(req)[x]]
    BY <1>2, <1>5 DEF UsersOf, Uses
  <2> QED BY <1>1, <2>1, <2>2, <2>3, Mapping
<1> QED BY <1>3, <1>4, <1>5, UseSteps

\* The gateway keeps the promise of Drain: what its counters and its snapshot say together
\* is true when it is said, for an alias and for a deployment, and no reload, edit, failed
\* load or restart undoes it while the worker holds its locks.
THEOREM DrainRefined == Spec => ImplementsDrain
<1>1. ASSUME Init PROVE DrainSpec!Init
  <2>1. Open = OpenBy(row)
    BY <1>1 DEF Init, Loaded, Open
  <2>2. \A a \in Aliases : row[a].dep \in Deployments
    BY <1>1 DEF Init, Injection, Nowhere
  <2>3. Open \in SUBSET Resources /\ Idle = {}
    BY <1>1, <2>1, <2>2 DEF Init, OpenBy, Routed, Resources, Idle, NoProof
  <2>4. UsersOf(req) = [x \in Resources |-> {}]
    BY <1>1 DEF Init, UsersOf, Uses, Using, Outside
  <2> QED BY <2>3, <2>4, Mapping
<1>2. ASSUME DrainInv, Shut, Shut', [Next]_vars PROVE [DrainSpec!Next]_(DrainSpec!vars)
  <2>1. ASSUME NEW r \in Requests, RequestAct(r) PROVE DrainSpec!Next
    BY <1>2, <2>1, RequestRefines DEF DrainInv
  <2>2. CASE UNCHANGED <<req, proof>>
    BY <1>2, <2>2, Reroutes
  <2>3. ASSUME NEW a \in Aliases, DrainAlias(a) \/ \E d \in Deployments : DrainDeployment(a, d)
        PROVE  DrainSpec!Next
    <3>1. Idle' = {} /\ Idle = {} /\ UNCHANGED req
      BY <1>2, <2>3 DEF DrainAlias, DrainDeployment, WorkerOnly, NoProof, DrainInv, WaitInv, Idle
    <3>2. UsersOf(req') = UsersOf(req) /\ Open' \in SUBSET (Resources \ Idle)
      BY <1>2, <3>1 DEF UsersOf, Shut, Resources
    <3> QED BY <3>1, <3>2, Mapping
  <2>4. CASE Observe
    <3>1. /\ ~proof.proven /\ proof' = [proof EXCEPT !.proven = TRUE] /\ proof.on # "none"
          /\ UNCHANGED <<req, row, snap>> /\ (Drained \/ Retirable) /\ Fresh
      BY <2>4 DEF Observe, WorkerOnly, storeVars, Drained, Retirable, Fresh
    <3>2. Idle = {} /\ Idle' = {Target}
      BY <1>2, <3>1 DEF Idle, Target, DrainInv, TypeInv, TypeOK, ProofType
    <3>3. Target \in Resources /\ Target \notin Open
      BY <1>2, <3>1, TargetShut DEF DrainInv, Fresh
    <3>4. UsersOf(req)[Target] = {}
      BY <1>2, <3>1, <3>3, ReportIsTrue DEF DrainInv, UsersOf
    <3>5. Open' = Open /\ UsersOf(req') = UsersOf(req)
      BY <3>1 DEF Open, UsersOf
    <3> QED BY <3>2, <3>3, <3>4, <3>5, Mapping
  <2>5. CASE EndProof
    <3>1. Idle' = {} /\ UNCHANGED <<req, row, snap>>
      BY <2>5 DEF EndProof, WorkerOnly, storeVars, NoProof, Idle
    <3>2. Open' = Open /\ UsersOf(req') = UsersOf(req)
      BY <3>1 DEF Open, UsersOf
    <3> QED BY <3>1, <3>2, Mapping
  <2>6. CASE Restart
    <3>1. /\ UNCHANGED <<proof, row>> /\ (snap' = Loaded(ver) \/ snap' = NotReady)
          /\ \A r \in Requests : ~Using(req'[r])
      BY <2>6 DEF Restart, dbVars, workerVars, Outside, Using, At
    <3>2. Idle' = Idle
      BY <3>1 DEF Idle, Target
    <3>3. OpenBy(NoRows) = {}
      BY DEF NoRows, Nowhere, OpenBy, Routed, Resolvable
    <3>4. snap'.row = row \/ snap'.row = NoRows
      BY <3>1 DEF Loaded, NotReady
    <3>5. Open' \in SUBSET Open
      BY <3>1, <3>3, <3>4 DEF Open
    <3>6. UsersOf(req') = [x \in Resources |-> UsersOf(req)[x] \ Requests]
      BY <3>1 DEF UsersOf, Uses
    <3> QED BY <3>2, <3>5, <3>6, Mapping
  <2>7. ASSUME NEW a \in Aliases, \/ Unpublish(a) \/ SetEnabled(a) \/ SetTraffic(a)
                                 \/ \E d \in Deployments : Activate(a, d)
        PROVE  UNCHANGED <<req, proof>>
    BY <2>7 DEF Unpublish, SetEnabled, SetTraffic, Activate, Edit, workerVars
  <2>8. ASSUME NEW l \in Loaders, StartReload(l) \/ FinishReload(l) \/ FailReload(l)
        PROVE  UNCHANGED <<req, proof>>
    BY <2>8 DEF StartReload, FinishReload, FailReload, StoresOnly, workerVars
  <2>9. EditPolicy \/ ReloadPolicy \/ UNCHANGED vars => UNCHANGED <<req, proof>>
    BY DEF EditPolicy, ReloadPolicy, StoresOnly, workerVars, vars
  <2> QED BY <1>2, <2>1, <2>2, <2>3, <2>4, <2>5, <2>6, <2>7, <2>8, <2>9, Steps
<1>3. DrainInv /\ Shut /\ Shut' /\ [Next]_vars => [DrainSpec!Next]_(DrainSpec!vars)
  BY <1>2
<1> QED BY <1>1, <1>3, DrainInvHolds, DrainedIsShut, PTL
     DEF Spec, ImplementsDrain, DrainSpec!Spec

\* So what the worker was told holds in the gateway itself: no request uses what it stops.
THEOREM StoppedMeansUnused == Spec => []DrainSpec!IdleMeansUnused
<1>1. ASSUME DrainInv, Shut PROVE DrainSpec!IdleMeansUnused
  <2>1. ASSUME NEW x \in Idle PROVE UsersOf(req)[x] = {} /\ x \notin Open
    <3>1. proof.proven /\ x = Target
      BY <2>1 DEF Idle
    <3>2. x \in Resources /\ x \notin Open
      BY <1>1, <3>1, TargetShut DEF DrainInv, WaitInv, ProvenInv, SnapshotInv, Fresh
    <3>3. \A r \in Requests : ~Uses(req[r], x)
      BY <1>1, <3>1 DEF DrainInv, ProvenInv
    <3> QED BY <3>2, <3>3 DEF UsersOf
  <2> QED BY <2>1 DEF DrainSpec!IdleMeansUnused, Open, Resources, UsersOf, Uses, Idle, Target
<1> QED BY <1>1, DrainInvHolds, DrainedIsShut, PTL DEF Spec
=============================================================================
