------------------------ MODULE CachePipelineProofs ------------------------
(***************************************************************************)
(* Theorems of CachePipeline, for every number of requests and downloads,  *)
(* purges, faults and restarts: types, with one active job and one thread  *)
(* on the key lock, and a READY row that has its files.                    *)
(***************************************************************************)
EXTENDS CachePipeline, FiniteSetTheorems, TLAPS

-----------------------------------------------------------------------------
(******************************** types ************************************)

View    == [status : RowStatuses, path : BOOLEAN]
Request == [pc : {"idle", "locked", "calling", "inserting", "sync", "listing", "commit"}
                  \cup PurgePCs,
            job : Downloads \cup {Nobody}, seen : Active \cup {"NONE"}, view : View,
            answer : Statuses \cup {"NONE"}]

DbTypes ==
  /\ row \in View /\ jobs \in [Downloads -> Active \cup {"NONE"}]
  /\ rowLock \in Clients \cup {Nobody} /\ advisory \in Clients \cup {Nobody}
AgentTypes ==
  /\ memory \in [Downloads -> Statuses \cup {"NONE"}]
  /\ activeKey \in Downloads \cup {Nobody}
  /\ thread \in [Downloads -> {"none", "waiting", "fetching", "promoted", "settled"}]
  /\ dir \in {"absent", "partial", "whole"}
ReqTypes   == req \in [Clients -> Request]
FaultTypes ==
  /\ faults \in 0 .. MaxFaults /\ purges \in 0 .. MaxPurges
  /\ anomaly \subseteq {"purge overlapped", "purge unfinished"}
Types == DbTypes /\ AgentTypes /\ ReqTypes /\ FaultTypes

\* What a request holds at each await: a job while it works on one, and an answer to commit.
Working  == {"inserting", "sync", "listing", "commit"}
Shape(q) ==
  /\ q.pc = "idle" => q = Idle
  /\ q.pc \in Working <=> q.job \in Downloads
  /\ q.pc = "commit" => q.answer \in Statuses
RequestInv == \A c \in Clients : Shape(req[c])

\* One active job, as the partial unique index has it; one thread on the key lock.
OneJob    == \A d, e \in ActiveJobs : d = e
OneThread == \A d, e \in Busy : d = e

TypeInv == Types /\ RequestInv /\ OneJob /\ OneThread

\* The steps of one request, and of the agent.
ClientAct(c) ==
  \/ StartLock(c) \/ Poll(c) \/ Purge(c) \/ StartFails(c) \/ SyncFails(c) \/ BreaksOff(c)
  \/ ClientStep(c)

\* A step is a client's, a download's or a restart of the agent.
LEMMA Steps ==
  ASSUME [Next]_vars
  PROVE  \/ \E c \in Clients : ClientAct(c)
         \/ \E d \in Downloads : Begin(d)
         \/ \E d \in Downloads : Fetch(d)
         \/ \E d \in Downloads : Settle(d)
         \/ \E d \in Downloads : Finish(d)
         \/ Restart
         \/ UNCHANGED vars
BY DEF Next, ClientAct, ThreadStep

\* At most one element, in the words of TypeOK.
LEMMA AtMostOne ==
  ASSUME NEW S, \A x, y \in S : x = y
  PROVE  Cardinality(S) <= 1
<1>1. CASE S = {}
  BY <1>1, FS_EmptySet
<1>2. ASSUME NEW x \in S PROVE Cardinality(S) <= 1
  <2>1. S = {x}
    BY <1>2
  <2> QED BY <2>1, FS_Singleton
<1> QED BY <1>1, <1>2

\* The strengthened typing contains the checked one.
LEMMA TypeInvIsTypeOK == TypeInv => TypeOK
<1> SUFFICES ASSUME TypeInv PROVE TypeOK
  OBVIOUS
<1>1. Cardinality(ActiveJobs) <= 1 /\ Cardinality(Busy) <= 1
  BY AtMostOne DEF TypeInv, OneJob, OneThread
<1> QED BY <1>1 DEF TypeInv, Types, DbTypes, AgentTypes, ReqTypes, FaultTypes, TypeOK, View,
     Request, ActiveJobs, Busy

\* It holds at the start.
LEMMA TypesAtStart == Init => TypeInv
<1> SUFFICES ASSUME Init PROVE TypeInv
  OBVIOUS
<1>1. Idle \in Request /\ Shape(Idle)
  BY CacheAssumption DEF Idle, Request, View, RowStatuses, Shape, Working
<1>2. RequestInv /\ ReqTypes
  BY <1>1 DEF Init, RequestInv, ReqTypes
<1>3. DbTypes /\ AgentTypes /\ FaultTypes
  BY CacheAssumption DEF Init, DbTypes, AgentTypes, FaultTypes, View, RowStatuses
<1>4. OneJob /\ OneThread
  BY DEF Init, OneJob, OneThread, ActiveJobs, Busy
<1> QED BY <1>2, <1>3, <1>4 DEF TypeInv, Types

\* What a directory reads as.
LEMMA Reading ==
  ASSUME AgentTypes
  PROVE  /\ ReadsReady \subseteq BOOLEAN
         /\ dir = "whole" => FALSE \notin ReadsReady
         /\ dir # "partial" /\ TRUE \in ReadsReady => dir = "whole"
BY DEF AgentTypes, ReadsReady

\* What a commit writes has its type, and so has what a synced row is set to.
LEMMA CommitTyped ==
  ASSUME Types, NEW c \in Clients, NEW new \in View, Commits(c, new)
  PROVE  row' \in View /\ rowLock' \in Clients \cup {Nobody} /\ advisory' \in Clients \cup {Nobody}
<1>1. Written(c, new) \in View
  BY DEF Written, View, Types, DbTypes
<1> QED BY <1>1 DEF Commits, Types, DbTypes

\* A synchronised view is a view.
LEMMA SyncedTyped ==
  ASSUME NEW view \in View, NEW answer \in Statuses
  PROVE  Synced(view, answer) \in View
<1>1. \A s \in {"PREPARING", "READY", "FAILED"} :
        [view EXCEPT !.status = s] \in View /\ [status |-> s, path |-> TRUE] \in View
  BY DEF View, RowStatuses
<1>2. CASE answer = "READY"
  BY <1>1, <1>2 DEF Synced
<1>3. CASE answer = "FAILED"
  BY <1>1, <1>3 DEF Synced
<1>4. CASE answer \notin {"READY", "FAILED"}
  BY <1>1, <1>4 DEF Synced
<1> QED BY <1>2, <1>3, <1>4

\* What the agent does when it is asked for a download.
LEMMA AgentStarts ==
  ASSUME Types, NEW d \in Downloads, AgentStart(d)
  PROVE  /\ \/ /\ TRUE \in ReadsReady /\ Unused(d) /\ memory' = [memory EXCEPT ![d] = "READY"]
               /\ UNCHANGED <<activeKey, thread>>
            \/ memory[d] \in Active /\ UNCHANGED agent
            \/ /\ Unused(d) /\ memory' = [memory EXCEPT ![d] = "QUEUED"] /\ activeKey' = d
               /\ thread' = [thread EXCEPT ![d] = "waiting"]
         /\ memory'[d] \in Statuses
<1>1. \/ /\ TRUE \in ReadsReady /\ Unused(d) /\ memory' = [memory EXCEPT ![d] = "READY"]
         /\ UNCHANGED <<activeKey, thread>>
      \/ memory[d] \in Active /\ UNCHANGED agent
      \/ /\ Unused(d) /\ memory' = [memory EXCEPT ![d] = "QUEUED"] /\ activeKey' = d
         /\ thread' = [thread EXCEPT ![d] = "waiting"]
  BY DEF AgentStart, Fresh
<1>2. memory'[d] \in Statuses
  BY <1>1 DEF Types, AgentTypes, agent, Statuses, Active
<1> QED BY <1>1, <1>2

\* A purge that broke is still a purge.
LEMMA BrokenTyped ==
  ASSUME NEW c \in Clients, req[c] \in Request, Shape(req[c]), req[c].pc \in PurgePCs
  PROVE  Broken(c) \in Request /\ Shape(Broken(c))
BY DEF Broken, Request, Shape, Working, PurgePCs, Deleting, Statuses

\* A request moves on by itself.
LEMMA RequestMoves ==
  ASSUME TypeInv, NEW c \in Clients, ClientAct(c)
  PROVE  \E q \in Request : Shape(q) /\ req' = [req EXCEPT ![c] = q]
<1> DEFINE r == req[c]
<1>0. r \in Request /\ Shape(r)
  BY DEF TypeInv, Types, ReqTypes, RequestInv
<1>1. Idle \in Request /\ Shape(Idle)
  BY CacheAssumption DEF Idle, Request, View, RowStatuses, Shape, Working
<1>2. CASE Ends(c)
  BY <1>1, <1>2 DEF Ends
<1>3. CASE StartLock(c)
  <2> DEFINE v == IF row.status \in {"READY", "PREPARING"} THEN row
                  ELSE [row EXCEPT !.status = "PREPARING"]
             q == [r EXCEPT !.pc = "locked", !.view = v]
  <2>1. v \in View
    BY DEF TypeInv, Types, DbTypes, View, RowStatuses
  <2>2. r.pc = "idle" /\ req' = [req EXCEPT ![c] = q]
    BY <1>3 DEF StartLock
  <2>3. q \in Request /\ Shape(q)
    BY <1>0, <2>1, <2>2 DEF Request, Shape, Working
  <2> QED BY <2>2, <2>3
<1>4. CASE StartFind(c) /\ ~Ends(c)
  <2>1. CASE \E d \in ActiveJobs :
               req' = [req EXCEPT ![c].pc = "sync", ![c].job = d, ![c].seen = jobs[d]]
    <3>1. PICK d \in Downloads :
            /\ jobs[d] \in Active
            /\ req' = [req EXCEPT ![c].pc = "sync", ![c].job = d, ![c].seen = jobs[d]]
      BY <2>1 DEF ActiveJobs, TypeInv, Types, DbTypes
    <3> DEFINE q == [r EXCEPT !.pc = "sync", !.job = d, !.seen = jobs[d]]
    <3>2. q \in Request /\ Shape(q)
      BY <1>0, <3>1 DEF Request, Shape, Working
    <3> QED BY <3>1, <3>2
  <2>2. CASE req' = [req EXCEPT ![c].pc = "calling"]
    <3> DEFINE q == [r EXCEPT !.pc = "calling"]
    <3>1. q \in Request /\ Shape(q)
      BY <1>0, <1>4 DEF Request, Shape, Working, StartFind
    <3> QED BY <2>2, <3>1
  <2> QED BY <1>4, <2>1, <2>2 DEF StartFind
<1>5. CASE StartCall(c)
  <2>1. PICK d \in Downloads, a \in Statuses :
          req' = [req EXCEPT ![c].pc = "inserting", ![c].job = d, ![c].answer = a]
    BY <1>5, AgentStarts DEF StartCall, TypeInv
  <2> DEFINE q == [r EXCEPT !.pc = "inserting", !.job = d, !.answer = a]
  <2>2. q \in Request /\ Shape(q)
    BY <1>0 DEF Request, Shape, Working
  <2> QED BY <2>1, <2>2
<1>6. CASE InsertJob(c)
  <2>0. r.job \in Downloads
    BY <1>0, <1>6 DEF InsertJob, Shape, Working
  <2>1. CASE \E s \in Active \cup {"NONE"} :
               req' = [req EXCEPT ![c].pc = "sync", ![c].answer = "NONE", ![c].seen = s]
    <3>1. PICK s \in Active \cup {"NONE"} :
            req' = [req EXCEPT ![c].pc = "sync", ![c].answer = "NONE", ![c].seen = s]
      BY <2>1
    <3> DEFINE q == [r EXCEPT !.pc = "sync", !.answer = "NONE", !.seen = s]
    <3>2. q \in Request /\ Shape(q)
      BY <1>0, <2>0 DEF Request, Shape, Working
    <3> QED BY <3>1, <3>2
  <2>2. CASE \E e \in ActiveJobs :
               req' = [req EXCEPT ![c].pc = "sync", ![c].answer = "NONE", ![c].job = e,
                                  ![c].seen = jobs[e], ![c].view = row]
    <3>1. PICK e \in Downloads :
            /\ jobs[e] \in Active
            /\ req' = [req EXCEPT ![c].pc = "sync", ![c].answer = "NONE", ![c].job = e,
                                  ![c].seen = jobs[e], ![c].view = row]
      BY <2>2 DEF ActiveJobs, TypeInv, Types, DbTypes
    <3> DEFINE q == [r EXCEPT !.pc = "sync", !.answer = "NONE", !.job = e, !.seen = jobs[e],
                              !.view = row]
    <3>2. q \in Request /\ Shape(q)
      BY <1>0, <3>1 DEF Request, Shape, Working, TypeInv, Types, DbTypes
    <3> QED BY <3>1, <3>2
  <2> QED BY <1>2, <1>6, <2>1, <2>2 DEF InsertJob
<1>7. CASE Poll(c)
  <2>1. PICK e \in Downloads :
          /\ jobs[e] \in Active
          /\ req' = [req EXCEPT ![c].pc = "sync", ![c].job = e, ![c].seen = jobs[e],
                                ![c].view = row]
    BY <1>7 DEF Poll, ActiveJobs, TypeInv, Types, DbTypes
  <2> DEFINE q == [r EXCEPT !.pc = "sync", !.job = e, !.seen = jobs[e], !.view = row]
  <2>2. q \in Request /\ Shape(q)
    BY <1>0, <2>1 DEF Request, Shape, Working, TypeInv, Types, DbTypes
  <2> QED BY <2>1, <2>2
<1>8. CASE Sync(c) \/ List(c)
  <2>0. r.pc \in Working
    BY <1>8 DEF Sync, List, Working
  <2>1. \/ req' = [req EXCEPT ![c].pc = "listing"]
        \/ \E a \in Statuses : req' = [req EXCEPT ![c].pc = "commit", ![c].answer = a]
    <3>1. memory[r.job] \in Statuses \cup {"NONE"}
      BY <1>0, <2>0 DEF Shape, TypeInv, Types, AgentTypes
    <3> QED BY <1>8, <3>1 DEF Sync, List, Listed, Statuses
  <2>2. CASE req' = [req EXCEPT ![c].pc = "listing"]
    <3> DEFINE q == [r EXCEPT !.pc = "listing"]
    <3>1. q \in Request /\ Shape(q)
      BY <1>0, <2>0 DEF Request, Shape, Working
    <3> QED BY <2>2, <3>1
  <2>3. ASSUME NEW a \in Statuses, req' = [req EXCEPT ![c].pc = "commit", ![c].answer = a]
        PROVE  \E q \in Request : Shape(q) /\ req' = [req EXCEPT ![c] = q]
    <3> DEFINE q == [r EXCEPT !.pc = "commit", !.answer = a]
    <3>1. q \in Request /\ Shape(q)
      BY <1>0, <2>0 DEF Request, Shape, Working
    <3> QED BY <2>3, <3>1
  <2> QED BY <2>1, <2>2, <2>3
<1>9. CASE Purge(c)
  <2> DEFINE q == [r EXCEPT !.pc = "purging", !.view = row]
  <2>1. q \in Request /\ Shape(q)
    BY <1>0, <1>9 DEF Purge, Request, Shape, Working, PurgePCs, Deleting, TypeInv, Types, DbTypes
  <2> QED BY <1>9, <2>1 DEF Purge
<1>10. CASE (PurgeCheck(c) \/ PurgeDelete(c)) /\ ~Ends(c)
  <2>1. PICK p \in PurgePCs : req' = [req EXCEPT ![c].pc = p]
    BY <1>10 DEF PurgeCheck, PurgeDelete, PurgePCs, Deleting
  <2> DEFINE q == [r EXCEPT !.pc = p]
  <2>2. q \in Request /\ Shape(q)
    BY <1>0, <1>10 DEF Request, Shape, Working, PurgePCs, PurgeCheck, PurgeDelete, Deleting
  <2> QED BY <2>1, <2>2
<1>11. StartFails(c) \/ SyncFails(c) \/ CommitSync(c) \/ PurgeCommit(c) => Ends(c)
  BY DEF StartFails, SyncFails, CommitSync, PurgeCommit
<1>12. CASE PurgeRaises(c)
  <2>1. Broken(c) \in Request /\ Shape(Broken(c))
    BY <1>0, <1>12, BrokenTyped DEF PurgeRaises, PurgePCs, Deleting
  <2> QED BY <1>12, <2>1 DEF PurgeRaises
<1>13. CASE BreaksOff(c) /\ ~Ends(c)
  <2> DEFINE q == [r EXCEPT !.answer = "FAILED"]
  <2>1. r.pc \in PurgePCs /\ req' = [req EXCEPT ![c] = q]
    BY <1>13 DEF BreaksOff
  <2>2. q \in Request /\ Shape(q)
    BY <1>0, <2>1 DEF Request, Shape, Working, PurgePCs, Deleting, Statuses
  <2> QED BY <2>1, <2>2
<1> QED BY <1>2, <1>3, <1>4, <1>5, <1>6, <1>7, <1>8, <1>9, <1>10, <1>11, <1>12, <1>13 DEF ClientAct,
     ClientStep

\* The database's rows keep their types, and one live job per model.
LEMMA DbTyped == ASSUME TypeInv, [Next]_vars PROVE DbTypes' /\ OneJob'
<1> USE DEF TypeInv, Types, DbTypes
<1>1. CASE UNCHANGED db
  BY <1>1 DEF db, OneJob, ActiveJobs
<1>2. ASSUME NEW c \in Clients, NEW new \in View, Commits(c, new), UNCHANGED jobs
      PROVE  DbTypes' /\ OneJob'
  BY <1>2, CommitTyped DEF OneJob, ActiveJobs
<1>3. ASSUME NEW c \in Clients, RolledBack(c) PROVE DbTypes' /\ OneJob'
  BY <1>3 DEF RolledBack, OneJob, ActiveJobs
<1>4. ASSUME NEW c \in Clients, ClientAct(c) PROVE DbTypes' /\ OneJob'
  <2>0. req[c] \in Request /\ Shape(req[c]) /\ req[c].view \in View
    BY DEF ReqTypes, RequestInv, Request
  <2>1. CASE StartLock(c)
    BY <2>1 DEF StartLock, OneJob, ActiveJobs
  <2>2. CASE StartFind(c)
    BY <2>0, <2>2, <1>1, <1>2 DEF StartFind
  <2>3. CASE StartFails(c)
    <3>1. [req[c].view EXCEPT !.status = "FAILED"] \in View
      BY <2>0 DEF View, RowStatuses
    <3> QED BY <2>3, <3>1, <1>2 DEF StartFails
  <2>4. CASE InsertJob(c) /\ ~RolledBack(c)
    <3>1. /\ req[c].answer \in Active => ActiveJobs = {}
          /\ jobs' = IF req[c].answer \in Active THEN [jobs EXCEPT ![req[c].job] = req[c].answer]
                     ELSE jobs
          /\ Commits(c, req[c].view)
      BY <2>4 DEF InsertJob
    <3>2. jobs' \in [Downloads -> Active \cup {"NONE"}] /\ OneJob'
      BY <3>1 DEF OneJob, ActiveJobs
    <3> QED BY <2>0, <3>1, <3>2, CommitTyped
  <2>5. CASE CommitSync(c) /\ ~RolledBack(c)
    <3> DEFINE d == req[c].job  a == req[c].answer
    <3>1. /\ a # req[c].seen /\ a \in Active => ActiveJobs \subseteq {d}
          /\ jobs' = IF a = req[c].seen THEN jobs
                     ELSE [jobs EXCEPT ![d] = IF a \in Active THEN a ELSE "NONE"]
          /\ Commits(c, Synced(req[c].view, a))
      BY <2>5 DEF CommitSync
    <3>2. jobs' \in [Downloads -> Active \cup {"NONE"}]
      BY <3>1
    <3>4. ASSUME a # req[c].seen, a \in Active PROVE OneJob'
      <4>1. ActiveJobs \subseteq {d} /\ \A e \in Downloads \ {d} : jobs'[e] = jobs[e]
        BY <3>1, <3>4
      <4> QED BY <4>1 DEF OneJob, ActiveJobs
    <3>5. ASSUME ~(a # req[c].seen /\ a \in Active) PROVE OneJob'
      <4>1. \A e \in Downloads : jobs'[e] \in {jobs[e], "NONE"}
        BY <3>1, <3>5
      <4> QED BY <4>1 DEF OneJob, ActiveJobs
    <3>3. Synced(req[c].view, a) \in View
      BY <2>0, <2>5, SyncedTyped DEF CommitSync, Shape
    <3> QED BY <3>1, <3>2, <3>3, <3>4, <3>5, CommitTyped
  <2>6. CASE SyncFails(c)
    BY <2>0, <2>6, <1>2 DEF SyncFails
  <2>7. CASE PurgeCommit(c)
    <3>1. [status |-> "MISSING", path |-> FALSE] \in View
      BY DEF View, RowStatuses
    <3> QED BY <2>7, <3>1, <1>2, <1>3 DEF PurgeCommit
  <2>9. CASE BreaksOff(c)
    BY <2>9, <1>1, <1>3 DEF BreaksOff
  <2>8. CASE \/ Poll(c) \/ Purge(c) \/ StartCall(c) \/ Sync(c) \/ List(c)
             \/ PurgeCheck(c) \/ PurgeDelete(c) \/ PurgeRaises(c)
    BY <2>8, <1>1 DEF Poll, Purge, StartCall, Sync, List, PurgeCheck, PurgeDelete, PurgeRaises
  <2> QED BY <1>3, <1>4, <2>1, <2>2, <2>3, <2>4, <2>5, <2>6, <2>7, <2>8, <2>9 DEF ClientAct,
         ClientStep
<1>5. ASSUME NEW d \in Downloads, Begin(d) \/ Fetch(d) \/ Settle(d) \/ Finish(d) PROVE UNCHANGED db
  BY <1>5 DEF Begin, Fetch, Settle, Finish
<1>6. Restart \/ UNCHANGED vars => UNCHANGED db
  BY DEF Restart, vars
<1> QED BY <1>1, <1>4, <1>5, <1>6, Steps

\* A purge is asked for.
Asked == faults' = faults /\ purges < MaxPurges /\ purges' = purges + 1

\* What a request does to the agent and the directory.
LEMMA RequestLeaves ==
  ASSUME NEW c \in Clients, ClientAct(c)
  PROVE  /\ UNCHANGED agent \/ \E d \in Downloads : AgentStart(d)
         /\ dir' = dir \/ PurgeDelete(c)
         /\ UNCHANGED bounds \/ Fault \/ Asked
         /\ Watch
<1>1. CASE StartLock(c) \/ Poll(c) \/ Purge(c) \/ StartFails(c) \/ SyncFails(c) \/ BreaksOff(c)
  BY <1>1 DEF StartLock, Poll, Purge, StartFails, SyncFails, BreaksOff, Asked
<1>2. CASE StartFind(c) \/ StartCall(c) \/ InsertJob(c) \/ Sync(c) \/ List(c) \/ CommitSync(c)
  BY <1>2 DEF StartFind, StartCall, InsertJob, Sync, List, CommitSync
<1>3. CASE PurgeCheck(c) \/ PurgeDelete(c) \/ PurgeRaises(c) \/ PurgeCommit(c)
  BY <1>3 DEF PurgeCheck, PurgeDelete, PurgeRaises, PurgeCommit, bounds
<1> QED BY <1>1, <1>2, <1>3 DEF ClientAct, ClientStep

\* The agent's memory keeps its types, and one thread per download.
LEMMA AgentTyped == ASSUME TypeInv, [Next]_vars PROVE AgentTypes' /\ OneThread'
<1> USE DEF TypeInv, Types, AgentTypes
<1>1. ASSUME UNCHANGED agent, dir' \in {"absent", "partial", "whole"}
      PROVE  AgentTypes' /\ OneThread'
  BY <1>1 DEF agent, OneThread, Busy
<1>2. ASSUME NEW d \in Downloads, AgentStart(d), dir' \in {"absent", "partial", "whole"}
      PROVE  AgentTypes' /\ OneThread'
  <2>1. CASE memory' = [memory EXCEPT ![d] = "READY"] /\ UNCHANGED <<activeKey, thread>>
    BY <1>2, <2>1 DEF OneThread, Busy, Statuses
  <2>2. CASE /\ memory' = [memory EXCEPT ![d] = "QUEUED"] /\ activeKey' = d
             /\ thread' = [thread EXCEPT ![d] = "waiting"]
    BY <1>2, <2>2 DEF OneThread, Busy, Statuses, Active
  <2> QED BY <1>2, <1>1, <2>1, <2>2, AgentStarts
<1>3. ASSUME NEW c \in Clients, ClientAct(c) PROVE AgentTypes' /\ OneThread'
  <2>1. dir' \in {"absent", "partial", "whole"}
    BY <1>3, RequestLeaves DEF PurgeDelete
  <2> QED BY <1>1, <1>2, <1>3, <2>1, RequestLeaves
<1>4. ASSUME NEW d \in Downloads, Begin(d) PROVE AgentTypes' /\ OneThread'
  BY <1>4 DEF Begin, OneThread, Busy, Statuses, Active
<1>5. ASSUME NEW d \in Downloads, Fetch(d) PROVE AgentTypes' /\ OneThread'
  BY <1>5 DEF Fetch, OneThread, Busy, Statuses, Active
<1>6. ASSUME NEW d \in Downloads, Settle(d) PROVE AgentTypes' /\ OneThread'
  BY <1>6 DEF Settle, OneThread, Busy, Statuses, Active
<1>7. ASSUME NEW d \in Downloads, Finish(d) PROVE AgentTypes' /\ OneThread'
  BY <1>7 DEF Finish, OneThread, Busy
<1>8. CASE Restart
  BY <1>8 DEF Restart, OneThread, Busy
<1>9. CASE UNCHANGED vars
  BY <1>1, <1>9 DEF vars
<1> QED BY <1>3, <1>4, <1>5, <1>6, <1>7, <1>8, <1>9, Steps

\* Each client's request keeps the shape of its phase.
LEMMA RequestsTyped == ASSUME TypeInv, [Next]_vars PROVE ReqTypes' /\ RequestInv'
<1>1. ASSUME NEW c \in Clients, ClientAct(c) PROVE ReqTypes' /\ RequestInv'
  <2>1. PICK q \in Request : Shape(q) /\ req' = [req EXCEPT ![c] = q]
    BY <1>1, RequestMoves
  <2> QED BY <2>1 DEF TypeInv, Types, ReqTypes, RequestInv
<1>2. ASSUME NEW d \in Downloads, Begin(d) \/ Fetch(d) \/ Settle(d) \/ Finish(d) PROVE UNCHANGED req
  BY <1>2 DEF Begin, Fetch, Settle, Finish
<1>3. CASE Restart
  <2>1. Idle \in Request /\ Shape(Idle)
    BY CacheAssumption DEF Idle, Request, View, RowStatuses, Shape, Working
  <2>2. \A c \in Clients : req[c].pc = "deleting" => Broken(c) \in Request /\ Shape(Broken(c))
    BY BrokenTyped DEF TypeInv, Types, ReqTypes, RequestInv, PurgePCs, Deleting
  <2> QED BY <1>3, <2>1, <2>2 DEF Restart, TypeInv, Types, ReqTypes, RequestInv
<1>4. CASE UNCHANGED req
  BY <1>4 DEF TypeInv, Types, ReqTypes, RequestInv
<1> QED BY <1>1, <1>2, <1>3, <1>4, Steps DEF vars

\* Every step watches the purges.
LEMMA Watched == ASSUME [Next]_vars PROVE Watch \/ UNCHANGED vars
<1>1. ASSUME NEW d \in Downloads, Begin(d) \/ Fetch(d) \/ Settle(d) \/ Finish(d) PROVE Watch
  BY <1>1 DEF Begin, Fetch, Settle, Finish
<1>2. Restart => Watch
  BY DEF Restart
<1> QED BY <1>1, <1>2, RequestLeaves, Steps

\* Faults and purges stay within their bounds.
LEMMA FaultsTyped == ASSUME TypeInv, [Next]_vars PROVE FaultTypes'
<1>1. ASSUME NEW d \in Downloads, Begin(d) \/ Fetch(d) \/ Settle(d) \/ Finish(d)
      PROVE  UNCHANGED bounds
  BY <1>1 DEF Begin, Fetch, Settle, Finish
<1>2. UNCHANGED bounds \/ Fault \/ Asked
  BY <1>1, Steps, RequestLeaves DEF Restart, vars
<1>3. faults' \in 0 .. MaxFaults /\ purges' \in 0 .. MaxPurges
  <2>1. /\ MaxFaults \in Nat /\ MaxPurges \in Nat
        /\ faults \in 0 .. MaxFaults /\ purges \in 0 .. MaxPurges
    BY CacheAssumption DEF TypeInv, Types, FaultTypes
  <2>2. CASE UNCHANGED bounds
    BY <2>1, <2>2 DEF bounds
  <2>3. CASE Fault
    BY <2>1, <2>3 DEF Fault
  <2>4. CASE Asked
    BY <2>1, <2>4 DEF Asked
  <2> QED BY <1>2, <2>2, <2>3, <2>4
<1>4. anomaly' \subseteq {"purge overlapped", "purge unfinished"}
  BY Watched DEF Watch, vars, TypeInv, Types, FaultTypes
<1> QED BY <1>3, <1>4 DEF FaultTypes

\* Every step preserves the typing.
LEMMA TypesKept == TypeInv /\ [Next]_vars => TypeInv'
BY DbTyped, AgentTyped, RequestsTyped, FaultsTyped DEF TypeInv, Types

\* So it holds in every state a run reaches.
LEMMA TypesHold == Spec => []TypeInv
BY TypesAtStart, TypesKept, PTL DEF Spec

\* Every variable holds a value of its kind; the partial unique index keeps a second job from
\* being active, and the key lock a second thread from working on the directory.
THEOREM Typing == Spec => []TypeOK
BY TypesHold, TypeInvIsTypeOK, PTL

-----------------------------------------------------------------------------
(******************************* the files *********************************)

\* A session that has the row locked has not read it READY, and is no purge.
LockInv == \A c \in Clients :
  rowLock = c => req[c].pc \notin {"idle"} \cup PurgePCs /\ req[c].view.status # "READY"

\* The status of a job says what its thread is doing.
ThreadInv == \A d \in Downloads :
  /\ thread[d] = "waiting" => memory[d] = "QUEUED"
  /\ thread[d] \in {"fetching", "promoted"} => memory[d] = "DOWNLOADING"

\* As long as nothing has gone wrong with a purge, none is overlapped or unfinished.
WatchInv == anomaly = {} => ~Overlapped /\ ~Unfinished

\* Whatever says READY and may still be written to the row says so of a whole directory.
Needed(d)  == jobs[d] # "NONE" \/ \E c \in Clients : req[c].job = d
HalfGone   == dir = "partial" => \E c \in Clients : req[c].pc = "deleting"
RowTrue    == row.status = "READY"
                => dir = "whole" \/ \E c \in Clients : req[c].pc \in Deleting
InPlace    == \A d \in Downloads : thread[d] = "promoted" => dir = "whole"
AnswerTrue == \A c \in Clients : req[c].pc = "commit" /\ req[c].answer = "READY" => dir = "whole"
JobTrue    == \A d \in Downloads : memory[d] = "READY" /\ Needed(d) => dir = "whole"
FilesInv   == HalfGone /\ RowTrue /\ InPlace /\ AnswerTrue /\ JobTrue

\* What a request that goes on awaits next, and what it holds then.
LEMMA NextAwait ==
  ASSUME Types, NEW c \in Clients
  PROVE  /\ StartLock(c) => /\ req'[c].pc = "locked" /\ req'[c].job = req[c].job
                            /\ rowLock' = c => req'[c].view.status = "PREPARING" \/ rowLock = c
         /\ StartFind(c) /\ ~(Commits(c, req[c].view) /\ Ends(c) /\ UNCHANGED jobs)
              => /\ req'[c].pc \in {"sync", "calling"} /\ req'[c].view = req[c].view
                 /\ req'[c].job = req[c].job \/ req'[c].job \in ActiveJobs
                 /\ UNCHANGED db
         /\ StartCall(c) => /\ req'[c].pc = "inserting" /\ req'[c].view = req[c].view
                            /\ req'[c].job \in Downloads /\ AgentStart(req'[c].job)
         /\ InsertJob(c) => \/ Ends(c)
                            \/ /\ req'[c].pc = "sync"
                               /\ req'[c].job = req[c].job \/ req'[c].job \in ActiveJobs
         /\ Poll(c) => req'[c].pc = "sync" /\ req'[c].job \in ActiveJobs
         /\ Sync(c) => /\ \/ req'[c].pc = "listing"
                          \/ req'[c].pc = "commit" /\ req'[c].answer = memory[req[c].job]
                       /\ req'[c].view = req[c].view /\ req'[c].job = req[c].job
         /\ List(c) => /\ req'[c].pc = "commit" /\ req'[c].view = req[c].view
                       /\ req'[c].job = req[c].job
                       /\ req'[c].answer = "READY" => TRUE \in ReadsReady
<1> USE DEF Types, ReqTypes, Request
<1>1. StartLock(c) => /\ req'[c].pc = "locked" /\ req'[c].job = req[c].job
                      /\ rowLock' = c => req'[c].view.status = "PREPARING" \/ rowLock = c
  <2>1. CASE row.status \in {"READY", "PREPARING"}
    BY <2>1 DEF StartLock
  <2>2. CASE row.status \notin {"READY", "PREPARING"}
    <3>1. StartLock(c) => req' = [req EXCEPT ![c].pc = "locked",
                                             ![c].view = [row EXCEPT !.status = "PREPARING"]]
      BY <2>2 DEF StartLock
    <3>2. [row EXCEPT !.status = "PREPARING"].status = "PREPARING"
      BY DEF DbTypes, View
    <3> QED BY <3>1, <3>2
  <2> QED BY <2>1, <2>2
<1>2. ASSUME StartFind(c), ~(Commits(c, req[c].view) /\ Ends(c) /\ UNCHANGED jobs)
      PROVE  /\ req'[c].pc \in {"sync", "calling"} /\ req'[c].view = req[c].view
             /\ req'[c].job = req[c].job \/ req'[c].job \in ActiveJobs
             /\ UNCHANGED db
  <2>1. UNCHANGED db
    BY <1>2, Zenon DEF StartFind
  <2>2. ASSUME NEW d \in ActiveJobs,
               req' = [req EXCEPT ![c].pc = "sync", ![c].job = d, ![c].seen = jobs[d]]
        PROVE  req'[c].pc = "sync" /\ req'[c].view = req[c].view /\ req'[c].job \in ActiveJobs
    BY <2>2
  <2>3. CASE req' = [req EXCEPT ![c].pc = "calling"]
    BY <2>1, <2>3
  <2> QED BY <1>2, <2>1, <2>2, <2>3 DEF StartFind
<1>3. ASSUME NEW d \in Downloads, NEW a,
             req' = [req EXCEPT ![c].pc = "inserting", ![c].job = d, ![c].answer = a]
      PROVE  req'[c].pc = "inserting" /\ req'[c].view = req[c].view /\ req'[c].job = d
  BY <1>3
<1>4. StartCall(c) => /\ req'[c].pc = "inserting" /\ req'[c].view = req[c].view
                      /\ req'[c].job \in Downloads /\ AgentStart(req'[c].job)
  <2>1. SUFFICES ASSUME StartCall(c)
                 PROVE  /\ req'[c].pc = "inserting" /\ req'[c].view = req[c].view
                        /\ req'[c].job \in Downloads /\ AgentStart(req'[c].job)
    OBVIOUS
  <2>2. PICK d \in Downloads :
          /\ AgentStart(d)
          /\ req' = [req EXCEPT ![c].pc = "inserting", ![c].job = d, ![c].answer = memory'[d]]
    BY <2>1, Zenon DEF StartCall
  <2>3. req'[c].pc = "inserting" /\ req'[c].view = req[c].view /\ req'[c].job = d
    BY <2>2, <1>3, Zenon
  <2> QED BY <2>2, <2>3, Zenon
<1>5. InsertJob(c) => \/ Ends(c)
                      \/ /\ req'[c].pc = "sync"
                         /\ req'[c].job = req[c].job \/ req'[c].job \in ActiveJobs
  <2>1. ASSUME NEW s, req' = [req EXCEPT ![c].pc = "sync", ![c].answer = "NONE", ![c].seen = s]
        PROVE  req'[c].pc = "sync" /\ req'[c].job = req[c].job
    BY <2>1
  <2>2. ASSUME NEW e \in ActiveJobs,
               req' = [req EXCEPT ![c].pc = "sync", ![c].answer = "NONE", ![c].job = e,
                                  ![c].seen = jobs[e], ![c].view = row]
        PROVE  req'[c].pc = "sync" /\ req'[c].job \in ActiveJobs
    BY <2>2
  <2> QED BY <2>1, <2>2 DEF InsertJob
<1>6. Poll(c) => req'[c].pc = "sync" /\ req'[c].job \in ActiveJobs
  BY DEF Poll
<1>7. Sync(c) => /\ \/ req'[c].pc = "listing"
                    \/ req'[c].pc = "commit" /\ req'[c].answer = memory[req[c].job]
                 /\ req'[c].view = req[c].view /\ req'[c].job = req[c].job
  <2>1. CASE req' = [req EXCEPT ![c].pc = "listing"]
    BY <2>1
  <2>2. CASE req' = [req EXCEPT ![c].pc = "commit", ![c].answer = memory[req[c].job]]
    BY <2>2
  <2> QED BY <2>1, <2>2 DEF Sync
<1>8. List(c) => /\ req'[c].pc = "commit" /\ req'[c].view = req[c].view
                 /\ req'[c].job = req[c].job
                 /\ req'[c].answer = "READY" => TRUE \in ReadsReady
  <2>1. ASSUME NEW a, req' = [req EXCEPT ![c].pc = "commit", ![c].answer = a]
        PROVE  /\ req'[c].pc = "commit" /\ req'[c].view = req[c].view
               /\ req'[c].job = req[c].job /\ req'[c].answer = a
    BY <2>1
  <2>2. ASSUME NEW ready \in ReadsReady, Listed(ready) = "READY" PROVE TRUE \in ReadsReady
    BY <2>2 DEF Listed, ReadsReady
  <2>3. SUFFICES ASSUME List(c)
                 PROVE  /\ req'[c].pc = "commit" /\ req'[c].view = req[c].view
                        /\ req'[c].job = req[c].job
                        /\ req'[c].answer = "READY" => TRUE \in ReadsReady
    OBVIOUS
  <2>4. PICK ready \in ReadsReady :
          req' = [req EXCEPT ![c].pc = "commit", ![c].answer = Listed(ready)]
    BY <2>3, Zenon DEF List
  <2>5. /\ req'[c].pc = "commit" /\ req'[c].view = req[c].view
        /\ req'[c].job = req[c].job /\ req'[c].answer = Listed(ready)
    BY <2>1, <2>4, Zenon
  <2> QED BY <2>2, <2>5, Zenon
<1> QED BY <1>1, <1>2, <1>4, <1>5, <1>6, <1>7, <1>8

\* A purge that goes on stays one, and works on no job.
LEMMA PurgeGoesOn ==
  ASSUME Types, NEW c \in Clients,
         PurgeCheck(c) \/ PurgeDelete(c) \/ PurgeRaises(c) \/ BreaksOff(c), ~Ends(c)
  PROVE  req'[c].pc \in PurgePCs /\ req'[c].job = req[c].job /\ req'[c].view = req[c].view
<1> USE DEF PurgePCs, Deleting, Types, ReqTypes, Request
<1>1. CASE PurgeCheck(c)
  BY <1>1 DEF PurgeCheck
<1>2. CASE PurgeDelete(c)
  BY <1>2 DEF PurgeDelete
<1>3. CASE PurgeRaises(c)
  BY <1>3 DEF PurgeRaises, Broken
<1>4. CASE BreaksOff(c)
  BY <1>4 DEF BreaksOff
<1> QED BY <1>1, <1>2, <1>3, <1>4

\* No step locks a row that reads READY, nor lets a purge keep a lock.
LEMMA LockKept == ASSUME TypeInv, LockInv, [Next]_vars PROVE LockInv'
<1> USE DEF TypeInv, Types, ReqTypes, LockInv
<1>1. ASSUME NEW c \in Clients, NEW q, req' = [req EXCEPT ![c] = q], rowLock' \in {rowLock, Nobody},
             rowLock' = c => q.pc \notin {"idle"} \cup PurgePCs /\ q.view.status # "READY"
      PROVE  LockInv'
  BY <1>1, CacheAssumption
<1>2. ASSUME NEW c \in Clients, Ends(c), rowLock' = (IF rowLock = c THEN Nobody ELSE rowLock)
      PROVE  LockInv'
  BY <1>2, CacheAssumption DEF Ends
<1>3. ASSUME NEW c \in Clients, ClientAct(c) PROVE LockInv'
  <2>1. CASE StartLock(c)
    BY <2>1, CacheAssumption DEF StartLock, PurgePCs, Deleting, DbTypes, View
  <2>2. CASE StartFails(c) \/ SyncFails(c) \/ CommitSync(c) \/ PurgeCommit(c)
    BY <2>2, <1>2 DEF StartFails, SyncFails, CommitSync, PurgeCommit, Commits, RolledBack
  <2>9. CASE StartFind(c)
    <3>1. CASE Commits(c, req[c].view) /\ Ends(c)
      BY <3>1, <1>2 DEF Commits
    <3>2. CASE ~(Commits(c, req[c].view) /\ Ends(c))
      <4>1. /\ req'[c].pc \in {"sync", "calling"} /\ req'[c].view = req[c].view
            /\ rowLock' = rowLock
        BY <2>9, <3>2, NextAwait DEF db
      <4>2. \A o \in Clients \ {c} : req'[o] = req[o]
        BY <1>3, RequestMoves
      <4> QED BY <4>1, <4>2 DEF PurgePCs, Deleting
    <3> QED BY <3>1, <3>2
  <2>3. CASE InsertJob(c) \/ (BreaksOff(c) /\ RolledBack(c))
    <3>1. rowLock' = IF rowLock = c THEN Nobody ELSE rowLock
      BY <2>3 DEF InsertJob, Commits, RolledBack
    <3>2. \A o \in Clients \ {c} : req'[o] = req[o]
      BY <1>3, RequestMoves
    <3> QED BY <3>1, <3>2, CacheAssumption
  <2>4. CASE StartCall(c)
    BY <2>4 DEF StartCall, PurgePCs, Deleting, db, Request
  <2>5. CASE Poll(c) \/ Purge(c)
    <3>1. rowLock' = rowLock /\ rowLock # c /\ \A o \in Clients \ {c} : req'[o] = req[o]
      BY <2>5 DEF Poll, Purge, db
    <3> QED BY <3>1
  <2>6. CASE Sync(c)
    BY <2>6 DEF Sync, PurgePCs, Deleting, db, Request
  <2>7. CASE List(c)
    BY <2>7 DEF List, PurgePCs, Deleting, db, Request
  <2>8. CASE \/ PurgeCheck(c) \/ PurgeDelete(c) \/ PurgeRaises(c)
             \/ (BreaksOff(c) /\ ~RolledBack(c))
    <3>1. rowLock' = rowLock /\ rowLock # c
      BY <2>8 DEF PurgeCheck, PurgeDelete, PurgeRaises, BreaksOff, db, PurgePCs, Deleting
    <3>2. \A o \in Clients \ {c} : req'[o] = req[o]
      BY <1>3, RequestMoves
    <3> QED BY <3>1, <3>2
  <2> QED BY <1>3, <2>1, <2>2, <2>3, <2>4, <2>5, <2>6, <2>7, <2>8, <2>9 DEF ClientAct, ClientStep
<1>4. ASSUME NEW d \in Downloads, Begin(d) \/ Fetch(d) \/ Settle(d) \/ Finish(d)
      PROVE  UNCHANGED <<rowLock, req>>
  BY <1>4 DEF Begin, Fetch, Settle, Finish, db
<1>5. CASE Restart
  BY <1>5 DEF Restart, db, PurgePCs, Deleting
<1>6. CASE UNCHANGED <<rowLock, req>>
  BY <1>6
<1> QED BY <1>3, <1>4, <1>5, <1>6, Steps DEF vars, db

\* A thread and the status of its job change together.
LEMMA ThreadsKept == ASSUME TypeInv, ThreadInv, [Next]_vars PROVE ThreadInv'
<1> USE DEF TypeInv, Types, AgentTypes, ThreadInv
<1>1. CASE UNCHANGED agent
  BY <1>1 DEF agent
<1>2. ASSUME NEW d \in Downloads, AgentStart(d) PROVE ThreadInv'
  <2>1. CASE /\ Unused(d) /\ memory' = [memory EXCEPT ![d] = "READY"]
             /\ UNCHANGED <<activeKey, thread>>
    BY <2>1 DEF Unused
  <2>2. CASE /\ memory' = [memory EXCEPT ![d] = "QUEUED"] /\ activeKey' = d
             /\ thread' = [thread EXCEPT ![d] = "waiting"]
    BY <2>2
  <2> QED BY <1>1, <1>2, <2>1, <2>2, AgentStarts
<1>3. ASSUME NEW d \in Downloads, Begin(d) PROVE ThreadInv'
  BY <1>3 DEF Begin
<1>4. ASSUME NEW d \in Downloads, Fetch(d) PROVE ThreadInv'
  BY <1>4 DEF Fetch
<1>5. ASSUME NEW d \in Downloads, Settle(d) PROVE ThreadInv'
  BY <1>5 DEF Settle
<1>6. ASSUME NEW d \in Downloads, Finish(d) PROVE ThreadInv'
  BY <1>6 DEF Finish
<1>7. CASE Restart
  BY <1>7 DEF Restart
<1> QED BY <1>1, <1>2, <1>3, <1>4, <1>5, <1>6, <1>7, RequestLeaves, Steps DEF vars

\* While nothing has gone wrong with a purge, one that deletes is alone and is answered.
LEMMA WatchKept ==
  ASSUME WatchInv, [Next]_vars
  PROVE  WatchInv' /\ (anomaly' = {} => anomaly = {})
<1>1. CASE Watch
  BY <1>1 DEF Watch, WatchInv
<1>2. CASE UNCHANGED vars
  BY <1>2 DEF vars, db, agent, WatchInv, Overlapped, Unfinished
<1> QED BY <1>1, <1>2, Watched

\* A commit writes READY only where the row was READY or the session has changed it so.
LEMMA CommitReady ==
  ASSUME LockInv, NEW c \in Clients, NEW new, Commits(c, new), row'.status = "READY",
         new.status = "READY" => new.status = req[c].view.status
  PROVE  row.status = "READY"
<1>1. row'.status = IF rowLock = c \/ new.status # req[c].view.status
                    THEN new.status ELSE row.status
  BY DEF Commits, Written
<1> QED BY <1>1 DEF LockInv

\* What the row says after a request has committed.
LEMMA RowAfter ==
  ASSUME TypeInv, LockInv, NEW c \in Clients, ClientAct(c), row'.status = "READY",
         row.status # "READY"
  PROVE  CommitSync(c) /\ req[c].answer = "READY"
<1>0. req[c] \in Request /\ Shape(req[c])
  BY DEF TypeInv, Types, ReqTypes, RequestInv
<1>1. ~Commits(c, req[c].view)
  BY CommitReady
<1>2. ~StartFails(c)
  <2>1. [req[c].view EXCEPT !.status = "FAILED"].status = "FAILED"
    BY <1>0 DEF Request, View
  <2> QED BY <2>1, CommitReady DEF StartFails
<1>3. ~PurgeCommit(c)
  BY CommitReady DEF PurgeCommit, RolledBack
<1>4. CASE CommitSync(c)
  <2> DEFINE a == req[c].answer
  <2>1. Commits(c, Synced(req[c].view, a))
    BY <1>4 DEF CommitSync, RolledBack
  <2>2. a # "READY" => Synced(req[c].view, a).status # "READY"
    BY <1>0 DEF Synced, Request, View
  <2> QED BY <1>4, <2>1, <2>2, CommitReady
<1>5. ASSUME ~CommitSync(c) PROVE row' = row
  BY <1>1, <1>2, <1>3, <1>5 DEF ClientAct, ClientStep, StartLock, Poll, Purge, SyncFails, StartFind,
     StartCall, InsertJob, Sync, List, PurgeCheck, PurgeDelete, PurgeRaises, BreaksOff, RolledBack,
     db
<1> QED BY <1>4, <1>5

\* Without a purge, a directory that reads as ready is whole, and a READY row has it.
LEMMA Quiet ==
  ASSUME TypeInv, FilesInv, \A c \in Clients : req[c].pc \notin Deleting
  PROVE  /\ dir # "partial"
         /\ TRUE \in ReadsReady => dir = "whole"
         /\ row.status = "READY" => dir = "whole"
BY Reading DEF TypeInv, Types, FilesInv, HalfGone, RowTrue, Deleting

\* A request beside which no purge deletes leaves the directory alone, and what it learns of
\* it is true.
LEMMA RequestTells ==
  ASSUME TypeInv, LockInv, FilesInv, NEW c \in Clients, ClientAct(c), ~PurgeDelete(c),
         \A o \in Clients : req[o].pc \notin Deleting
  PROVE  FilesInv'
<1>1. /\ dir' = dir /\ dir # "partial"
      /\ row.status = "READY" \/ TRUE \in ReadsReady => dir = "whole"
  BY Quiet, RequestLeaves
<1>2. HalfGone'
  BY <1>1 DEF HalfGone
<1>3. RowTrue'
  BY <1>1, RowAfter DEF RowTrue, FilesInv, AnswerTrue, CommitSync
<1>4. \A o \in Clients \ {c} : req'[o] = req[o]
  BY RequestMoves DEF TypeInv, Types, ReqTypes
<1>5. AnswerTrue'
  <2>1. ASSUME req'[c].pc = "commit", req'[c].answer = "READY" PROVE dir = "whole"
    <3>1. CASE Ends(c)
      BY <2>1, <3>1 DEF Ends, Idle, TypeInv, Types, ReqTypes
    <3>2. StartFails(c) \/ SyncFails(c) \/ CommitSync(c) \/ PurgeCommit(c) => Ends(c)
      BY DEF StartFails, SyncFails, CommitSync, PurgeCommit
    <3>3. PurgeCheck(c) \/ PurgeRaises(c) \/ BreaksOff(c) => Ends(c)
      BY <2>1, PurgeGoesOn DEF TypeInv, PurgePCs, Deleting
    <3>4. ~Purge(c)
      BY <2>1 DEF Purge, TypeInv, Types, ReqTypes, Request
    <3>5. ~StartLock(c) /\ ~StartCall(c) /\ (InsertJob(c) => Ends(c)) /\ ~Poll(c)
      BY <2>1, NextAwait DEF TypeInv
    <3>6. StartFind(c) => Ends(c)
      BY <2>1, NextAwait DEF TypeInv
    <3>7. CASE Sync(c)
      <4>1. req[c].job \in Downloads /\ memory[req[c].job] = "READY"
        BY <2>1, <3>7, NextAwait DEF TypeInv, Sync, RequestInv, Shape, Working
      <4> QED BY <4>1 DEF FilesInv, JobTrue, Needed
    <3>8. CASE List(c)
      BY <1>1, <2>1, <3>8, NextAwait DEF TypeInv
    <3> QED BY <3>1, <3>2, <3>3, <3>4, <3>5, <3>6, <3>7, <3>8 DEF ClientAct, ClientStep
  <2>2. ASSUME NEW o \in Clients \ {c}, req'[o].pc = "commit", req'[o].answer = "READY"
        PROVE  dir = "whole"
    BY <1>4, <2>2 DEF FilesInv, AnswerTrue
  <2> QED BY <1>1, <2>1, <2>2 DEF AnswerTrue
<1>6. InPlace'
  <2>1. ASSUME NEW d \in Downloads, thread'[d] = "promoted" PROVE thread[d] = "promoted"
    <3>1. CASE UNCHANGED agent
      BY <2>1, <3>1 DEF agent
    <3>2. ASSUME NEW e \in Downloads, AgentStart(e) PROVE thread[d] = "promoted"
      BY <2>1, <3>2, <3>1, AgentStarts DEF TypeInv, Types, AgentTypes
    <3> QED BY <3>1, <3>2, RequestLeaves
  <2> QED BY <1>1, <2>1 DEF FilesInv, InPlace
<1>7. JobTrue'
  <2> SUFFICES ASSUME NEW d \in Downloads, memory'[d] = "READY", Needed(d)', dir # "whole"
               PROVE  FALSE
    BY <1>1 DEF JobTrue
  <2>1. memory[d] = "READY"
    <3>1. CASE UNCHANGED agent
      BY <3>1 DEF agent
    <3>2. ASSUME NEW e \in Downloads, AgentStart(e) PROVE memory[d] = "READY"
      BY <1>1, <3>1, <3>2, AgentStarts DEF TypeInv, Types, AgentTypes
    <3> QED BY <3>1, <3>2, RequestLeaves
  <2>2. ~Needed(d)
    BY <2>1 DEF FilesInv, JobTrue
  <2>3. jobs[d] = "NONE" /\ req[c].job # d /\ \A o \in Clients : req[o].job # d
    BY <2>2 DEF Needed
  <2>4. CASE jobs'[d] # "NONE"
    <3>1. jobs[d] = "NONE" /\ d # req[c].job
      BY <2>3
    <3>2. jobs' = jobs \/ \E s : jobs' = [jobs EXCEPT ![req[c].job] = s]
      BY DEF ClientAct, ClientStep, StartLock, Poll, Purge, StartFails, SyncFails, StartFind,
         StartCall, InsertJob, Sync, List, CommitSync, PurgeCheck, PurgeDelete, PurgeRaises,
         PurgeCommit, BreaksOff, RolledBack, db
    <3> QED BY <2>4, <3>1, <3>2 DEF TypeInv, Types, DbTypes
  <2>5. CASE req'[c].job = d
    <3>1. d \notin ActiveJobs
      BY <2>3 DEF ActiveJobs
    <3>2. CASE Ends(c)
      BY <2>5, <3>2, CacheAssumption DEF Ends, Idle, TypeInv, Types, ReqTypes
    <3>3. StartFails(c) \/ SyncFails(c) \/ CommitSync(c) \/ PurgeCommit(c) => Ends(c)
      BY DEF StartFails, SyncFails, CommitSync, PurgeCommit
    <3>4. CASE StartLock(c) \/ StartFind(c) \/ InsertJob(c) \/ Poll(c) \/ Sync(c) \/ List(c)
      BY <2>3, <2>5, <3>1, <3>2, <3>4, NextAwait DEF TypeInv
    <3>5. CASE StartCall(c)
      <4>1. AgentStart(d)
        BY <2>5, <3>5, NextAwait DEF TypeInv
      <4>2. memory[d] = "READY" /\ memory'[d] = "READY" /\ TRUE \notin ReadsReady
        BY <1>1, <2>1
      <4> QED BY <4>1, <4>2, AgentStarts DEF TypeInv, Types, AgentTypes, Active
    <3>6. CASE Purge(c)
      BY <2>3, <2>5, <3>6 DEF Purge, TypeInv, Types, ReqTypes, Request
    <3>7. CASE PurgeCheck(c) \/ PurgeRaises(c) \/ BreaksOff(c)
      BY <2>3, <2>5, <3>2, <3>7, PurgeGoesOn DEF TypeInv
    <3> QED BY <3>2, <3>3, <3>4, <3>5, <3>6, <3>7 DEF ClientAct, ClientStep
  <2> QED BY <1>4, <2>3, <2>4, <2>5 DEF Needed
<1> QED BY <1>2, <1>3, <1>5, <1>6, <1>7 DEF FilesInv

\* Beside a purge that deletes and is not overlapped nobody works on a job or on the directory,
\* and nobody is told of it.
LEMMA Beside ==
  ASSUME TypeInv', ThreadInv', ~Overlapped', NEW p \in Clients, req'[p].pc \in Deleting
  PROVE  AnswerTrue' /\ InPlace' /\ JobTrue'
<1>1. \A o \in Clients \ {p} : req'[o] = Idle
  BY DEF Overlapped, TypeInv, RequestInv, Shape
<1>2. \A o \in Clients : req'[o].pc # "commit" /\ req'[o].job \notin Downloads
  <2>1. Idle.pc # "commit" /\ Idle.job \notin Downloads
    BY CacheAssumption DEF Idle
  <2>2. req'[p].pc # "commit" /\ req'[p].job \notin Downloads
    BY DEF TypeInv, RequestInv, Shape, Working, Deleting
  <2> QED BY <1>1, <2>1, <2>2
<1>3. AnswerTrue'
  BY <1>2 DEF AnswerTrue
<1>4. InPlace'
  BY DEF InPlace, Overlapped, ThreadInv, Active
<1>5. JobTrue'
  BY <1>2 DEF JobTrue, Needed, Overlapped
<1> QED BY <1>3, <1>4, <1>5

\* When a purge begins to delete, its request stands for what the row says.
LEMMA PurgeBegins ==
  ASSUME TypeInv, FilesInv, TypeInv', ThreadInv', ~Overlapped', NEW c \in Clients, PurgeDelete(c),
         \A o \in Clients : req[o].pc \notin Deleting
  PROVE  FilesInv'
<1> USE DEF TypeInv, Types, ReqTypes, Request
<1>1. row' = row /\ req[c].pc = "checked" /\ dir # "partial"
  BY Quiet DEF PurgeDelete, db, Deleting
<1>2. CASE Ends(c)
  <2>1. UNCHANGED <<jobs, dir, agent>> /\ req[c].pc = "checked"
    BY <1>1, <1>2 DEF PurgeDelete, db, Ends, Idle
  <2>2. \A o \in Clients : req'[o] = req[o] \/ req'[o] = Idle
    BY <1>2 DEF Ends
  <2>3. Idle.job \notin Downloads /\ Idle.pc = "idle"
    BY CacheAssumption DEF Idle
  <2>4. \A d \in Downloads : Needed(d)' => Needed(d)
    BY <2>1, <2>2, <2>3 DEF Needed
  <2>5. HalfGone' /\ RowTrue'
    BY <1>1, <2>1, Quiet DEF HalfGone, RowTrue
  <2>6. AnswerTrue'
    BY <2>1, <2>2, <2>3 DEF FilesInv, AnswerTrue
  <2> QED BY <2>1, <2>4, <2>5, <2>6 DEF FilesInv, InPlace, JobTrue, agent
<1>3. CASE ~Ends(c)
  <2>1. req'[c].pc \in Deleting
    BY <1>1, <1>3 DEF PurgeDelete, Deleting
  <2>2. AnswerTrue' /\ InPlace' /\ JobTrue'
    BY <2>1, Beside
  <2>3. HalfGone' /\ RowTrue'
    BY <1>1, <1>3, <2>1 DEF PurgeDelete, HalfGone, RowTrue
  <2> QED BY <2>2, <2>3 DEF FilesInv
<1> QED BY <1>2, <1>3

\* While a purge deletes nothing is promised of the directory but by the row, and when it ends
\* the row does not say READY.
LEMMA PurgeTells ==
  ASSUME TypeInv, LockInv, ThreadInv, FilesInv, ~Overlapped, ~Unfinished,
         TypeInv', ThreadInv', ~Overlapped', ~Unfinished',
         NEW p \in Clients, req[p].pc \in Deleting, NEW c \in Clients, ClientAct(c)
  PROVE  FilesInv'
<1> USE DEF TypeInv, Types, ReqTypes, Request
<1>1. \A o \in Clients \ {p} : req[o] = Idle
  BY DEF Overlapped, RequestInv, Shape
<1>2. c = p
  <2> SUFFICES ASSUME c # p PROVE FALSE
    OBVIOUS
  <2>1. req[c].pc = "idle" /\ req'[p] = req[p]
    BY <1>1, RequestMoves DEF Idle
  <2>2. req'[c].pc = "idle"
    BY <2>1 DEF Overlapped
  <2>3. ~StartLock(c) /\ ~Poll(c) /\ ~Purge(c)
    BY <2>1, <2>2, NextAwait DEF Purge
  <2> QED BY <2>1, <2>3 DEF ClientAct, ClientStep, StartFails, SyncFails, StartFind, StartCall,
          InsertJob, Sync, List, CommitSync, PurgeCheck, PurgeDelete, PurgeRaises, PurgeCommit,
          BreaksOff
<1>3. ~PurgeRaises(c) /\ ~BreaksOff(c)
  <2>1. PurgeRaises(c) => req'[c].pc = "purged" /\ req'[c].answer = "FAILED"
    BY DEF PurgeRaises, Broken
  <2>2. BreaksOff(c) => req'[c].pc = req[c].pc /\ req'[c].answer = "FAILED"
    BY <1>2 DEF BreaksOff, PurgePCs
  <2> QED BY <1>2, <2>1, <2>2 DEF Unfinished, Deleting
<1>4. \/ PurgeDelete(c) /\ req[c].pc = "deleting"
      \/ PurgeCommit(c) /\ req[c].pc = "purged"
  BY <1>2, <1>3 DEF ClientAct, ClientStep, StartLock, Poll, Purge, StartFails, SyncFails, StartFind,
     StartCall, InsertJob, Sync, List, CommitSync, PurgeCheck, PurgeDelete, PurgeCommit, Deleting
<1>5. CASE PurgeDelete(c) /\ req[c].pc = "deleting"
  <2>1. req'[c].pc = "purged" /\ dir' = "absent"
    BY <1>5 DEF PurgeDelete
  <2>2. AnswerTrue' /\ InPlace' /\ JobTrue'
    BY <2>1, Beside DEF Deleting
  <2> QED BY <2>1, <2>2 DEF FilesInv, HalfGone, RowTrue, Deleting
<1>6. CASE PurgeCommit(c) /\ req[c].pc = "purged"
  <2>1. /\ Commits(c, [status |-> "MISSING", path |-> FALSE]) /\ Ends(c)
        /\ UNCHANGED <<jobs, dir, agent>>
    BY <1>2, <1>6 DEF PurgeCommit, Unfinished, Deleting
  <2>2. row'.status = "MISSING"
    BY <1>2, <2>1 DEF Commits, Written, Overlapped
  <2>3. \A o \in Clients : req'[o] = Idle
    BY <1>1, <1>2, <2>1 DEF Ends
  <2>4. dir # "partial"
    BY <1>1, <1>2, <1>6 DEF FilesInv, HalfGone, Idle
  <2>5. AnswerTrue' /\ JobTrue'
    <3>1. Idle.pc # "commit" /\ Idle.job \notin Downloads
      BY CacheAssumption DEF Idle
    <3>2. \A d \in Downloads : jobs[d] = "NONE"
      BY <1>2 DEF Overlapped
    <3> QED BY <2>1, <2>3, <3>1, <3>2 DEF AnswerTrue, JobTrue, Needed
  <2>6. InPlace'
    BY <2>1 DEF FilesInv, InPlace, agent
  <2> QED BY <2>1, <2>2, <2>4, <2>5, <2>6 DEF FilesInv, HalfGone, RowTrue
<1> QED BY <1>4, <1>5, <1>6

\* A thread works on the directory only while no purge deletes, and takes away only what does
\* not read as ready.
LEMMA ThreadsTell ==
  ASSUME TypeInv, ThreadInv, ~Overlapped, FilesInv, NEW d \in Downloads,
         Begin(d) \/ Fetch(d) \/ Settle(d) \/ Finish(d)
  PROVE  FilesInv'
<1> USE DEF TypeInv, Types, AgentTypes
<1>1. UNCHANGED <<row, jobs, req>>
  BY DEF Begin, Fetch, Settle, Finish, db
<1>2. CASE Finish(d)
  <2>1. /\ UNCHANGED <<dir, memory>>
        /\ \A e \in Downloads : thread'[e] = "promoted" => thread[e] = "promoted"
    BY <1>2 DEF Finish
  <2>2. InPlace' /\ JobTrue'
    BY <1>1, <2>1 DEF FilesInv, InPlace, JobTrue, Needed
  <2> QED BY <1>1, <2>1, <2>2 DEF FilesInv, HalfGone, RowTrue, AnswerTrue
<1>3. CASE Settle(d)
  <2>1. dir = "whole" /\ dir' = dir
    BY <1>3 DEF Settle, FilesInv, InPlace
  <2> QED BY <2>1 DEF FilesInv, HalfGone, RowTrue, InPlace, AnswerTrue, JobTrue
<1>4. CASE Fetch(d)
  <2>1. CASE dir' = "whole"
    BY <2>1 DEF FilesInv, HalfGone, RowTrue, InPlace, AnswerTrue, JobTrue
  <2>2. CASE /\ thread' = [thread EXCEPT ![d] = "settled"]
             /\ memory' = [memory EXCEPT ![d] = "FAILED"] /\ dir' = dir
    BY <1>1, <2>2 DEF FilesInv, HalfGone, RowTrue, InPlace, AnswerTrue, JobTrue, Needed
  <2> QED BY <1>4, <2>1, <2>2 DEF Fetch
<1>5. CASE Begin(d)
  <2>1. memory[d] \in Active
    BY <1>5 DEF Begin, ThreadInv, Active
  <2>2. \A c \in Clients : req[c].pc \notin Deleting
    BY <2>1 DEF Overlapped
  <2>3. dir # "partial" /\ (TRUE \in ReadsReady => dir = "whole")
        /\ (row.status = "READY" => dir = "whole")
    BY <2>2, Quiet
  <2>4. PICK ready \in ReadsReady :
          /\ memory' = [memory EXCEPT ![d] = IF ready THEN "READY" ELSE "DOWNLOADING"]
          /\ thread' = [thread EXCEPT ![d] = IF ready THEN "settled" ELSE "fetching"]
          /\ dir' = IF ready THEN dir ELSE "absent"
    BY <1>5 DEF Begin
  <2>5. ready \in BOOLEAN /\ (dir = "whole" => ready)
    BY <2>4, Reading
  <2>6. CASE dir = "whole"
    <3>1. dir' = "whole"
      BY <2>4, <2>5, <2>6
    <3> QED BY <3>1 DEF FilesInv, HalfGone, RowTrue, InPlace, AnswerTrue, JobTrue
  <2>7. CASE dir # "whole"
    <3>1. ~ready /\ dir' = "absent"
      BY <2>3, <2>4, <2>5, <2>7
    <3>2. HalfGone' /\ RowTrue' /\ AnswerTrue'
      BY <1>1, <2>3, <2>7, <3>1 DEF FilesInv, HalfGone, RowTrue, AnswerTrue
    <3>3. InPlace' /\ JobTrue'
      BY <1>1, <2>4, <2>7, <3>1 DEF FilesInv, InPlace, JobTrue, Needed
    <3> QED BY <3>2, <3>3 DEF FilesInv
  <2> QED BY <2>6, <2>7
<1> QED BY <1>2, <1>3, <1>4, <1>5

CacheInv == TypeInv /\ LockInv /\ ThreadInv /\ WatchInv /\ (anomaly = {} => FilesInv)

\* No step leaves a ready row without its files, but one by which a purge goes wrong.
LEMMA CacheKept == ASSUME CacheInv, [Next]_vars PROVE CacheInv'
<1>1. TypeInv' /\ LockInv' /\ ThreadInv' /\ WatchInv' /\ (anomaly' = {} => anomaly = {})
  BY TypesKept, LockKept, ThreadsKept, WatchKept DEF CacheInv
<1>2. ASSUME anomaly' = {} PROVE FilesInv'
  <2>0. /\ ~Overlapped /\ ~Unfinished /\ FilesInv
        /\ ~Overlapped' /\ ~Unfinished'
    BY <1>1, <1>2 DEF CacheInv, WatchInv
  <2>1. ASSUME NEW c \in Clients, ClientAct(c) PROVE FilesInv'
    <3>1. ASSUME NEW p \in Clients, req[p].pc \in Deleting PROVE FilesInv'
      BY <1>1, <2>0, <2>1, <3>1, PurgeTells DEF CacheInv
    <3>2. ASSUME \A p \in Clients : req[p].pc \notin Deleting PROVE FilesInv'
      BY <1>1, <2>0, <2>1, <3>2, PurgeBegins, RequestTells DEF CacheInv
    <3> QED BY <3>1, <3>2
  <2>2. ASSUME NEW d \in Downloads, Begin(d) \/ Fetch(d) \/ Settle(d) \/ Finish(d) PROVE FilesInv'
    BY <2>0, <2>2, ThreadsTell DEF CacheInv
  <2>3. CASE Restart
    <3>1. \A c \in Clients : req[c].pc # "deleting"
      <4>1. ASSUME NEW c \in Clients, req[c].pc = "deleting"
            PROVE  req'[c].pc = "purged" /\ req'[c].answer = "FAILED"
        BY <2>3, <4>1 DEF Restart, Broken, CacheInv, TypeInv, Types, ReqTypes, Request
      <4> QED BY <2>0, <4>1 DEF Unfinished, Deleting
    <3>2. /\ UNCHANGED <<row, dir>>
          /\ \A c \in Clients : req[c].pc \in {"purged", "commit"} => req'[c] = req[c]
          /\ \A c \in Clients : req'[c].pc = "commit" => req'[c] = req[c]
      BY <2>3, <3>1 DEF Restart, db, Idle
    <3>3. InPlace' /\ JobTrue'
      BY <2>3 DEF Restart, InPlace, JobTrue
    <3>4. HalfGone' /\ RowTrue' /\ AnswerTrue'
      BY <2>0, <3>1, <3>2 DEF FilesInv, HalfGone, RowTrue, AnswerTrue, Deleting
    <3> QED BY <3>3, <3>4 DEF FilesInv
  <2>4. CASE UNCHANGED vars
    BY <2>0, <2>4 DEF vars, db, agent, FilesInv, HalfGone, RowTrue, InPlace, AnswerTrue, JobTrue,
       Needed
  <2> QED BY <2>1, <2>2, <2>3, <2>4, Steps
<1> QED BY <1>1, <1>2 DEF CacheInv

\* A READY row always has its files, for any number of requests, purges, lost calls and restarts
\* of the agent, through concurrent downloads, shared and forgotten jobs, late answers and
\* purges that are refused or succeed, whatever ran until they began to delete.  It no longer
\* holds once a purge has broken off half-way, or something has run beside its deletion: the
\* run CachePurgeRaces shows it.
THEOREM ReadyRows == Spec => []ReadyRowHasFiles
<1>1. Init => CacheInv
  <2>1. Init => LockInv /\ ThreadInv /\ WatchInv
    BY CacheAssumption DEF Init, LockInv, ThreadInv, WatchInv, Overlapped, Unfinished, Idle,
       PurgePCs, Deleting
  <2>2. Init => FilesInv
    BY DEF Init, FilesInv, HalfGone, RowTrue, InPlace, AnswerTrue, JobTrue, Idle
  <2> QED BY <2>1, <2>2, TypesAtStart DEF CacheInv
<1>2. CacheInv /\ [Next]_vars => CacheInv'
  BY CacheKept
<1>3. CacheInv => ReadyRowHasFiles
  BY DEF CacheInv, FilesInv, RowTrue, ReadyRowHasFiles
<1> QED BY <1>1, <1>2, <1>3, PTL DEF Spec
=============================================================================
