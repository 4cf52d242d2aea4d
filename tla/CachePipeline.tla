---------------------------- MODULE CachePipeline ----------------------------
(***************************************************************************)
(* One model on one node, from its download to its purge.  The Management  *)
(* API keeps a cache row and download jobs in the database; the node agent *)
(* keeps jobs in memory, one thread per download, and the directory on     *)
(* disk.  Only the row says READY; only the directory can be served.       *)
(*                                                                         *)
(* A request is a sequence of awaits, and every await is a step of its own *)
(* here.  The database session keeps what it has read (view, seen) and     *)
(* writes at commit what it changed since (Writes): rows are not re-read,  *)
(* which is what makes late answers and stale rows possible.               *)
(***************************************************************************)
EXTENDS Naturals, FiniteSets

CONSTANTS
    Clients,      \* concurrent requests of the Management API
    Downloads,    \* slots for downloads: an agent job and the job row made for it
    Nobody,       \* no client, no job
    MaxFaults,    \* how many requests and deletions break off and agents restart
    MaxPurges     \* how many purges are asked for

ASSUME CacheAssumption ==
    /\ MaxFaults \in Nat /\ MaxPurges \in Nat
    /\ Nobody \notin Clients \cup Downloads

VARIABLES
    row,        \* node_model_cache: its status, and whether local_path is set
    jobs,       \* model_cache_download_job: the status of a download's row,
                \* "NONE" once it is settled (nothing reads it again)
    rowLock,    \* who has written the row and not committed
    advisory,   \* who holds pg_advisory_xact_lock of this model and node
    req,        \* the requests of the Management API
    memory,     \* the agent's _jobs: their status
    activeKey,  \* the agent's _active_keys entry of this model
    thread,     \* where each download thread of the agent is
    dir,        \* the model's directory
    faults, purges,
    anomaly     \* how purges have gone wrong so far; no action reads it

db == <<row, jobs, rowLock, advisory>>
agent == <<memory, activeKey, thread>>
bounds == <<faults, purges>>
vars == <<db, req, agent, dir, bounds, anomaly>>

Active == {"QUEUED", "DOWNLOADING"}   \* RESOLVING .. VERIFYING are DOWNLOADING
Statuses == Active \cup {"READY", "FAILED"}
RowStatuses == {"NONE", "PREPARING", "READY", "FAILED", "MISSING"}

Idle == [pc |-> "idle", job |-> Nobody, seen |-> "NONE",
         view |-> [status |-> "NONE", path |-> FALSE], answer |-> "NONE"]

\* A purge has its answer once it is "purged"; one whose answer is "FAILED" has
\* nobody who waits for it, or has raised.
Deleting == {"deleting", "purged"}
PurgePCs == {"purging", "checked"} \cup Deleting

TypeOK ==
    /\ row \in [status: RowStatuses, path: BOOLEAN]
    /\ jobs \in [Downloads -> Active \cup {"NONE"}]
    /\ Cardinality({d \in Downloads : jobs[d] # "NONE"}) <= 1
    /\ rowLock \in Clients \cup {Nobody}
    /\ advisory \in Clients \cup {Nobody}
    /\ req \in [Clients -> [pc: {"idle", "locked", "calling", "inserting", "sync",
                                 "listing", "commit"} \cup PurgePCs,
                            job: Downloads \cup {Nobody}, seen: Active \cup {"NONE"},
                            view: [status: RowStatuses, path: BOOLEAN],
                            answer: Statuses \cup {"NONE"}]]
    /\ memory \in [Downloads -> Statuses \cup {"NONE"}]
    /\ activeKey \in Downloads \cup {Nobody}
    /\ thread \in [Downloads -> {"none", "waiting", "fetching", "promoted", "settled"}]
    /\ Cardinality({d \in Downloads : thread[d] \notin {"none", "waiting"}}) <= 1
    /\ dir \in {"absent", "partial", "whole"}
    /\ faults \in 0..MaxFaults /\ purges \in 0..MaxPurges
    /\ anomaly \subseteq {"purge overlapped", "purge unfinished"}

Init ==
    /\ row = [status |-> "NONE", path |-> FALSE]
    /\ jobs = [d \in Downloads |-> "NONE"]
    /\ rowLock = Nobody /\ advisory = Nobody
    /\ req = [c \in Clients |-> Idle]
    /\ memory = [d \in Downloads |-> "NONE"]
    /\ activeKey = Nobody
    /\ thread = [d \in Downloads |-> "none"]
    /\ dir = "absent"
    /\ faults = 0 /\ purges = 0 /\ anomaly = {}

-----------------------------------------------------------------------------
(* Helpers *)

ActiveJobs == {d \in Downloads : jobs[d] # "NONE"}

\* Beside a purge that has begun to delete there is another request or a
\* download, or its commit will write nothing: it read the row as MISSING.
Overlapped == \E c \in Clients :
    /\ req[c].pc \in Deleting
    /\ \/ \E other \in Clients \ {c} : req[other].pc # "idle"
       \/ \E d \in Downloads : jobs[d] # "NONE" \/ memory[d] \in Active
       \/ req[c].view.status = "MISSING" /\ row.status # "MISSING"

\* A purge that has begun to delete raises, or its caller is gone.
Unfinished == \E c \in Clients : req[c].pc \in Deleting /\ req[c].answer = "FAILED"

Watch == anomaly' = anomaly \cup (IF Overlapped' THEN {"purge overlapped"} ELSE {})
                            \cup (IF Unfinished' THEN {"purge unfinished"} ELSE {})

\* A call that fails: a timeout, a 5xx, a lost answer; a crash.
Fault == faults < MaxFaults /\ faults' = faults + 1 /\ UNCHANGED purges

\* A directory with weight files or the marker reads as ready; one that is
\* half deleted may still have either.
ReadsReady == CASE dir = "whole" -> {TRUE} [] dir = "absent" -> {FALSE} [] OTHER -> BOOLEAN

\* What c's session writes of the row when its view becomes new: what it has
\* changed, and all it has flushed before.
Written(c, new) ==
    [status |-> IF rowLock = c \/ new.status # req[c].view.status THEN new.status ELSE row.status,
     path |-> IF new.path # req[c].view.path THEN new.path ELSE row.path]

\* The commit writes the row, waiting for whoever has it locked.
Commits(c, new) ==
    /\ Written(c, new) # row => rowLock \in {c, Nobody}
    /\ row' = Written(c, new)
    /\ rowLock' = IF rowLock = c THEN Nobody ELSE rowLock
    /\ advisory' = IF advisory = c THEN Nobody ELSE advisory

\* The transaction is rolled back.
RolledBack(c) ==
    /\ rowLock' = IF rowLock = c THEN Nobody ELSE rowLock
    /\ advisory' = IF advisory = c THEN Nobody ELSE advisory
    /\ UNCHANGED <<row, jobs>>

Ends(c) == req' = [req EXCEPT ![c] = Idle]

\* A purge that is over without success.
Broken(c) == [req[c] EXCEPT !.pc = "purged", !.answer = "FAILED"]

-----------------------------------------------------------------------------
(* start_download *)

\* The advisory lock, the registry rows, and the row: READY stays, any other
\* status is flushed as PREPARING, which keeps the row locked until commit.
StartLock(c) ==
    /\ req[c].pc = "idle"
    /\ advisory = Nobody
    /\ LET kept == row.status \in {"READY", "PREPARING"} IN
       /\ ~kept => rowLock = Nobody
       /\ rowLock' = IF kept THEN rowLock ELSE c
       /\ req' = [req EXCEPT ![c].pc = "locked",
                             ![c].view = IF kept THEN row ELSE [row EXCEPT !.status = "PREPARING"]]
    /\ advisory' = c
    /\ UNCHANGED <<row, jobs, agent, dir, bounds>> /\ Watch

\* An active job is shared; a READY row needs no agent (the job row that
\* records it is READY from the start and nothing looks at it again).
StartFind(c) ==
    /\ req[c].pc = "locked"
    /\ \/ \E d \in ActiveJobs :
            /\ req' = [req EXCEPT ![c].pc = "sync", ![c].job = d, ![c].seen = jobs[d]]
            /\ UNCHANGED db
       \/ /\ ActiveJobs = {}
          /\ req[c].view = [status |-> "READY", path |-> TRUE]
          /\ Commits(c, req[c].view) /\ Ends(c)
          /\ UNCHANGED jobs
       \/ /\ ActiveJobs = {}
          /\ req[c].view # [status |-> "READY", path |-> TRUE]
          /\ req' = [req EXCEPT ![c].pc = "calling"]
          /\ UNCHANGED db
    /\ UNCHANGED <<agent, dir, bounds>> /\ Watch

\* The agent's start_download: a ready directory is a job done, a running
\* download is shared, otherwise a new thread waits for the key lock.  A slot
\* is taken again when nothing can ask for its job any more.
Unused(d) ==
    /\ thread[d] = "none" /\ activeKey # d
    /\ jobs[d] = "NONE" /\ \A c \in Clients : req[c].job # d

Fresh(d) == Unused(d) /\ d = CHOOSE e \in Downloads : Unused(e)

AgentStart(d) ==
    \/ /\ TRUE \in ReadsReady /\ Fresh(d)
       /\ memory' = [memory EXCEPT ![d] = "READY"]
       /\ UNCHANGED <<activeKey, thread>>
    \/ /\ FALSE \in ReadsReady
       /\ d = activeKey /\ memory[d] \in Active
       /\ UNCHANGED agent
    \/ /\ FALSE \in ReadsReady /\ Fresh(d)
       /\ activeKey # Nobody => memory[activeKey] \notin Active
       /\ memory' = [memory EXCEPT ![d] = "QUEUED"]
       /\ thread' = [thread EXCEPT ![d] = "waiting"]
       /\ activeKey' = d

StartCall(c) ==
    /\ req[c].pc = "calling"
    /\ \E d \in Downloads :
         /\ AgentStart(d)
         /\ req' = [req EXCEPT ![c].pc = "inserting", ![c].job = d, ![c].answer = memory'[d]]
    /\ UNCHANGED <<db, dir, bounds>> /\ Watch

\* No answer: the row is FAILED, and the agent may have started all the same.
StartFails(c) ==
    /\ req[c].pc = "calling" /\ Fault
    /\ UNCHANGED agent \/ \E d \in Downloads : AgentStart(d)
    /\ Commits(c, [req[c].view EXCEPT !.status = "FAILED"]) /\ Ends(c)
    /\ UNCHANGED <<jobs, dir>> /\ Watch

\* The job row is committed; the partial unique index lets one job be active.
\* The request takes up that one, or breaks if it has been settled meanwhile.
InsertJob(c) ==
    /\ req[c].pc = "inserting"
    /\ LET d == req[c].job  status == req[c].answer IN
       \/ /\ status \in Active => ActiveJobs = {}
          /\ jobs' = IF status \in Active THEN [jobs EXCEPT ![d] = status] ELSE jobs
          /\ Commits(c, req[c].view)
          /\ req' = [req EXCEPT ![c].pc = "sync", ![c].answer = "NONE",
                                ![c].seen = IF status \in Active THEN status ELSE "NONE"]
       \/ /\ status \in Active
          /\ \E e \in ActiveJobs :
               req' = [req EXCEPT ![c].pc = "sync", ![c].answer = "NONE", ![c].job = e,
                                  ![c].seen = jobs[e], ![c].view = row]
          /\ RolledBack(c)
       \/ /\ status \in Active /\ ActiveJobs # {}
          /\ RolledBack(c) /\ Ends(c)
    /\ UNCHANGED <<agent, dir, bounds>> /\ Watch

-----------------------------------------------------------------------------
(* get_download_job and _sync_job_from_agent *)

\* Only an active job is looked up at the agent.
Poll(c) ==
    /\ req[c].pc = "idle"
    /\ \E d \in ActiveJobs :
         req' = [req EXCEPT ![c].pc = "sync", ![c].job = d, ![c].seen = jobs[d],
                            ![c].view = row]
    /\ UNCHANGED <<db, agent, dir, bounds>> /\ Watch

\* A forgotten job is taken for an agent that cannot be reached.
SyncBug(c) ==
    /\ req[c].pc = "sync"
    /\ IF memory[req[c].job] = "NONE"
       THEN Commits(c, req[c].view) /\ Ends(c) /\ UNCHANGED jobs
       ELSE /\ req' = [req EXCEPT ![c].pc = "commit", ![c].answer = memory[req[c].job]]
            /\ UNCHANGED db
    /\ UNCHANGED <<agent, dir, bounds>> /\ Watch

\* The agent answers, or has forgotten the job.
Sync(c) ==
    /\ req[c].pc = "sync"
    /\ LET status == memory[req[c].job] IN
       req' = IF status = "NONE" THEN [req EXCEPT ![c].pc = "listing"]
              ELSE [req EXCEPT ![c].pc = "commit", ![c].answer = status]
    /\ UNCHANGED <<db, agent, dir, bounds>> /\ Watch

\* A job the agent has forgotten is taken for done.
ListedBug(ready) == "READY"

\* _reconcile_lost_agent_job: a listed entry is the download, done; without
\* one the download is lost.
Listed(ready) == IF ready THEN "READY" ELSE "FAILED"

List(c) ==
    /\ req[c].pc = "listing"
    /\ \E ready \in ReadsReady :
         req' = [req EXCEPT ![c].pc = "commit", ![c].answer = Listed(ready)]
    /\ UNCHANGED <<db, agent, dir, bounds>> /\ Watch

\* The agent cannot be reached: the job stays active.
SyncFails(c) ==
    /\ req[c].pc \in {"sync", "listing"} /\ Fault
    /\ Commits(c, req[c].view) /\ Ends(c)
    /\ UNCHANGED <<jobs, agent, dir>> /\ Watch

Synced(view, answer) ==
    CASE answer = "READY" -> [status |-> "READY", path |-> TRUE]
      [] answer = "FAILED" -> [view EXCEPT !.status = "FAILED"]
      [] OTHER -> [view EXCEPT !.status = "PREPARING"]

\* Job and row are written together.  The index refuses an update that would
\* make a second job active: the request breaks and nothing is written.
CommitSync(c) ==
    /\ req[c].pc = "commit"
    /\ LET d == req[c].job
           answer == req[c].answer
           changed == answer # req[c].seen
       IN \/ /\ changed /\ answer \in Active /\ ActiveJobs \ {d} # {}
             /\ RolledBack(c)
          \/ /\ changed /\ answer \in Active => ActiveJobs \subseteq {d}
             /\ jobs' = IF ~changed THEN jobs
                        ELSE [jobs EXCEPT ![d] = IF answer \in Active THEN answer ELSE "NONE"]
             /\ Commits(c, Synced(req[c].view, answer))
    /\ Ends(c)
    /\ UNCHANGED <<agent, dir, bounds>> /\ Watch

-----------------------------------------------------------------------------
(* The agent's download threads *)

\* The key lock is released as soon as the job has its status.
BusyBug == {d \in Downloads : thread[d] \in {"fetching", "promoted"}}

\* The threads that hold the key lock: at most one, until it has finished.
Busy == {d \in Downloads : thread[d] \notin {"none", "waiting"}}

\* _run_job takes the key lock; a ready directory ends it, leftovers go.
Begin(d) ==
    /\ thread[d] = "waiting" /\ Busy = {}
    /\ \E ready \in ReadsReady :
         /\ memory' = [memory EXCEPT ![d] = IF ready THEN "READY" ELSE "DOWNLOADING"]
         /\ thread' = [thread EXCEPT ![d] = IF ready THEN "settled" ELSE "fetching"]
         /\ dir' = IF ready THEN dir ELSE "absent"
    /\ UNCHANGED <<db, req, activeKey, bounds>> /\ Watch

\* Download, materialise and verify in the staging directory, which nobody
\* else reads; os.replace then puts it in place.  Any error ends the job FAILED.
Fetch(d) ==
    /\ thread[d] = "fetching"
    /\ \/ /\ thread' = [thread EXCEPT ![d] = "promoted"] /\ dir' = "whole"
          /\ UNCHANGED memory
       \/ /\ thread' = [thread EXCEPT ![d] = "settled"]
          /\ memory' = [memory EXCEPT ![d] = "FAILED"]
          /\ UNCHANGED dir
    /\ UNCHANGED <<db, req, activeKey, bounds>> /\ Watch

\* A READY status follows os.replace.
Settle(d) ==
    /\ thread[d] = "promoted"
    /\ memory' = [memory EXCEPT ![d] = "READY"]
    /\ thread' = [thread EXCEPT ![d] = "settled"]
    /\ UNCHANGED <<db, req, activeKey, dir, bounds>> /\ Watch

\* The key is dropped if it is still this job's, the key lock released.
Finish(d) ==
    /\ thread[d] = "settled"
    /\ thread' = [thread EXCEPT ![d] = "none"]
    /\ activeKey' = IF activeKey = d THEN Nobody ELSE activeKey
    /\ UNCHANGED <<db, req, memory, dir, bounds>> /\ Watch

\* The agent restarts: jobs and threads are gone, the directory is as it was,
\* and a purge has no answer.
Restart ==
    /\ Fault
    /\ memory' = [d \in Downloads |-> "NONE"]
    /\ thread' = [d \in Downloads |-> "none"]
    /\ activeKey' = Nobody
    /\ req' = [c \in Clients |->
                 CASE req[c].pc \in {"purging", "checked"} -> Idle
                   [] req[c].pc = "deleting" -> Broken(c)
                   [] OTHER -> req[c]]
    /\ UNCHANGED <<db, dir>> /\ Watch

-----------------------------------------------------------------------------
(* purge_cache and the agent's purge *)

\* No deployment blocks it and no job is active: looked at without a lock.
Purge(c) ==
    /\ req[c].pc = "idle" /\ row.status # "NONE"
    /\ ActiveJobs = {}
    /\ purges < MaxPurges /\ purges' = purges + 1
    /\ req' = [req EXCEPT ![c].pc = "purging", ![c].view = row]
    /\ UNCHANGED <<db, agent, dir, faults>> /\ Watch

\* The agent refuses while a job of the model is active, and releases its lock.
PurgeCheck(c) ==
    /\ req[c].pc = "purging"
    /\ IF \E d \in Downloads : memory[d] \in Active
       THEN Ends(c) ELSE req' = [req EXCEPT ![c].pc = "checked"]
    /\ UNCHANGED <<db, agent, dir, bounds>> /\ Watch

\* Nor does it delete what a container mounts, or what Docker cannot tell of;
\* rmtree takes its time: first some of the files, then the rest.
PurgeDelete(c) ==
    /\ \/ /\ req[c].pc = "checked"
          /\ Ends(c) /\ UNCHANGED dir
       \/ /\ req[c].pc = "checked" /\ dir = "absent"
          /\ req' = [req EXCEPT ![c].pc = "purged"]
          /\ UNCHANGED dir
       \/ /\ req[c].pc = "checked" /\ dir # "absent"
          /\ req' = [req EXCEPT ![c].pc = "deleting"]
          /\ dir' = "partial"
       \/ /\ req[c].pc = "deleting" /\ dir = "partial"
          /\ req' = [req EXCEPT ![c].pc = "purged"]
          /\ dir' = "absent"
    /\ UNCHANGED <<db, agent, bounds>> /\ Watch

\* rmtree raises half-way: on an error, or because a download has cleared or
\* replaced the directory under it.
PurgeRaises(c) ==
    /\ req[c].pc = "deleting"
    /\ Fault \/ (dir # "partial" /\ UNCHANGED bounds)
    /\ req' = [req EXCEPT ![c] = Broken(c)]
    /\ UNCHANGED <<db, agent, dir>> /\ Watch

\* Without an answer the row stays as it is.
PurgeCommit(c) ==
    /\ req[c].pc = "purged"
    /\ IF req[c].answer = "FAILED" THEN RolledBack(c)
       ELSE Commits(c, [status |-> "MISSING", path |-> FALSE]) /\ UNCHANGED jobs
    /\ Ends(c)
    /\ UNCHANGED <<agent, dir, bounds>> /\ Watch

-----------------------------------------------------------------------------
(* Any request *)

\* The request breaks off: its transaction is rolled back.  The agent does not
\* learn of it and goes on with a purge.
BreaksOff(c) ==
    /\ req[c].pc # "idle" /\ Fault
    /\ \/ /\ req[c].pc \notin PurgePCs
          /\ RolledBack(c) /\ Ends(c)
       \/ /\ req[c].pc \in PurgePCs /\ req[c].answer # "FAILED"
          /\ req' = [req EXCEPT ![c].answer = "FAILED"]
          /\ UNCHANGED db
    /\ UNCHANGED <<agent, dir>> /\ Watch

-----------------------------------------------------------------------------
ClientStep(c) ==
    \/ StartFind(c) \/ StartCall(c) \/ InsertJob(c)
    \/ Sync(c) \/ List(c) \/ CommitSync(c)
    \/ PurgeCheck(c) \/ PurgeDelete(c) \/ PurgeRaises(c) \/ PurgeCommit(c)

ThreadStep(d) == Begin(d) \/ Fetch(d) \/ Settle(d) \/ Finish(d)

Next ==
    \/ \E c \in Clients :
         \/ StartLock(c) \/ Poll(c) \/ Purge(c)
         \/ StartFails(c) \/ SyncFails(c) \/ BreaksOff(c)
         \/ ClientStep(c)
    \/ \E d \in Downloads : ThreadStep(d)
    \/ Restart

\* Threads go on, and so does some request: one that is under way, or the poll of a page
\* that shows a running download.  None of them is owed its turn.
Fairness ==
    /\ WF_vars(\E c \in Clients : Poll(c) \/ ClientStep(c))
    /\ WF_vars(\E d \in Downloads : ThreadStep(d))

Spec == Init /\ [][Next]_vars /\ Fairness

-----------------------------------------------------------------------------
(* Properties *)

\* The row says READY, and the create path trusts it, only while the whole
\* directory is on the node, unless a purge has broken off with some of the
\* files deleted, or another request or a download ran beside the deletion.
ReadyRowHasFiles ==
    /\ anomaly = {}
    /\ row.status = "READY" /\ \A c \in Clients : req[c].pc \notin Deleting
    => dir = "whole"

\* A download the operator sees as running (there is one at a time) is settled in the end,
\* though the agent may restart and forget it, answers come late and the row is locked.
DownloadsSettle == []<>(ActiveJobs = {})
=============================================================================
