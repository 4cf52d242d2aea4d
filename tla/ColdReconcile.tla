---------------------------- MODULE ColdReconcile ---------------------------
(***************************************************************************)
(* What becomes of a cold switch that was handed to the operator.  Every   *)
(* worker sweeps over the operations in MANUAL_INTERVENTION_REQUIRED       *)
(* before it looks for a job: it claims one, takes the switch's advisory   *)
(* locks, observes the gateway and both containers, and ends or resumes    *)
(* the operation if the observations prove what to do.                     *)
(*                                                                         *)
(* The steps, the flags and the error of the operation are read before     *)
(* the locks are taken, the routing rows after; nobody but the gateway     *)
(* moves while they are held, so looking and deciding are one action.      *)
(***************************************************************************)
EXTENDS ColdSwitch

CONSTANTS
  Sweepers,            \* worker processes, in their role as reconcilers
  MaxSweeps,           \* reconcile_max_attempts
  AgentReportsHealth   \* does GET /internal/v1/deployments/{id} answer a health_status?

ASSUME SweepAssumption == MaxSweeps \in Nat /\ AgentReportsHealth \in BOOLEAN

VARIABLES
  err,      \* operation.error_code: "unsafe" (UNSAFE_DETERMINISTIC_CODES), "transient"
            \* (GATEWAY_TIMEOUT_CODES and WORKER_INTERNAL_ERROR), "other"
  started,  \* has Target's container ever run?  Docker tells CREATED from exited
  sweeps,   \* metadata_json.reconciliation_attempt_count
  sweeper,  \* each sweeper: what it does, and what it read before it had the locks
  stale     \* history: has the operation been resumed from facts that were out of date?

sweepVars == <<err, started, sweeps, sweeper, stale>>
allVars   == <<vars, sweepVars>>

Resting == [at |-> "rest", attempt |-> 0, boundary |-> FALSE, cancel |-> FALSE,
            err |-> "other", probed |-> FALSE, forward |-> NoStep, back |-> NoStep,
            undoing |-> FALSE]

\* Every sweeper remembers one operation's facts, or none.
SweepTypeOK ==
  /\ err \in {"unsafe", "transient", "other"} /\ started \in BOOLEAN /\ sweeps \in Nat
  /\ stale \in BOOLEAN
  /\ sweeper \in [Sweepers ->
       [at : {"rest", "claimed", "record"}, attempt : Nat, boundary : BOOLEAN,
        cancel : BOOLEAN, err : {"unsafe", "transient", "other"}, probed : BOOLEAN,
        forward : ForwardSteps \cup {NoStep}, back : RollbackSteps \cup {NoStep},
        undoing : BOOLEAN]]

InitR ==
  /\ Init
  /\ err = "other" /\ started = FALSE /\ sweeps = 0 /\ stale = FALSE
  /\ sweeper = [w \in Sweepers |-> Resting]

-----------------------------------------------------------------------------
(* The switch goes on as before, but for the locks: a worker that finds    *)
(* them held gives the job back as it was.                                 *)

LocksFree == \A w \in Sweepers : sweeper[w].at # "record"

\* The codes of a failure, by the step that failed.
MayBeUnsafe(s) == s \in Probes \cup DOMAIN ActivateOf \cup {"START_TARGET", "FINALIZE", NoStep}
ErrorsOf(s) == {"transient", "other"} \cup (IF MayBeUnsafe(s) THEN {"unsafe"} ELSE {})

\* _best_effort_set_traffic swallows what keeps it from closing the endpoint.
BestEffortFails ==
  /\ pc = "manual" \/ (pc = "aborted" /\ Destructive)
  /\ pc' = "escalate"
  /\ UNCHANGED <<operationVars, routingVars, deployVars, nodeVars, gatewayVars, cur, want,
                 boundVars, anomaly>>

SwitchStep ==
  /\ Next \/ BestEffortFails
  /\ pc = "idle" /\ pc' # "idle" => LocksFree
  /\ status # status' /\ status' = "MANUAL_INTERVENTION_REQUIRED"
       => err' \in ErrorsOf(cur)
  /\ status = status' \/ status' # "MANUAL_INTERVENTION_REQUIRED" => err' = err
  /\ started' = (started \/ cont'["target"] = "running")
  /\ UNCHANGED <<sweeps, sweeper, stale>>

-----------------------------------------------------------------------------
(* What a sweeper knows.                                                   *)

First(sequence, codes) ==
  LET at == {i \in DOMAIN sequence : step[sequence[i]] \in codes}
  IN  IF at = {} THEN NoStep ELSE sequence[CHOOSE i \in at : \A k \in at : i <= k]

\* _failed_or_open_rollback_step: a broken step before a step not begun.
OpenBack ==
  IF First(Rollback, {"FAILED", "RUNNING"}) # NoStep
    THEN First(Rollback, {"FAILED", "RUNNING"}) ELSE First(Rollback, {"PENDING"})

\* FORWARD_RESUME_STEPS.
Resumable == SubSeq(Forward, 11, 14)
OpenForward == First(Resumable, {"FAILED", "RUNNING", "PENDING"})

Facts == [at |-> "claimed", attempt |-> sweeps + 1, boundary |-> boundary, cancel |-> cancel,
          err |-> err, probed |-> step["PROBE_TARGET"] = "SUCCEEDED",
          forward |-> OpenForward, back |-> OpenBack,
          undoing |-> \E s \in RollbackSteps : step[s] = "SUCCEEDED"]

\* The node agent's runtime_status.
RuntimeOf(d) ==
  CASE cont[d] = "running" -> "RUNNING"
    [] d = "target" /\ ~started -> "CREATED"
    [] OTHER -> "STOPPED"
Runs(d) == RuntimeOf(d) = "RUNNING"

\* Everybody answers, and in agreement: nothing is decided from the rows' runtime or
\* health.  H is the set of deployments the agent calls HEALTHY.
Observable ==
  /\ AgentReportsHealth /\ \A d \in Deployments : cont[d] # "absent"
  /\ route # "other"
  /\ "none" \in {route, gw.active} \/ route = gw.active
  /\ (\A d \in Deployments : Runs(d)) => gw.active \in Deployments

\* _target_fully_serving and _source_fully_restored, each but for the other deployment.
Serves(d, H) ==
  /\ route = d /\ traffic = "SERVING"
  /\ gw.active = d /\ gw.traffic = "SERVING" /\ gw.ver >= ver
  /\ Runs(d) /\ d \in H
TargetServes(f, H) == f.probed /\ Serves("target", H) /\ RuntimeOf("source") = "STOPPED"

\* What the observations prove, in the order in which the code asks.
Conclusive(f) == Observable /\ (f.err = "unsafe" => f.probed)
CancelProven(f, H)   == Serves("source", H) /\ f.cancel /\ ~f.boundary
RollbackProven(f, H) ==
  Serves("source", H) /\ ~CancelProven(f, H) /\ RuntimeOf("target") = "STOPPED"
\* Source serves and Target was not stopped yet; or the rollback was under way.
UndoProven(f, H) ==
  /\ f.boundary /\ f.back # NoStep /\ ~TargetServes(f, H)
  /\ \/ Serves("source", H) /\ RuntimeOf("target") # "STOPPED"
     \/ /\ ~Serves("source", H) /\ f.err # "unsafe"
        /\ \/ route = "target" \/ f.undoing
           \/ traffic = "MAINTENANCE" /\ ~Runs("source")
\* _forward_resume_safe, of an operation that failed for want of the gateway.
FinishProven(f, H) ==
  /\ f.boundary /\ f.forward # NoStep /\ ~UndoProven(f, H) /\ ~TargetServes(f, H)
  /\ f.err = "transient" /\ f.probed /\ route = "target"
  /\ Runs("target") /\ "target" \in H /\ RuntimeOf("source") = "STOPPED"

-----------------------------------------------------------------------------
(* What a sweeper does.                                                    *)

SwitchUnchanged == UNCHANGED <<vars, err, started, stale>>
SwitchButFaultsUnchanged ==
  UNCHANGED <<operationVars, routingVars, deployVars, nodeVars, gatewayVars, workerVars,
              anomaly, err, started, stale>>

\* One more fault of the MaxFaults.
Oversleep == faults < MaxFaults /\ faults' = faults + 1 /\ UNCHANGED edits

\* claim_mir_cold_switch_ids, then what is read without the locks.  The claim holds for
\* two minutes: a sweeper that oversleeps wakes up to another one's work.
SweepClaim(w) ==
  /\ sweeper[w].at = "rest"
  /\ status = "MANUAL_INTERVENTION_REQUIRED" /\ sweeps < MaxSweeps
  /\ sweeper' = [sweeper EXCEPT ![w] = Facts]
  /\ \/ (\A v \in Sweepers : sweeper[v].at = "rest") /\ SwitchUnchanged
     \/ Oversleep /\ SwitchButFaultsUnchanged
  /\ UNCHANGED sweeps

\* Somebody works on the operation: this attempt does not count.
LocksBusyBug(w) ==
  /\ sweeper[w].at = "claimed" /\ (pc # "idle" \/ ~LocksFree)
  /\ sweeper' = [sweeper EXCEPT ![w] = Resting]
  /\ sweeps' = sweeps - 1
  /\ SwitchUnchanged
LocksBusy(w) ==
  /\ sweeper[w].at = "claimed" /\ (pc # "idle" \/ ~LocksFree)
  /\ sweeper' = [sweeper EXCEPT ![w] = Resting]
  /\ sweeps' = sweeper[w].attempt - 1
  /\ SwitchUnchanged

\* The locks are there.
Locked(w) == sweeper[w].at = "claimed" /\ pc = "idle" /\ LocksFree
StaleBug(w) == Locked(w)
Decides(w)  == Locked(w) /\ status = "MANUAL_INTERVENTION_REQUIRED"

\* Not with the operator any more.
SkipSweep(w) ==
  /\ Locked(w) /\ status # "MANUAL_INTERVENTION_REQUIRED"
  /\ sweeper' = [sweeper EXCEPT ![w] = Resting]
  /\ UNCHANGED sweeps /\ SwitchUnchanged

\* reconcile_mir_to_terminal and reopen_mir_for_resume commit the operation, its job and a
\* step; the attempt is recorded in a commit of its own, the locks still held.
Decided(w) ==
  /\ sweeper' = [sweeper EXCEPT ![w].at = "record"]
  /\ UNCHANGED <<attempts, cancel, boundary, reqVer, routingVars, rt, hl, nodeVars, gatewayVars,
                 workerVars, boundVars, anomaly, err, started, sweeps>>

OnlyStatusBug(w, H) ==
  /\ Decides(w) /\ Conclusive(sweeper[w]) /\ TargetServes(sweeper[w], H)
  /\ status' = "SUCCEEDED" /\ job' = "DONE" /\ UNCHANGED <<desired, step, stale>>
  /\ Decided(w)
SweepSucceeds(w, H) ==
  /\ Decides(w) /\ Conclusive(sweeper[w]) /\ TargetServes(sweeper[w], H)
  /\ status' = "SUCCEEDED" /\ job' = "DONE" /\ desired' = FinalDesired
  /\ step' = IF step["FINALIZE"] = "FAILED" THEN [step EXCEPT !["FINALIZE"] = "SUCCEEDED"]
                                            ELSE step
  /\ UNCHANGED stale /\ Decided(w)

SweepCancels(w, H) ==
  /\ Decides(w) /\ Conclusive(sweeper[w]) /\ CancelProven(sweeper[w], H) /\ ~Runs("target")
  /\ status' = "CANCELLED" /\ job' = "FAILED" /\ step' = SkipOpen(step, ForwardSteps)
  /\ UNCHANGED <<desired, stale>> /\ Decided(w)

SweepRollsBack(w, H) ==
  /\ Decides(w) /\ Conclusive(sweeper[w]) /\ RollbackProven(sweeper[w], H)
  /\ status' = "ROLLED_BACK" /\ job' = "DONE" /\ desired' = RunningOnly("source")
  /\ UNCHANGED <<step, stale>> /\ Decided(w)

\* Would the sweeper read today what it remembers?
Current(w) == [sweeper[w] EXCEPT !.attempt = Facts.attempt] = Facts

\* reopen_mir_for_resume: only the step that broke, and the attempts go on counting.
UnqueuedBug(s, resumed) ==
  /\ step' = IF step[s] = "FAILED" THEN [step EXCEPT ![s] = "PENDING"] ELSE step
  /\ status' = resumed /\ UNCHANGED <<job, desired>>
ReopenFor(s, resumed) ==
  /\ step' = IF step[s] \in {"FAILED", "RUNNING", "PENDING"}
               THEN [step EXCEPT ![s] = "PENDING"] ELSE step
  /\ status' = resumed /\ job' = "QUEUED" /\ UNCHANGED desired

ResumeRollback(w, H) ==
  /\ Decides(w) /\ Conclusive(sweeper[w]) /\ UndoProven(sweeper[w], H)
  /\ ReopenFor(sweeper[w].back, "ROLLING_BACK")
  /\ stale' = (stale \/ ~Current(w))
  /\ Decided(w)

ResumeForward(w, H) ==
  /\ Decides(w) /\ Conclusive(sweeper[w]) /\ FinishProven(sweeper[w], H)
  /\ ReopenFor(sweeper[w].forward, "RUNNING")
  /\ stale' = (stale \/ ~Current(w))
  /\ Decided(w)

Closes(w) ==
  /\ sweeper' = [sweeper EXCEPT ![w] = Resting]
  /\ sweeps' = sweeper[w].attempt

RecordOutcome(w) == sweeper[w].at = "record" /\ Closes(w) /\ SwitchUnchanged

\* Nothing is proven, or somebody does not answer.
Unresolved(w, H) ==
  LET f == sweeper[w] IN
  /\ Decides(w) /\ Closes(w)
  /\ \/ /\ \/ ~Conclusive(f)
           \/ CancelProven(f, H) /\ Runs("target")
           \/ ~(\/ TargetServes(f, H) \/ CancelProven(f, H) \/ RollbackProven(f, H)
                \/ UndoProven(f, H) \/ FinishProven(f, H))
        /\ SwitchUnchanged
     \/ Fault("retryable") /\ SwitchButFaultsUnchanged

\* The worker process of a sweeper dies: its claim runs out, its locks are free.
SweeperCrash(w) ==
  /\ sweeper[w].at # "rest" /\ Fault("crash")
  /\ sweeper' = [sweeper EXCEPT ![w] = Resting]
  /\ SwitchButFaultsUnchanged /\ UNCHANGED sweeps

SweepStep(w) ==
  \/ SweepClaim(w) \/ LocksBusy(w) \/ SkipSweep(w) \/ RecordOutcome(w)
  \/ \E H \in SUBSET {d \in Deployments : Runs(d)} :
       \/ SweepSucceeds(w, H) \/ SweepCancels(w, H) \/ SweepRollsBack(w, H)
       \/ ResumeRollback(w, H) \/ ResumeForward(w, H) \/ Unresolved(w, H)

NextR == SwitchStep \/ (\E w \in Sweepers : SweepStep(w) \/ SweeperCrash(w))

SpecR == InitR /\ [][NextR]_allVars

\* Each worker sweeps and works, again and again.
FairnessR ==
  /\ WF_allVars(SwitchStep /\ WorkerStep)
  /\ WF_allVars(SwitchStep /\ StartReload) /\ WF_allVars(SwitchStep /\ FinishReload)
  /\ \A w \in Sweepers : WF_allVars(SweepStep(w))
FairSpecR == SpecR /\ FairnessR

-----------------------------------------------------------------------------
(* What holds.                                                             *)

ByOperator == status = "MANUAL_INTERVENTION_REQUIRED"

\* A sweeper moves nothing but an operation that is with the operator, and one that it ends
\* is what it then says, in the rows as well as on the node and at the gateway, although half
\* of what the sweeper knows it read without a lock.
EndsAsItIs ==
  [][sweeper' # sweeper /\ status' # status =>
       /\ ByOperator
       /\ Clean' /\ ~stale =>
            /\ status' = "SUCCEEDED"   => /\ ServesAlone("target", "source")
                                          /\ cont["source"] # "running" /\ gw.active = "target"
            /\ status' = "ROLLED_BACK" => /\ ServesAlone("source", "target")
                                          /\ cont["target"] # "running" /\ gw.active = "source"
            /\ status' = "CANCELLED"   => /\ ~boundary /\ route = "source"
                                          /\ cont["source"] = "running"]_allVars

\* What the switch promises while nobody reconciles it holds with the sweepers as well, ended
\* by whomever and however often resumed, unless one resumed it from what was out of date.
PromisesKept ==
  ~stale => /\ RoutedOnlyAfterProbe /\ NoOverlap /\ NoTrafficToStoppedModel
            /\ SucceededMeansServed /\ RolledBackMeansRestored /\ HarmlessEndings

\* Every operation comes to rest, however often sweepers resume it.
EventuallyRests == <>[](status \in Terminal)
=============================================================================
