----------------------------- MODULE MCJobQueue -----------------------------
(***************************************************************************)
(* Instance of JobQueue for TLC: deployments that share one node, and what *)
(* the code says of its queue where it does otherwise.                     *)
(***************************************************************************)
EXTENDS JobQueue

OneNode == [d \in Deployments |-> CHOOSE n \in Nodes : TRUE]

-----------------------------------------------------------------------------
\* backend/app/services/operations.py:121, "runtime_status stays observed until Worker
\* finishes".  A worker that dies with every step behind it, but before the job is
\* DONE, leaves a job that is leased again, perhaps after another operation on the
\* deployment: the second run finds no open step and writes the outcome of the first
\* over what is there.
RuntimeStatusIsObserved ==
  [][\A d \in Deployments : runtime'[d] # runtime[d] =>
       (runtime'[d] = "RUNNING" <=> cont[d] = "running")]_vars
=============================================================================
