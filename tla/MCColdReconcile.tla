--------------------------- MODULE MCColdReconcile ---------------------------
(***************************************************************************)
(* Instance of ColdReconcile for TLC, and what the documentation says of   *)
(* the reconciliation where the code disagrees.                            *)
(***************************************************************************)
EXTENDS ColdReconcile

-----------------------------------------------------------------------------
\* docs/state-machines/01-cold-switch.md:1013, "Target fully serving and PROBE_TARGET
\* succeeded: SUCCEEDED".  The sweeper asks GET /internal/v1/deployments/{id} for a
\* health_status, and the node agent's answer has none.
ProvenSwitchCanSucceed ==
  \A w \in Sweepers :
    Decides(w) /\ TargetServes(sweeper[w], Deployments)
      => ENABLED SweepSucceeds(w, Deployments)

\* docs/state-machines/01-cold-switch.md:642-644, a rollback blocks the traffic before it
\* stops Target.  A sweeper that overslept its claim reopens the forward step it read about
\* although the rollback has begun and broken since: the worker passes the broken
\* ROLLBACK_BLOCK_TRAFFIC over and stops Target under a gateway that serves from it.
TargetStoppedBehindMaintenance ==
  [][Clean /\ cont["target"] = "running" /\ cont'["target"] # "running"
       => ~(gw.traffic = "SERVING" /\ gw.active = "target")]_allVars
=============================================================================
