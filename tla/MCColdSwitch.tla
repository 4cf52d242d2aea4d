---------------------------- MODULE MCColdSwitch ----------------------------
(***************************************************************************)
(* Instance of ColdSwitch for TLC, and what the documentation says of the  *)
(* operation where the code disagrees.                                     *)
(***************************************************************************)
EXTENDS ColdSwitch

-----------------------------------------------------------------------------
\* docs/state-machines/01-cold-switch.md:894, "Once destructive_boundary_entered=true,
\* never terminalize directly as CANCELLED".  decide_destructive_boundary answers
\* "cancelled" on a second attempt although the first committed the flag.
NeverCancelledPastBoundary == status = "CANCELLED" => ~boundary
=============================================================================
