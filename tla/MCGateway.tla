------------------------------ MODULE MCGateway -----------------------------
(***************************************************************************)
(* Instance of Gateway for TLC: requests, aliases, deployments and loaders *)
(* are alike.                                                              *)
(***************************************************************************)
EXTENDS Gateway, TLC

Symmetry ==
  Permutations(Requests) \cup Permutations(Aliases) \cup Permutations(Deployments)
    \cup Permutations(Loaders)
=============================================================================
