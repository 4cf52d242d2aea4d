SPECIFICATION Spec
CONSTANTS
  Requests = {r1, r2}
  Aliases = {a1, a2}
  Deployments = {d1, d2}
  Loaders = {poller, caller}
  NoDeployment = NoDeployment
  NoAlias = NoAlias
  Kinds = {"stream", "count"}
  SlotLimit = 1
  CountLimit = 1
  MaxEdits = 1
  MaxProofs = 1
  MaxFaults = 1
  FaultKinds = {"load", "exception", "restart"}
INVARIANTS
  TypeOK CountersAreRequests
PROPERTIES
  RoutesNeverGoBack PolicyOfOneMoment ImplementsDrain
CHECK_DEADLOCK FALSE
SYMMETRY Symmetry
