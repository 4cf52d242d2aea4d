SPECIFICATION Spec
CONSTANTS
  Workers = {w1, w2}
  Deployments = {d1}
  Nodes = {n1}
  NodeOf <- OneNode
  NoWorker = NoWorker
  NoDeployment = NoDeployment
  MaxAttempts = 2
  MaxOps = 2
  MaxFaults = 1
  FaultKinds = {"crash"}
PROPERTIES
  RuntimeStatusIsObserved
CHECK_DEADLOCK FALSE
