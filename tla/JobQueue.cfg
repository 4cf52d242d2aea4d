SPECIFICATION FairSpec
CONSTANTS
  Workers = {w1, w2}
  Deployments = {d1, d2}
  Nodes = {n1}
  NodeOf <- OneNode
  NoWorker = NoWorker
  NoDeployment = NoDeployment
  MaxAttempts = 2
  MaxOps = 2
  MaxFaults = 1
  FaultKinds = {"crash", "pause", "exception", "retryable", "permanent"}
INVARIANTS
  TypeOK OneRunnerPerNode ActiveHasLiveJob UndisturbedAttempts
PROPERTIES
  StepsNeverRepeat UndisturbedRowsAreObserved QueueDrains
CHECK_DEADLOCK FALSE
