SPECIFICATION FairSpec
CONSTANTS
  MaxAttempts = 2
  MaxSweeps = 1
  MaxInflight = 0
  MaxFaults = 2
  MaxEdits = 0
  FaultKinds = {"crash", "retryable", "permanent", "unexpected", "exit"}
  AgentReportsHealth = TRUE
INVARIANTS
  SucceededMeansServed HarmlessEndings
PROPERTIES
  EventuallyTerminal
CHECK_DEADLOCK FALSE
