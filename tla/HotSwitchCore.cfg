SPECIFICATION Spec
CONSTANTS
  MaxAttempts = 2
  MaxSweeps = 1
  MaxInflight = 1
  MaxFaults = 1
  MaxEdits = 1
  FaultKinds = {"crash", "retryable"}
  AgentReportsHealth = TRUE
INVARIANTS
  TypeOK ServedModelsRun
PROPERTIES
  SourceStopProven RetainedTargetKept CancelBeatsBoundaries
CHECK_DEADLOCK FALSE
