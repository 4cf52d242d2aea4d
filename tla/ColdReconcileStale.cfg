SPECIFICATION SpecR
CONSTANTS
  MaxAttempts = 1
  MaxInflight = 0
  MaxFaults = 1
  MaxEdits = 0
  FaultKinds = {"crash", "retryable"}
  LateEffects = FALSE
  Sweepers = {w1, w2}
  MaxSweeps = 2
  AgentReportsHealth = TRUE
PROPERTIES
  TargetStoppedBehindMaintenance
CHECK_DEADLOCK FALSE
