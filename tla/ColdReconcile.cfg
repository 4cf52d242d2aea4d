SPECIFICATION FairSpecR
CONSTANTS
  MaxAttempts = 1
  MaxInflight = 0
  MaxFaults = 1
  MaxEdits = 0
  FaultKinds = {"crash", "retryable", "unexpected"}
  LateEffects = TRUE
  Sweepers = {w1, w2}
  MaxSweeps = 2
  AgentReportsHealth = TRUE
INVARIANTS
  SweepTypeOK PromisesKept
PROPERTIES
  EndsAsItIs EventuallyRests GatewayConverges
CHECK_DEADLOCK FALSE
