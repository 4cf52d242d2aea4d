SPECIFICATION SpecR
CONSTANTS
  MaxAttempts = 1
  MaxInflight = 0
  MaxFaults = 1
  MaxEdits = 0
  FaultKinds = {"crash", "unexpected"}
  LateEffects = FALSE
  Sweepers = {w1}
  MaxSweeps = 1
  AgentReportsHealth = FALSE
INVARIANTS
  ProvenSwitchCanSucceed
CHECK_DEADLOCK FALSE
