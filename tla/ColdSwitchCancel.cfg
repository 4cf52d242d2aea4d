SPECIFICATION Spec
CONSTANTS
  MaxAttempts = 2
  MaxInflight = 1
  MaxFaults = 1
  MaxEdits = 0
  FaultKinds = {"retryable"}
  LateEffects = FALSE
INVARIANT NeverCancelledPastBoundary
CHECK_DEADLOCK FALSE
