SPECIFICATION Spec
CONSTANTS
  MaxAttempts = 2
  MaxInflight = 1
  MaxFaults = 2
  MaxEdits = 1
  FaultKinds = {"crash", "retryable", "permanent", "unexpected"}
  LateEffects = TRUE
INVARIANTS
  TypeOK NoTrafficToStoppedModel NoOverlap AppliedVersionIsTruth RoutedOnlyAfterProbe
  SucceededMeansServed RolledBackMeansRestored HarmlessEndings
PROPERTIES
  DrainedBeforeStop CancelBeatsBoundary ThirdPartyRouteKept RollbackIsOneWay
CHECK_DEADLOCK FALSE
