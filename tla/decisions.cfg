SPECIFICATION TableSpec
CONSTANTS
  PodName = {p1, p2}
  CheckId = {c1, c2}
  NotBound = NotBound
INVARIANTS CheckObserved HealthReport OwnReports WriteGrounded WriteApproved
  RecoveryObserved RecheckSame RuleHealthy
CHECK_DEADLOCK FALSE
