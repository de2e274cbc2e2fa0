CONSTANTS
  f1 = f1
  f2 = f2
  d1 = d1
  d2 = d2
  d3 = d3
  Fn <- MCFn
  Diag <- MCDiagPair
  MaxSpan = 1
  MaxVisits = 1
  AssertKinds <- MCAssertKinds
  CheckerCauses <- MCCheckerCauses
  SuppressOptions <- MCSuppressOptions
SPECIFICATION FairSpec
PROPERTY DiagnosticsLifecycle
CHECK_DEADLOCK FALSE
