CONSTANTS
  f1 = f1
  f2 = f2
  d1 = d1
  d2 = d2
  d3 = d3
  Fn <- MCFn
  Diag <- MCDiag
  MaxSpan = 1
  MaxVisits = 1
  AssertKinds <- MCAssertKinds
  CheckerCauses <- MCCheckerCauses
  SuppressOptions <- MCSuppressOptions
SPECIFICATION Spec
SYMMETRY Symmetry
INVARIANT NoDiagnosticDropped
INVARIANT EmissionContract
CHECK_DEADLOCK FALSE
