CONSTANTS
  UserArgs <- MCUserArgs
  Inputs = {"local", "stdin"}
SPECIFICATION Spec
INVARIANT TypeOK
INVARIANT AnalysisScope
INVARIANT ExitReflectsErrors
CHECK_DEADLOCK FALSE
