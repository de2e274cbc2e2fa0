CONSTANTS
  UserArgs <- MCUserArgs
  Inputs = {"local", "stdin"}
SPECIFICATION Spec
CHECK_DEADLOCK FALSE
INVARIANT ExitCodeContract
