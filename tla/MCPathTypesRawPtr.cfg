CONSTANTS
  Adts <- MCAdts
  Unions = {"U"}
  LocalDecls <- MCLocalsRawPtr
  ArgCount = 2
  Actuals <- MCActuals
  Projections = {"deref", "field", "index", "constindex", "downcast"}
  MaxField = 3
  MaxVariant = 2
  MaxProj = 5
SPECIFICATION Spec
INVARIANT PathTypeSound
CHECK_DEADLOCK FALSE
