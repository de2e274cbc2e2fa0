CONSTANTS
  Adts <- MCAdts
  Unions = {"U"}
  LocalDecls <- MCLocals
  ArgCount = 2
  Actuals <- MCActuals
  Projections = {"deref", "field", "index", "constindex", "downcast"}
  MaxField = 3
  MaxVariant = 2
  MaxProj = 5
SPECIFICATION Spec
INVARIANT PlaceTypeExact
INVARIANT PathTypeSound
INVARIANT ResolverTotal
CHECK_DEADLOCK FALSE
