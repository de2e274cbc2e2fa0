CONSTANTS
  Leaves <- MCLeaves
  AdtDefs1 <- MCAdtDefs1
  AdtDefsLt1 <- MCAdtDefsLt1
  FnDefs <- MCFnDefs
  ClosureDefs <- MCClosureDefs
  TraitDefs <- MCTraitDefs
  MaxDepth = 2
SPECIFICATION Spec
INVARIANT ConcreteComplete
