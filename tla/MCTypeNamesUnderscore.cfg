CONSTANTS
  Leaves <- MCLeavesUnderscore
  AdtDefs1 <- MCAdtDefs1
  AdtDefsLt1 <- MCAdtDefsLt1
  FnDefs <- MCFnDefs
  ClosureDefs <- MCClosureDefs
  TraitDefs <- MCTraitDefs
  MaxDepth = 1
SPECIFICATION Spec
INVARIANT MangledNameUnique
