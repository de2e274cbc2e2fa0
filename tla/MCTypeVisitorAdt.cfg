CONSTANTS
  Fns = {"main", "f", "g"}
  Entry = "main"
  FnParams <- DistinctParams
  Prims = {"i32", "bool"}
  Wrappers = {"ref", "adt"}
  MaxDepth = 3
SPECIFICATION Spec
INVARIANT MapsConcrete
