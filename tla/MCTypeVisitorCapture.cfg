CONSTANTS
  Fns = {"main", "f", "g"}
  Entry = "main"
  FnParams <- SharedParams
  Prims = {"i32", "bool"}
  Wrappers = {"ref", "slice"}
  MaxDepth = 3
SPECIFICATION Spec
INVARIANT FaithfulGenericMap
