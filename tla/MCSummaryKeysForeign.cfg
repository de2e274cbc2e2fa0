CONSTANTS
  Crates = {"core", "my"}
  Modules = {"num", "core", "foreign_contracts"}
  Fns = {"f"}
  ImplDis = {0, 1, 2}
  ClosureDis = {0}
  ImplSelf <- MCImplSelf
  MaxLen = 5
SPECIFICATION Spec

INVARIANT ForeignContractsAlias
