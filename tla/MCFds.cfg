SPECIFICATION Spec
CONSTANTS
  Setups <- MCSetups
  ExecInRedir = FALSE
  HereInChild = FALSE
  CloseStd = FALSE
  MaxDepth = 3
INVARIANTS
  CommandGets
  BuiltinGets
  Accounted
  NewfdFree
