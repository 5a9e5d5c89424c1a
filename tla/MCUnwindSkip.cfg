SPECIFICATION Spec
CONSTANTS
  Name = {"0", "x"}
  Zero = "0"
  Value = {fn}
  FnName = fn
  NULL = NULL
  Exc = {"error"}
  Setups <- FailingSettor
  MaxRoots = 3
INVARIANTS
  GoesInnermost
