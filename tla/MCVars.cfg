SPECIFICATION VarsSpec
CONSTANTS
  Names = {"x", "y", "z"}
  Settable = {"x", "z"}
  Locals = {"y", "z"}
  Hideable = {"z"}
  Internal = {"y"}
  Imported = {"x", "z"}
  Preset = {"z"}
  Words = {"p"}
  Values <- MCValues
  Cells = {1, 2}
  None = "null"
  Clo = "clo"
  MaxNested = 2
  Name = {"0", "x"}
  Zero = "0"
  Value = {fn}
  FnName = fn
  NULL = NULL
  Exc = {"error", "return", "break", "retry"}
  Setups <- MCSetups
  MaxRoots = 3
INVARIANTS
  EnvFresh
  EntriesFresh
  NothingLeaks
  ListsLive
  EvalDepthExact
  NothingLeft
  InnermostCatches
PROPERTIES
  RefinesScopes
