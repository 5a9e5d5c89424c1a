SPECIFICATION Spec
INVARIANTS
  DoublesReturn
CHECK_DEADLOCK FALSE
