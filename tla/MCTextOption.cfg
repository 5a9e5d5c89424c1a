SPECIFICATION Spec
INVARIANTS
  NoMessageLeft
CHECK_DEADLOCK FALSE
