SPECIFICATION Spec
INVARIANTS
  OperatorsFound
CHECK_DEADLOCK FALSE
