SPECIFICATION Spec
CONSTANTS
  Objects = {1, 2, 3, 4, 5, 6}
  Sizes = {1, 2}
  TagSize = 1
  MIN_minspace = 3
  MaxKids = 2
  MaxBlocked = 1
  MaxSpaces = 4
  MaxMinspace = 12
INVARIANTS
  UpToDate
CHECK_DEADLOCK FALSE
