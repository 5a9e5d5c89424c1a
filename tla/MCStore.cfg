SPECIFICATION StoreSpec
CONSTANTS
  k1 = k1
  k2 = k2
  k3 = k3
  k4 = k4
  Key <- MCKey
  Hash <- MCHash
  Value = {v1, v2}
  MaxSize = 8
  NULL = NULL
  DELETED = DELETED
  Objects = {1, 2, 3, 4}
  Sizes = {1, 2, 6}
  TagSize = 1
  MIN_minspace = 3
  MaxKids = 2
  MaxBlocked = 1
  MaxSpaces = 2
  MaxMinspace = 6
INVARIANTS
  RemainExact
  Reachable
  NothingLost
PROPERTIES
  RefinesMap
  DictCallsEnd
  OneSpaceUpToDate
  CallsEnd
CHECK_DEADLOCK FALSE
