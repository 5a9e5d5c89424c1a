SPECIFICATION Spec
CONSTANTS
  NSIG = 3
  Effect0 <- Caught
  MayFork = FALSE
  Builds <- TwoAccesses
  MaxBlocked = 1
  MaxSent = 3
INVARIANTS
  NotedAreCounted
