SPECIFICATION ReadingSpec
CONSTANTS
  NSIG = 3
  Effect0 <- Caught
  MayFork = TRUE
  Builds <- AllBuilds
  MaxBlocked = 1
  MaxSent = 3
  MaxChunks = 4
  MaxDepth = 3
  Limits <- MCLimits
INVARIANTS
  ScanInBounds
  LabelLive
  Counted
  OwnSource
  ParserClean
PROPERTIES
  Raised
  RunsWhole
  EofEnds
