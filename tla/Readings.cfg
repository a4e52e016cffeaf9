SPECIFICATION Spec
CONSTANTS
  Kinds = {"session", "weekly"}
  Window = 3
  Stale = 1
  Tolerance = 1
  AnchorMax = 4
  FirstRetry = 1
  MaxRetry = 2
  Back = 5
  Moved = 1
  Fragile = {"cli"}
  Most = 1
  End = 11
  Acts = 4
  Faults = 1
INVARIANTS ZeroStaysZero HeardAgain ResetIsTrue
CHECK_DEADLOCK FALSE
