SPECIFICATION Spec
CONSTANTS
  MaxVer = 2
  Guests = TRUE
  MaxInstalls = 2
  MaxCrashes = 1
INVARIANTS BinRuns
PROPERTIES TestedOnly
