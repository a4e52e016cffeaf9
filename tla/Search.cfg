SPECIFICATION SearchSpec
CONSTANTS
  N = 3
  Explicits = {0, 1}
  Moves = 3
INVARIANT AskedOnce
PROPERTIES NoBootLoop SparedWhileUp FoundBySearch
CHECK_DEADLOCK FALSE
