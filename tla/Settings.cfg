SPECIFICATION Spec
CONSTANTS
  Owners = {"a", "b"}
  Files = {"claude", "codex"}
  MaxTries = 2
  Acts = 1
  Faults = 1
INVARIANT Kept
PROPERTIES GivenBack OnceEach PutBack
CHECK_DEADLOCK FALSE
