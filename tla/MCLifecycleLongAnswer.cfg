CONSTANTS
  Attempts = 1
  Settings <- LongAnswer
SPECIFICATION Spec
INVARIANTS FailureReleasesRoots
CHECK_DEADLOCK FALSE
