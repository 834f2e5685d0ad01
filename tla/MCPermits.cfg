CONSTANTS
  Callers = {c1, c2, c3, c4}
  MaxRealizations = 2
SPECIFICATION FairSpec
INVARIANTS PermitsCounted NoLostWakeup
PROPERTIES SemaphoreSpec AskedIsAnswered
