CONSTANTS
  k1 = k1
  Callers = {c1, c2, c3, c4, c5}
  Keys = {k1}
  KeyOf <- OneKey
  Nobody = Nobody
  Denied = {c5}
  Fragile = {c1, c2, c3, c4}
SYMMETRY CallerSymmetry
SPECIFICATION Spec
INVARIANTS WaitsForListed NobodySleepsPastResult ListedIsHeld
PROPERTY CoalescingSpec
CHECK_DEADLOCK FALSE
