CONSTANTS
  Attempts = 3
  Settings <- EverySetting
SPECIFICATION Spec
INVARIANTS PatientLiveIsRooted PatientFailureReleasesRoots
PROPERTY LostOnlyToStragglers
CHECK_DEADLOCK FALSE
