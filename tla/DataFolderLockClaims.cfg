\* Three programs that claim, crash, stop and overlap.
SPECIFICATION Spec
CONSTANTS
  Processes = {p1, p2, p3}
  NoFile = NoFile
  StartTimes = TRUE
INVARIANTS LockTypeOK OneOwnerInTurn OwnerIsNamed
PROPERTIES StaleLockYields ClaimsEnd
CHECK_DEADLOCK FALSE
