\* Programs that claim at the same time may both own the folder.
SPECIFICATION Spec
CONSTANTS
  Processes = {p1, p2, p3}
  NoFile = NoFile
  StartTimes = TRUE
SYMMETRY ProcessSymmetry
INVARIANT OneOwner
CHECK_DEADLOCK FALSE
