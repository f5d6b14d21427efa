\* A cancelled run may become live again.
SPECIFICATION Spec
CONSTANTS
  write = write
  send = send
  turn = turn
  NoOwner = NoOwner
  Gone = Gone
  WritesFail = FALSE
  Steps = {write, send}
  Owners = {o1}
  Calls = {c1}
  Held = {}
  Intent <- MCIntent
  Budget <- MCBudget
  MaxFence = 1
  MaxGeneration = 0
PROPERTY CancelledStaysCancelled
CHECK_DEADLOCK FALSE
