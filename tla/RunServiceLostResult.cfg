\* A write whose result was lost is executed again.
SPECIFICATION Spec
CONSTANTS
  write = write
  send = send
  turn = turn
  NoOwner = NoOwner
  Gone = Gone
  WritesFail = FALSE
  Steps = {write}
  Owners = {o1}
  Calls = {c1}
  Held = {}
  Intent <- MCIntent
  Budget <- MCBudget
  MaxFence = 1
  MaxGeneration = 0
PROPERTY WritesAreNotRepeated
CHECK_DEADLOCK FALSE
