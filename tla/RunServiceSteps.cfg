\* A recorded write and a request to an external model a hook may hold, two drivers and
\* two calls at a time, with writes that fail, through expiry, takeover, restart, reclaim,
\* an identity that rotates and startup's settlement of interrupted requests.
SPECIFICATION Spec
CONSTANTS
  write = write
  send = send
  turn = turn
  NoOwner = NoOwner
  Gone = Gone
  WritesFail = TRUE
  Steps = {write, turn}
  Owners = {o1, o2}
  Calls = {c1, c2}
  Held = {turn}
  Intent <- MCIntent
  Budget <- MCBudget
  MaxFence = 2
  MaxGeneration = 1
SYMMETRY CallAndOwnerSymmetry
INVARIANTS
  TypeOK FenceNamesOneOwner OneCallPerAttempt InFlightHasACall CompletedHoldsNothing
  ParkedRunHasParkedStep
PROPERTIES NeverOnAGuess StepsSettleOnce ImplementsLedger
CHECK_DEADLOCK FALSE
