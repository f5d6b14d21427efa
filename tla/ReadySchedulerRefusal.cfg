\* One project and one task, which a person has sent to its service once and moved back
\* to Ready; one save fails.
SPECIFICATION Spec
CONSTANTS
  shop = shop
  shed = shed
  sent = sent
  here = here
  other = other
  Projects = {shop}
  Tasks = {sent}
  Home <- MCHome
  Native = {sent}
  Looped = {}
  GlobalLimit = 1
  MaxClock = 5
  MaxFaults = 1
  MaxCrashes = 0
  MaxSettings = 0
INVARIANTS RefusalsBeginNothing
CHECK_DEADLOCK FALSE
