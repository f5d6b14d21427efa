\* Two projects and three tasks, one of them sent to a service, with a failed save
\* and a crash.
SPECIFICATION FairSpec
CONSTANTS
  shop = shop
  shed = shed
  sent = sent
  here = here
  other = other
  Projects = {shop, shed}
  Tasks = {sent, here, other}
  Home <- MCHome
  Native = {sent}
  Looped = {other}
  GlobalLimit = 1
  MaxClock = 5
  MaxFaults = 1
  MaxCrashes = 1
  MaxSettings = 1
INVARIANTS TypeOK OneStartPerMoment ClaimsTellTheTruth ConsentIsGiven
PROPERTIES LimitIsKept ClaimsSettle PlannedWorkIsServed
CHECK_DEADLOCK FALSE
