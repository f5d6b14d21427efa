\* One project whose service run is decided on while another task waits in line.
SPECIFICATION FairSpec
CONSTANTS
  shop = shop
  shed = shed
  sent = sent
  here = here
  other = other
  Projects = {shop}
  Tasks = {sent, here}
  Home <- MCHome
  Native = {sent}
  Looped = {}
  GlobalLimit = 1
  MaxClock = 5
  MaxFaults = 0
  MaxCrashes = 0
  MaxSettings = 0
PROPERTIES StartingStarts
CHECK_DEADLOCK FALSE
