SPECIFICATION FairSpec
CONSTANTS
  Slots = {0, 1}
  Guests = {g1}
  Ports = {1, 2}
  Sessions = 4
  None = None
  HostPort = 0
  Late = FALSE
  MaxID = 2
  MaxShakes = 2
  MaxStops = 1
  NetCap = 2
INVARIANTS SameHandshake EventsPaired NobodyKicked
PROPERTIES EndsMeet
CHECK_DEADLOCK FALSE
