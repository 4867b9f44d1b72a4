SPECIFICATION Spec
CONSTANTS
  Host = host
  Guests = {g1, g2}
  Nobody = Nobody
  MaxPeers = 2
  SyncCap = 8
  Junk = {}
  MaxConns = 3
  MaxSessions = 1
INVARIANTS NoGhosts
CHECK_DEADLOCK FALSE
