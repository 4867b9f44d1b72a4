SPECIFICATION FairSpec
CONSTANTS
  Host = host
  Guests = {g1, g2}
  Nobody = Nobody
  MaxPeers = 2
  SyncCap = 8
  Junk = {}
  MaxConns = 3
  MaxSessions = 2
INVARIANTS TargetsRight LobbyAgrees
PROPERTIES GuestIsListed
CHECK_DEADLOCK FALSE
