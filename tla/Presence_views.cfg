SPECIFICATION FairSpec
CONSTANTS
  Host = host
  Guests = {g1}
  Obj = {o1, o2, o3}
  ChunkSize = 2
  Positions = {0, 3, 4, 5}
  Topics = {"select", "point", "play", "settings"}
  MaxActs = 3
  NetCap = 3
  MaxFrames = 1
  None = None
INVARIANTS CursorNear NothingLeft SettingsAgree
PROPERTIES HighlightsFollow AliveIsShown
CHECK_DEADLOCK FALSE
