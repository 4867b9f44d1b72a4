SPECIFICATION FairSpec
CONSTANTS
  Hosts = {h1, h2}
  Period = 2
  TimeToLive = 4
  Oversleep = 0
INVARIANTS ShownIsLive FewLossesKeep
PROPERTIES SessionIsFound
CHECK_DEADLOCK FALSE
