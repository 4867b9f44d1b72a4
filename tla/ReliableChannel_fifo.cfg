SPECIFICATION FairSpec
CONSTANTS
  Windows = 6
  WindowSize = 2
  FreeWindows = 3
  DataWindow = 2
  MaxWaiting = 4
  MaxFragments = 2
  MaxCommands = 14
  QueueCap = 2
  NetCap = 2
  AckCap = 1
  MaxAge = 6
  Start = 10
INVARIANTS TypeOK AckedIsHeld WindowsExact
PROPERTIES ImplementsFifo
