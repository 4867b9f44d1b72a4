SPECIFICATION FairSpec
CONSTANTS
  Sizes = {1, 4, 7, 8}
  Rejected = {}
  BufSize = 10
  BatchMax = 2
  MaxObjects = 4
  MaxOwn = 1
INVARIANTS TypeOK NoneSkipped InOrder WithinBuffer GuestAligned
PROPERTIES EndsComplete
CHECK_DEADLOCK FALSE
