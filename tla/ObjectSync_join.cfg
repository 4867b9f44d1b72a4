SPECIFICATION MCFairSpec
CONSTANTS
  Host = host
  Guests = {g1}
  Obj = {o1, o2, o3, o4}
  Val = {a}
  Truncated = {}
  NoObj = NoObj
  NoUid = NoUid
  NoVal = NoVal
  Nobody = Nobody
  BatchCap = 2
  MaxUid = 1
  MaxActs = 2
INVARIANTS NothingLost
PROPERTIES JoinCompletes NoEcho
CHECK_DEADLOCK FALSE
