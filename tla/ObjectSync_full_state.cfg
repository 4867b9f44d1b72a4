SPECIFICATION MCSpec
CONSTANTS
  Host = host
  Guests = {g1}
  Obj = {o1, o2, o3}
  Val = {a}
  Truncated = {}
  NoObj = NoObj
  NoUid = NoUid
  NoVal = NoVal
  Nobody = Nobody
  BatchCap = 2
  MaxUid = 1
  MaxActs = 0
SYMMETRY Symmetric
INVARIANTS FullStateOnce
CHECK_DEADLOCK FALSE
