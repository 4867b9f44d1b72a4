SPECIFICATION MCSpec
CONSTANTS
  Host = host
  Guests = {g1, g2}
  Obj = {o1, o2}
  Val = {a, b}
  Truncated = {}
  NoObj = NoObj
  NoUid = NoUid
  NoVal = NoVal
  Nobody = Nobody
  BatchCap = 1
  MaxUid = 1
  MaxActs = 2
SYMMETRY Symmetric
INVARIANTS GuestInStep 
CHECK_DEADLOCK FALSE
