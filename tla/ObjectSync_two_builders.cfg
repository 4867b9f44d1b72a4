SPECIFICATION MCSpec
CONSTANTS
  Host = host
  Guests = {g1}
  Obj = {o1, o2, o3}
  Val = {b}
  Truncated = {b}
  NoObj = NoObj
  NoUid = NoUid
  NoVal = NoVal
  Nobody = Nobody
  BatchCap = 2
  MaxUid = 2
  MaxActs = 3
SYMMETRY Symmetric
INVARIANTS TypeOK SyncedInverse SyncedLive HostExact NextUidIsNew GuestInStep
CHECK_DEADLOCK FALSE
