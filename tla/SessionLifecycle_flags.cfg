SPECIFICATION FairSpec
CONSTANTS
  Obj = {o1, o2, o3}
  MaxCount = 2
INVARIANTS TypeOK FlagsAgree ThreadsOwned
PROPERTIES MainGoesOn
CHECK_DEADLOCK FALSE
