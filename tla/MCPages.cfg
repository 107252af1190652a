SPECIFICATION PagesSpec
CONSTANTS
  u1 = u1
  u2 = u2
  u3 = u3
  tower = tower
  alone = alone
  MaxMounts = 2
  MaxOpenings = 3
  MaxRequests = 3
  Account = {a1, a2}
  NoAccount = NoAccount
  Lookup = {l1, l2}
  Unit = {u1, u2, u3}
  Group = {tower, alone}
  GroupOf <- MCGroupOf
  AllUnits = AllUnits
  Amount = {2, 5}
INVARIANTS
  NothingTypedLeaks
  BusyIsTruthful
  ShareIsSplit
CHECK_DEADLOCK FALSE
