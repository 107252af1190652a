SPECIFICATION Spec
CONSTANTS
  e1 = e1
  a = a
  g = g
  NoGroup = nogroup
  MaxMounts = 2
  Exc = {e1}
  Unit = {a}
  Group = {g}
  Tab = {t1}
  Outside = {o1}
  Lasting = FALSE
  MaxSessions = 2
  MaxFaults = 1
  Clicks <- MCClicks
  OutsideOps <- MCOutsideOps
INVARIANTS QuietScreenIsCurrent OwnDataOnly OneStream
PROPERTY ImplementsScreen
CHECK_DEADLOCK FALSE
