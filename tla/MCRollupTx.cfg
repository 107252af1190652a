SPECIFICATION Spec
CONSTANTS
  pay1 = pay1
  pay2 = pay2
  bill = bill
  spend = spend
  other = other
  u1 = u1
  u2 = u2
  c1 = c1
  c2 = c2
  c3 = c3
  c4 = c4
  Tx = {pay1, pay2, bill, spend, other}
  Unit = {u1, u2}
  UnitOf <- MCUnitOf
  Row = {c1, c2, c3, c4}
  Path <- Ordered
INVARIANTS
  OnlyStrangersAreMissed
  NoDeadlock
CHECK_DEADLOCK FALSE
