CONSTANTS
  u1 = u1
  u2 = u2
  Unit = {u1}
  NoUnit = NoUnit
  Ref = {r1}
  Handler = {h1, h2}
  Manager = {h1}
  Bill = {1}
  BillKind <- MCBillKind
  BillDue <- MCBillDue
  BillAmount <- MCBillAmount
  Name <- MCName
  Words <- MCWords
  Occupant <- MCOccupant
  Rule = "OLDEST_FIRST"
  Threshold = 1
  Window = 2
  Transfers <- SmallTransfers
  Offered = {}
  Scopes <- WholeEstate
  Reversals = FALSE
  MaxRefunded = 0
SPECIFICATION Spec
CHECK_DEADLOCK FALSE
INVARIANT
  RollupsBalance
