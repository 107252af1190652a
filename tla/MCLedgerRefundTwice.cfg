CONSTANTS
  u1 = u1
  u2 = u2
  Unit = {u1}
  NoUnit = NoUnit
  Ref = {r1}
  Handler = {h1}
  Manager = {h1}
  Bill = {1}
  BillKind <- MCBillKind
  BillDue <- MCBillDue
  BillAmount <- MCBillAmount
  Name <- MCName
  Words <- MCWords
  Occupant <- MCOccupant
  Rule = "DUES_FIRST"
  Threshold = 1
  Window = 2
  Transfers <- ReviewedTransfers
  Offered <- RefundOnly
  Scopes <- WholeEstate
  Reversals = FALSE
  MaxRefunded = 8
SPECIFICATION Spec
CHECK_DEADLOCK FALSE
INVARIANT
  RefundedAtMostOnce
