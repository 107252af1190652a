CONSTANTS
  u1 = u1
  u2 = u2
  Unit = {u1}
  NoUnit = NoUnit
  Ref = {r1, r2}
  Handler = {h1, h2}
  Manager = {h1}
  Bill = {1}
  BillKind <- MCBillKind
  BillDue <- MCBillDue
  BillAmount <- MCBillAmount
  Name <- MCName
  Words <- MCWords
  Occupant <- MCOccupant
  Rule = "DUES_FIRST"
  Threshold = 1
  Window = 2
  Transfers <- MeetingTransfers
  Offered <- Buttons
  Scopes <- WholeEstate
  Reversals = TRUE
  MaxRefunded = 8
SPECIFICATION Spec
CHECK_DEADLOCK FALSE
INVARIANTS
  AppliedAtMostOnce
  NothingIsInvisible
  ClawbackIsKnown
PROPERTY
  BooksOnlyGrow
