SPECIFICATION PayingSpec
CONSTANTS
  Payout = {p1}
  Caller = {p1, c1}
  Fetch = {f1, f2, f3}
  NoFetch = NoFetch
  Threshold = 2
  Lifetime = 3
  MaxOverlaps = 2
INVARIANTS
  MoneyIsRecorded
  StatusHasReason
  TokenIsValid
  StampedeIsBounded
PROPERTY
  CallersAreAnswered
