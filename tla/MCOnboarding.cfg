SPECIFICATION OnboardingSpec
CONSTANTS
  both = both
  Unit = {u1, u2}
  Request = {both}
  Of <- MCOf
  Deleter = {d1, d2}
  NoUnit = NoUnit
  Tab = {t1}
  Call = {c1, c2}
  Name = {n1}
  NoEstate = NoEstate
  Nothing = Nothing
  Reloader = {t1}
INVARIANTS
  LiveUnitCanBePaid
  ReportIsTrue
  FinishIsAdmitted
PROPERTIES
  DeletedAccountsExpire
  AdmittedStaysAdmitted
CHECK_DEADLOCK FALSE
