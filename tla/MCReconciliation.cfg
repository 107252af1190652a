CONSTANTS
  N = 3
  Money <- MCMoney
  Threshold = 1
  Name <- MCName
  Words <- MCWords
  Listed <- MCListed
SPECIFICATION Spec
CHECK_DEADLOCK FALSE
INVARIANTS
  OutcomeIsTruthful
  AgreesWithEngine
  Waterfall
  SurplusIsRouted
  InstalmentsAddUp
