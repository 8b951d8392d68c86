SPECIFICATION Spec
CONSTANTS
  Probe = 2
  Steps = 2
  Search = 2
  Size = 2
  Limit = 2
  Lengths = {3, 7}
  MaxUtterances = 2
  MaxSentences = 3
INVARIANTS
  TypeOK
  CutNearChange
  LanguageIsCarried
  RetryIsDifferent
CHECK_DEADLOCK FALSE
