SPECIFICATION Spec
CONSTANTS
  Loaded = {"noise", "speaker", "language", "asr"}
  Limit = 3
  MaxFinals = 1
  MaxSentences = 2
  MaxRaises = 3
INVARIANT StagesAreContained
CHECK_DEADLOCK FALSE
