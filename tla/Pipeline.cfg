SPECIFICATION Spec
CONSTANTS
  Loaded = {"noise", "speaker", "language", "asr"}
  Limit = 2
  MaxFinals = 1
  MaxSentences = 3
  MaxRaises = 3
INVARIANTS
  TypeOK
  ClientsView
  IsolationHolds
PROPERTIES
  KeepsPromise
CHECK_DEADLOCK FALSE
