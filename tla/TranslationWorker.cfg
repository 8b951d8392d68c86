SPECIFICATION FairSpec
CONSTANTS
  MaxSentences = 3
  Depth = 2
INVARIANTS
  TypeOK
  ExactlyOnce
  NoLostWake
  StopAccounts
PROPERTIES
  KeepsPromise
  NobodyWaitsForGood
