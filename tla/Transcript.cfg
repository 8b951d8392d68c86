SPECIFICATION Spec
CONSTANTS
  MaxRows = 2
  MaxMeetings = 2
  MaxConnects = 2
  MaxSentences = 2
  MaxPosted = 3
INVARIANTS
  TypeOK
  LinesAreRight
  MinutesComplete
CHECK_DEADLOCK FALSE
