SPECIFICATION FairSpec
CONSTANTS
  Conn = {c1, c2}
  Id = {m1, m2}
  NoId = NoId
  Free = Free
INVARIANTS
  TypeOK
  OneMeetingUnlessRaced
  SlotHasHolder
  HistoryIsOwnOrCut
PROPERTIES
  SlotIsFreed
CHECK_DEADLOCK FALSE
