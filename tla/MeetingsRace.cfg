SPECIFICATION Spec
CONSTANTS
  Conn = {c1, c2}
  Id = {m1, m2}
  NoId = NoId
  Free = Free
INVARIANT OneMeeting
CHECK_DEADLOCK FALSE
