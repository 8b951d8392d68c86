SPECIFICATION Conversation
CONSTANTS
  Conn = {c1, c2}
  Id = {1, 2}
  NoId = NoId
  Free = Free
  NoConn = NoConn
  MaxFlight = 1
  MaxDrops = 2
INVARIANTS
  ConversationTypeOK
  GoodbyeIsHeard
  SlotFollowsMeeting
PROPERTIES
  ReconnectsUnlessLeaked
CHECK_DEADLOCK FALSE
