SPECIFICATION Conversation
CONSTANTS
  Conn = {c1, c2}
  Id = {1}
  NoId = NoId
  Free = Free
  NoConn = NoConn
  MaxFlight = 1
  MaxDrops = 1
PROPERTIES
  Reconnects
CHECK_DEADLOCK FALSE
