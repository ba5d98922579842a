SPECIFICATION FairSpec
CONSTANTS
  c1 = c1
  c2 = c2
  c3 = c3
  c4 = c4
  NoConn = NoConn
  Conn <- MCConn
  MaxConnections = 2
  U32Max = 255
  AcceptFails = TRUE
INVARIANTS PermitsExact SessionWithTask
PROPERTIES TasksEnd ShutdownReturns IsGraceful
CHECK_DEADLOCK FALSE
