SPECIFICATION FairSpec
CONSTANTS
  c1 = c1
  c2 = c2
  c3 = c3
  w1 = w1
  w2 = w2
  NoConn = NoConn
  ours = ours
  theirs = theirs
  host = host
  Localhost = Localhost
  NoCert = NoCert
  NoClient = NoClient
  Authority <- MCAuthority
  Name <- MCName
  SystemRoots <- MCSystemRoots
  Config <- MCConfig
  Client <- MCClient
  Conn <- MCConn
  Worker <- MCWorker
  MaxConnections = 2
  PanickingHandlers = TRUE
  AcceptFails = TRUE
INVARIANTS JobsAccounted DataOnlyTrusted
PROPERTIES AcceptedIsClosed ShutdownReturnsUnlessPanic IsGraceful
