SPECIFICATION FairSpec
CONSTANTS
  m1 = m1
  m2 = m2
  web = web
  db = db
  ipA = ipA
  ipB = ipB
  Caller <- MCCaller
  Call <- MCCall
  Server <- MCServer
  NoServer = NoServer
  Ip <- MCIp
  Ms <- MCMs
  U64Max = 9
  None = None
  MaxCalls = 3
INVARIANTS SnapshotFits QuietExact
PROPERTY CallsReturn
CHECK_DEADLOCK FALSE
