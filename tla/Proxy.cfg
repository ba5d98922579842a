SPECIFICATION FairSpec
CONSTANTS
  c1 = c1
  c2 = c2
  ip1 = ip1
  ip2 = ip2
  Open = Open
  NoHandle = NoHandle
  None = None
  Conn <- MCConn
  IpOf <- MCIpOf
  Ip <- MCIp
  Server <- MCServer
  basicA = basicA
  basicB = basicB
  Credentials <- MCCredentials
  HeaderLen <- MCHeaderLen
  EndLen = 2
  ConfigAuth = Open
  Sends <- MCSends
  Presents <- MCPresents
  HeaderLimit = 2
  MaxCalls = 1
INVARIANTS AuthInEffect RelayInOrder ActiveCounted
PROPERTY ConnectionsEnd
CHECK_DEADLOCK FALSE
