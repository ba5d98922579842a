SPECIFICATION FairSpec
CONSTANTS
  c1 = c1
  c2 = c2
  c3 = c3
  c4 = c4
  c5 = c5
  ipA = ipA
  ipB = ipB
  ipC = ipC
  Conn <- MCConn
  Ip <- MCIp
  IpOf <- MCIpOf
  MaxPerIp = 2
  MaxGlobal = 3
INVARIANTS Accounting LimitsHold
PROPERTIES RefusalJustified CallsReturn ImplementsCap
