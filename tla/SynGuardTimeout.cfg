SPECIFICATION HSpec
CONSTANTS
  c1 = c1
  c2 = c2
  c3 = c3
  c4 = c4
  ipA = ipA
  ipB = ipB
  ipC = ipC
  Conn <- MCConn
  Ip <- MCIp
  IpOf <- MCIpOf
  AddrOf <- MCAddrOf
  MaxHalfOpenPerIp = 2
  MaxHalfOpen = 3
  MaxTracked = 3
  OrderFactor = 1
  OrderFloor = 2
INVARIANT TimeoutOnlyBeforeSettled
