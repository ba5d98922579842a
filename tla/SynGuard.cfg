SPECIFICATION HSpec
CONSTANTS
  c1 = c1
  c2 = c2
  c3 = c3
  c4 = c4
  ipA = ipA
  ipB = ipB
  ipC = ipC
  Conn <- MCConn
  Ip <- MCIp
  IpOf <- MCIpOf
  AddrOf <- MCAddrOf
  MaxHalfOpenPerIp = 2
  MaxHalfOpen = 3
  MaxTracked = 2
  OrderFactor = 2
  OrderFloor = 3
INVARIANTS CountsFaithful TrackingBounded ExactUntilEviction
PROPERTY OnlyEvictionUncounts
