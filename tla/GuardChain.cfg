SPECIFICATION HSpec
CONSTANTS
  a1 = a1
  a2 = a2
  a3 = a3
  Caller <- MCCaller
  Ip <- MCCaller
  IpOf <- MCIpOf
  Configured <- MCConfigured
  Token = 2
  PerIpCapacity = 1
  PerIpRefill = 1
  GlobalCapacity = 1
  GlobalRefill = 2
  Window = 1
  WindowLimit = 2
  MaxTracked = 2
  Horizon = 2
  MaxIdle = 1
  MaxConnections = 2
  OrderFactor = 1
  OrderFloor = 4
SYMMETRY Symmetry
INVARIANTS TracksExactly WindowHolds
PROPERTIES LimitedOnlyWhenSpent ImplementsMeter EvictsLeastRecent TimeoutsJustified
