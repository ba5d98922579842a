SPECIFICATION HSpec
CONSTANTS
  b1 = b1
  b2 = b2
  b3 = b3
  inner = inner
  toPool = toPool
  toX = toX
  reject = reject
  AddressBits = 2
  Port <- MCPort
  Rule <- MCRule
  GroupName <- MCGroupName
  IpGroup <- MCIpGroup
  Action <- MCAction
  MaxRules = 2
  Backend <- MCBackend
  Weights = {0, 2}
  Replicas = 1
  NodeHash <- MCNodeHash
  Key <- MCKey
  KeyHash <- MCKeyHash
  MaxBackends = 3
  CounterMod = 8
  ToPool <- toPool
  KeyOf <- MCKeyOf
INVARIANTS ChoiceValid RoundRobinFair
PROPERTY StableDispatch
