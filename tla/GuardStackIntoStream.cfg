SPECIFICATION FairSpec
CONSTANTS
  s1 = s1
  s2 = s2
  ipA = ipA
  ipB = ipB
  Session <- MCSession
  Ip <- MCIp
  IpOf <- MCIpOf
  N = 3
  Cap <- MCCap
  HandlersTakeStream = TRUE
INVARIANT ServedWithinCap
