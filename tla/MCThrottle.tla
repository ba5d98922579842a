----------------------------- MODULE MCThrottle -----------------------------
\* Instances of Throttle: five connections, three of them from one address, so
\* that either limit can be the one that refuses and all calls can overlap.
EXTENDS Throttle

CONSTANTS c1, c2, c3, c4, c5, ipA, ipB, ipC

MCConn == {c1, c2, c3, c4, c5}
MCIp == {ipA, ipB, ipC}
MCIpOf == [c \in MCConn |-> CASE c = c4 -> ipB [] c = c5 -> ipC [] OTHER -> ipA]
=============================================================================
