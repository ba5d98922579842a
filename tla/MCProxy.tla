------------------------------ MODULE MCProxy ------------------------------
\* An instance of Proxy: two connections from two addresses.
EXTENDS Proxy

CONSTANTS c1, c2, ip1, ip2, basicA, basicB

MCConn == {c1, c2}
MCIpOf == c1 :> ip1 @@ c2 :> ip2
MCIp == {ip1, ip2}
MCSends == c1 :> 4 @@ c2 :> 1
MCCredentials == {basicA, basicB}
MCPresents == c1 :> {basicA} @@ c2 :> {None}
MCHeaderLen == [c \in MCConn |-> 2]
MCServer == {"proxy", "async-proxy"}
=============================================================================
