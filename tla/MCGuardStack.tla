---------------------------- MODULE MCGuardStack ----------------------------
\* Two connections from different addresses, so that one can be allowlisted
\* and the other not, and three guards, so that every loop has a first, a
\* middle and a last step; the first guard has room for one connection only.
EXTENDS GuardStack

CONSTANTS s1, s2, ipA, ipB

MCSession == {s1, s2}
MCIp == {ipA, ipB}
MCIpOf == [s \in MCSession |-> IF s = s1 THEN ipA ELSE ipB]
MCCap == [g \in Guard |-> IF g = 1 THEN 1 ELSE 2]
=============================================================================
