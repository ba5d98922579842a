---------------------------- MODULE MCCollector ----------------------------
\* Two callers that share a collector: of the connections two are to one
\* server and two from one address, latencies with and without a server.
EXTENDS Collector

CONSTANTS m1, m2, web, db, ipA, ipB

MCCaller == {m1, m2}
MCServer == {web, db}
MCIp == {ipA, ipB}
MCMs == {1, 4}

MCCall ==
  {[op |-> "record", kind |-> "tcp", server |-> web, ip |-> ipA],
   [op |-> "record", kind |-> "mtls", server |-> db, ip |-> ipA],
   [op |-> "failure", server |-> web, ip |-> ipB],
   [op |-> "latency", server |-> web, ip |-> ipA, ms |-> 1],
   [op |-> "latency", server |-> NoServer, ip |-> ipA, ms |-> 4],
   [op |-> "snapshot"], [op |-> "trigger"], [op |-> "reset"],
   [op |-> "register", callback |-> "asking"],
   [op |-> "register", callback |-> "registering"]}
=============================================================================
