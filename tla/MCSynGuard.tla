----------------------------- MODULE MCSynGuard -----------------------------
\* Instances of SynGuard: four connections from three addresses, so that one
\* address has overlapping connections and eviction has a choice; with a
\* history of whether reserve has evicted an address.
EXTENDS SynGuard

CONSTANTS c1, c2, c3, c4, ipA, ipB, ipC

MCConn == {c1, c2, c3, c4}
MCIp == {ipA, ipB, ipC}
MCIpOf == [c \in MCConn |-> CASE c \in {c1, c2} -> ipA [] c = c3 -> ipB [] OTHER -> ipC]
MCAddrOf == [c \in MCConn |-> c]

VARIABLE evicted

\* reserve makes a connection half-open; an address that goes then is evicted.
Reserving == \E c \in Conn : phase'[c] = "halfOpen" /\ phase[c] # "halfOpen"
Gone == DOMAIN st.perIp \ DOMAIN st'.perIp
Victims == IF Reserving THEN Gone ELSE {}

HInit == Init /\ evicted = FALSE
HNext == Next /\ evicted' = (evicted \/ (Reserving /\ Gone # {}))
HSpec == HInit /\ [][HNext]_<<vars, evicted>>

\* Until reserve has to evict, the half-open counts are exact and both limits
\* limit the connections that are really half-open, in whatever order
\* connections of one address reserve, establish and close.
ExactUntilEviction == evicted \/ Exact

\* The half-open connections, of an address and in all, that are not counted.
Uncounted(ip) == Cardinality(HalfOpenOf(ip)) - Count(st, ip)
UncountedInAll == Cardinality(HalfOpen) - st.total

\* Only eviction lets half-open connections go uncounted: those of one address,
\* and in all no more than were counted of it.  A connection that establishes
\* or closes after its address was evicted may take the count of a later one,
\* which then goes uncounted in its stead; it never takes more than one.
OnlyEvictionUncounts ==
  [][DistinctAddrs =>
       /\ \A ip \in Ip \ Victims : Uncounted(ip)' <= Uncounted(ip)
       /\ Victims = {} => UncountedInAll' <= UncountedInAll
       /\ \A ip \in Victims : UncountedInAll' <= UncountedInAll + Count(st, ip)]_vars
=============================================================================
