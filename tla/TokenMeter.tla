----------------------------- MODULE TokenMeter -----------------------------
(***************************************************************************)
(* What the token buckets of guard/rate_limiter.rs promise: an eager meter *)
(* for all requests together and one per address.  A meter drains as time  *)
(* passes and takes a request only while it has room.  The meters of       *)
(* addresses are a bounded number: one is reset, and its debt forgotten,   *)
(* only to make room for an address that is new.                           *)
(***************************************************************************)
EXTENDS Integers, FiniteSets

CONSTANTS Ip, Token,            \* a request weighs Token
          PerIpRoom, PerIpRate, \* size of an address's meter, and drain per tick
          GlobalRoom, GlobalRate,
          Room                  \* how many addresses are metered at once

VARIABLES total, level, metered

Drained(n, rate) == IF n > rate THEN n - rate ELSE 0

Init == total = 0 /\ level = [ip \in Ip |-> 0] /\ metered = {}

Tick ==
  /\ total' = Drained(total, GlobalRate)
  /\ level' = [ip \in Ip |-> Drained(level[ip], PerIpRate)]
  /\ UNCHANGED metered

\* A request of ip is taken by the common meter and then, or not, by its own;
\* `forgotten' is the address that has to make room.
Request(ip, forgotten, weight) ==
  /\ total + Token <= GlobalRoom
  /\ weight \in {0, Token} /\ level[ip] + weight <= PerIpRoom
  /\ ip \notin forgotten /\ forgotten \subseteq metered /\ Cardinality(forgotten) <= 1
  /\ forgotten # {} => ip \notin metered /\ Cardinality(metered) >= Room
  /\ metered' = (metered \ forgotten) \cup {ip}
  /\ total' = total + Token
  /\ level' = [i \in Ip |-> IF i = ip THEN level[i] + weight
                            ELSE IF i \in forgotten THEN 0 ELSE level[i]]

Next == \/ Tick
        \/ \E ip \in Ip, weight \in {0, Token} :
             \/ Request(ip, {}, weight)
             \/ \E old \in Ip : Request(ip, {old}, weight)

Spec == Init /\ [][Next]_<<total, level, metered>>
=============================================================================
