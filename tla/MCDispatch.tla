----------------------------- MODULE MCDispatch -----------------------------
\* Instances of Dispatch: addresses of two bits and two ports; rules of every
\* kind; three backends whose nodes interleave on the ring.  With a history of
\* whose turns it was since the pool has changed.
EXTENDS Dispatch

CONSTANTS b1, b2, b3, inner, toPool, toX, reject

MCBackend == {b1, b2, b3}
MCPort == {1, 2}
MCAction == {toPool, toX, reject}
NoGroup == [group |-> {}, ips |-> {}, ports |-> {}, action |-> toX]
MCRule == {[NoGroup EXCEPT !.group = {inner}, !.action = toPool],
           [NoGroup EXCEPT !.ips = {1}, !.action = reject],
           [NoGroup EXCEPT !.ips = {0}, !.group = {inner}, !.ports = {<<2, 3>>}]}
MCGroupName == {inner}
MCIpGroup == {[ips |-> {0}, prefixes |-> {}], [ips |-> {}, prefixes |-> {<<2, 1>>, <<1, 5>>}]}
MCKey == 0..3
MCKeyHash == [k \in MCKey |-> 3 * k]
MCKeyOf == [p \in [ip : 0..3, port : MCPort] |-> p.ip]
MCNodeHash == [x \in MCBackend \X (0..1) |->
  CASE x[1] = b1 -> 1 + 6 * x[2] [] x[1] = b2 -> 3 + 5 * x[2] [] x[1] = b3 -> 5 - 3 * x[2]]

VARIABLE turns \* the indices taken by turns since the pool or the counter started anew

Turning == backends' = backends /\ counter' # counter
Wrapping == counter = CounterMod - 1 /\ counter' = 0
LastTurns == IF Len(turns) < Len(backends) THEN turns ELSE Tail(turns)

HInit == Init /\ turns = <<>>
HNext == Next /\ turns' = IF Turning /\ ~Wrapping THEN Append(LastTurns, Turn)
                          ELSE IF UNCHANGED poolVars THEN turns ELSE <<>>
HSpec == HInit /\ [][HNext]_<<vars, turns>>

-----------------------------------------------------------------------------
\* As long as the pool does not change, as many calls as there are backends
\* give each of them one turn, whatever the counter stood at when the pool was
\* changed last.  (Except where the counter wraps, after 2^64 calls.)
RoundRobinFair == IsInjective(turns) /\ Len(turns) <= Len(backends)
=============================================================================
