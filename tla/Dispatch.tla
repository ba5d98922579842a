------------------------------ MODULE Dispatch ------------------------------
(***************************************************************************)
(* Which backend the proxies of proxy.rs forward a peer to: the routing    *)
(* table decides, and sends some peers to a pool that is changed at the    *)
(* same time.  (Without a table the pool, or one fixed address, decides;   *)
(* those are a table with only a default.)                                 *)
(***************************************************************************)
EXTENDS Routing, BackendPool

CONSTANTS ToPool,  \* RouteAction::Pool; other actions are Forward(addr) or Reject
          KeyOf    \* StickyKey: the address of a peer, or address and port

ASSUME DispatchAssumption == ToPool \in Action /\ KeyOf \in [Peer -> Key]

vars == <<tableVars, poolVars>>

Init == TableInit /\ PoolInit

Next == \/ TableNext /\ UNCHANGED poolVars
        \/ PoolNext /\ UNCHANGED tableVars

Spec == Init /\ [][Next]_vars

\* The backends a peer can be sent to now: one, unless it is by turns; none
\* when the pool is empty and the proxy turns the peer away.
SentTo(peer) ==
  IF Resolve(peer) # ToPool THEN {Resolve(peer)}
  ELSE IF backends = <<>> THEN {}
  ELSE IF strategy = "roundRobin" THEN {backends[Turn].addr}
  ELSE {Hashed(KeyOf[peer])}

-----------------------------------------------------------------------------
\* A peer that is sent to the pool gets a backend that is in the pool now, and
\* is turned away only when the pool is empty: no index into the list of
\* backends, in the ring or by turns, outlives the list it was made for.
ChoiceValid ==
  /\ PoolTypeOK /\ TableTypeOK
  /\ \A peer \in Peer : Resolve(peer) = ToPool =>
       SentTo(peer) \subseteq Members /\ (SentTo(peer) = {} => backends = <<>>)

\* What a step must have done for the table to send peer elsewhere.
TableMeans(peer) ==
  \/ \E r \in Rule : rules' = <<r>> \o rules /\ Matches(r, peer)
  \/ \E r \in Rule : rules' = Append(rules, r) /\ Matches(r, peer) /\ Matching(peer) = {}
  \/ default' # default /\ Matching(peer) = {}
  \/ \E i \in DOMAIN rules : \E name \in rules[i].group :
       name \in DOMAIN groups' /\ (name \in DOMAIN groups => groups'[name] # groups[name])

\* What a step must have done for the pool to give the peers that had backend
\* `old' the backend `new': removed the one, or added the other.
PoolMeans(old, new) ==
  \/ old # {} /\ old \cap Members' = {}
  \/ Len(backends') > Len(backends) /\ new = {Last(backends').addr}
  \/ new = {} /\ backends' = <<>>

\* A change of the table or of a hashed pool moves only the peers it means: a
\* rule at the end those that no rule matched, a backend added those that it
\* gets, a backend removed those that it had.  Everybody else stays.
StableDispatch ==
  [][\A peer \in Peer : strategy = "consistentHash" /\ SentTo(peer)' # SentTo(peer) =>
       \/ Resolve(peer)' # Resolve(peer) /\ TableMeans(peer)
       \/ Resolve(peer)' = ToPool /\ PoolMeans(SentTo(peer), SentTo(peer)')]_vars
=============================================================================
