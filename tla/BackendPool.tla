---------------------------- MODULE BackendPool ----------------------------
(***************************************************************************)
(* load_balancer.rs: a pool of backends behind one RwLock, from which      *)
(* select takes one by turns or by a consistent hash of the peer.          *)
(*                                                                         *)
(* add_backend and remove_backend hold the write lock, select the read     *)
(* lock while it adds to the counter, so that each is one step.  The ring  *)
(* is the set of its nodes: sorted by hash, the first node at or after a   *)
(* key is the one with the least hash there.  The hash is a parameter.     *)
(***************************************************************************)
EXTENDS Integers, FiniteSets, Sequences, SequencesExt

CONSTANTS Backend,    \* addresses of backends
          Weights,    \* the weights they are added with
          Replicas,   \* LoadBalancerStrategy::ConsistentHash::replicas
          NodeHash,   \* NodeHash[<<a, i>>]: fnv1a of "a#i"
          Key, KeyHash, \* what StickyKey makes of a peer, and its fnv1a
          MaxBackends,  \* a bound on the pool, for model checking
          CounterMod    \* 2^64: AtomicUsize

\* Every node has a hash; different nodes have different hashes, as 64 bits
\* make all but certain.
ASSUME PoolAssumption ==
  /\ IsFiniteSet(Backend) /\ Weights \subseteq Nat /\ Replicas \in Nat
  /\ \A addr \in Backend, weight \in Weights :
       \A n \in 0..(Replicas * weight - 1) :
         <<addr, n>> \in DOMAIN NodeHash /\ NodeHash[<<addr, n>>] \in Nat
  /\ \A x, y \in DOMAIN NodeHash : NodeHash[x] = NodeHash[y] => x = y
  /\ \A key \in Key : KeyHash[key] \in Nat
  /\ MaxBackends \in Nat /\ CounterMod \in Nat \ {0}

VARIABLES
  strategy, \* roundRobin or consistentHash, chosen once
  backends, \* PoolInner::backends: address and weight
  ring,     \* PoolInner::ring: hash and index into backends
  counter   \* rr_counter

poolVars == <<strategy, backends, ring, counter>>

\* Variant: the nodes are named by the position of a backend in the list.
NodesByPosition(bs) ==
  IF strategy = "roundRobin" THEN {}
  ELSE UNION {{[hash |-> NodeHash[<<SetToSeq(Backend)[i], n>>], idx |-> i] :
               n \in 0..(Replicas * bs[i].weight - 1)} : i \in DOMAIN bs}

\* rebuild_ring, for the new list of backends.
Nodes(bs) ==
  IF strategy = "roundRobin" THEN {}
  ELSE UNION {{[hash |-> NodeHash[<<bs[i].addr, n>>], idx |-> i] : n \in 0..(Replicas * bs[i].weight - 1)}
              : i \in DOMAIN bs}

PoolInit ==
  /\ strategy \in {"roundRobin", "consistentHash"}
  /\ backends = <<>> /\ ring = {} /\ counter = 0

\* with_weight makes a weight at least one; the field itself can hold zero.
AddBackend(addr, weight) ==
  /\ Len(backends) < MaxBackends
  /\ backends' = Append(backends, [addr |-> addr, weight |-> weight])
  /\ ring' = Nodes(backends')
  /\ UNCHANGED <<strategy, counter>>

Members == {backends[i].addr : i \in DOMAIN backends}

\* retain: the other backends, in the order they have.
Without(bs, addr) ==
  LET kept[i \in 0..Len(bs)] ==
        IF i = 0 THEN <<>>
        ELSE IF bs[i].addr # addr THEN Append(kept[i - 1], bs[i]) ELSE kept[i - 1]
  IN  kept[Len(bs)]

\* Variant: the ring is left as it is, with the indices of before.
RemoveBackendOnly(addr) ==
  /\ addr \in Members
  /\ backends' = Without(backends, addr)
  /\ UNCHANGED <<strategy, counter, ring>>

\* Removes every entry with the address; without one, returns false.
RemoveBackend(addr) ==
  /\ addr \in Members
  /\ backends' = Without(backends, addr)
  /\ ring' = Nodes(backends')
  /\ UNCHANGED <<strategy, counter>>

-----------------------------------------------------------------------------
(* select *)

First(nodes) == CHOOSE n \in nodes : \A m \in nodes : n.hash <= m.hash

\* The node at or after the key, or past the end the first of the ring; the
\* first backend when no weight makes a node.
Hashed(key) ==
  LET after == {n \in ring : n.hash >= KeyHash[key]}
  IN  IF ring = {} THEN backends[1].addr
      ELSE IF after = {} THEN backends[First(ring).idx].addr
      ELSE backends[First(after).idx].addr

\* By turns: the index that the next call takes.
Turn == (counter % Len(backends)) + 1

\* Variant: the counter starts again one call too late.
SelectTurnReset ==
  /\ strategy = "roundRobin" /\ backends # <<>>
  /\ counter' = IF counter >= Len(backends) THEN 0 ELSE counter + 1
  /\ UNCHANGED <<strategy, backends, ring>>

\* fetch_add under the read lock; select(None) changes nothing.
SelectTurn ==
  /\ strategy = "roundRobin" /\ backends # <<>>
  /\ counter' = (counter + 1) % CounterMod
  /\ UNCHANGED <<strategy, backends, ring>>

PoolNext == \/ \E addr \in Backend, weight \in Weights : AddBackend(addr, weight)
            \/ \E addr \in Backend : RemoveBackend(addr)
            \/ SelectTurn

-----------------------------------------------------------------------------
PoolTypeOK ==
  /\ strategy \in {"roundRobin", "consistentHash"}
  /\ backends \in Seq([addr : Backend, weight : Weights]) /\ Len(backends) <= MaxBackends
  /\ \A n \in ring : n.idx \in DOMAIN backends
  /\ counter \in 0..(CounterMod - 1)
=============================================================================
