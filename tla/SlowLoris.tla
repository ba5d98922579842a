----------------------------- MODULE SlowLoris -----------------------------
(***************************************************************************)
(* guard/slow_loris.rs: the guard against idle connections.                *)
(*                                                                         *)
(* BoundedActivityMap sits behind a mutex that is taken once for each note, *)
(* get and remove: on_activity takes it twice and measures the idle time   *)
(* in between.  An Instant is the time since then in ticks, as far as      *)
(* MaxIdle + 1, from where on it makes no difference.  The sequence        *)
(* numbers are compared for equality only: next_seq gives note a number    *)
(* that no entry and no mention in the queue has, and any such will do.    *)
(* An address stands for the connection that has it.                       *)
(***************************************************************************)
EXTENDS Integers, FiniteSets, Sequences, Functions, SequencesExt

CONSTANTS Addr,        \* GuardContext::peer_addr of the connections
          MaxIdle,     \* idle_timeout + grace_period, in ticks: a natural number
          MaxTracked,  \* max_tracked_connections, a natural number
          OrderFactor, \* 4 in BoundedActivityMap
          OrderFloor   \* 16 in BoundedActivityMap

VARIABLES
  map,   \* map[a]: ticks since last_seen, and the sequence number
  order, \* the queue of pairs of address and sequence number
  call,  \* call[a]: where the connection's session and its hook calls are
  found  \* found[a]: the last_seen that check_idle has read, if any

vars == <<map, order, call, found>>

Ages == 0..(MaxIdle + 1)
Older(age) == IF age > MaxIdle THEN age ELSE age + 1
Places == {"closed", "open", "judging", "noting", "noted", "failed"}

Init ==
  /\ map = [a \in {} |-> [seen |-> 0, seq |-> 1]] /\ order = <<>>
  /\ call = [a \in Addr |-> "closed"] /\ found = [a \in Addr |-> {}]

Goto(a, place) == call' = [call EXCEPT ![a] = place]

-----------------------------------------------------------------------------
(* BoundedActivityMap, as functions of a map m and a queue o. *)

Room == IF MaxTracked = 0 THEN 1 ELSE MaxTracked
OrderThreshold == IF OrderFactor * Room > OrderFloor THEN OrderFactor * Room ELSE OrderFloor

\* The mention of an address in the queue that counts: its latest.
IsLive(m, mention) == mention[1] \in DOMAIN m /\ m[mention[1]].seq = mention[2]

NextSeq == CHOOSE q \in 1..(Len(order) + Cardinality(DOMAIN map) + 1) :
             /\ \A i \in DOMAIN order : order[i][2] # q
             /\ \A a \in DOMAIN map : map[a].seq # q

\* Variant: pops up to the first address that is in the map, live or not.
EvictFirstMentioned(m, o) ==
  LET hits == {i \in DOMAIN o : o[i][1] \in DOMAIN m}
      k    == CHOOSE i \in hits : \A j \in hits : i <= j
  IN  IF hits = {} THEN [map |-> m, order |-> <<>>]
      ELSE [map |-> Restrict(m, DOMAIN m \ {o[k][1]}), order |-> SubSeq(o, k + 1, Len(o))]

\* Pops up to the first live mention and forgets that address.
EvictOldestLive(m, o) ==
  LET hits == {i \in DOMAIN o : IsLive(m, o[i])}
      k    == CHOOSE i \in hits : \A j \in hits : i <= j
  IN  IF hits = {} THEN [map |-> m, order |-> <<>>]
      ELSE [map |-> Restrict(m, DOMAIN m \ {o[k][1]}), order |-> SubSeq(o, k + 1, Len(o))]

\* Keeps the live mentions: kept[n] is what is pushed back of the first n.
CompactOrder(m, o) ==
  LET kept[n \in 0 .. Len(o)] ==
        IF n = 0 THEN <<>>
        ELSE IF IsLive(m, o[n]) THEN Append(kept[n - 1], o[n]) ELSE kept[n - 1]
  IN  kept[Len(o)]

MaybeCompact(s) ==
  IF Len(s.order) > OrderThreshold THEN [s EXCEPT !.order = CompactOrder(s.map, @)] ELSE s

Store(s) == map' = s.map /\ order' = s.order

\* Variant: an entry that is there keeps its last_seen.
NoteOfFirst(a) ==
  LET entry == [seen |-> IF a \in DOMAIN map THEN map[a].seen ELSE 0, seq |-> NextSeq]
      noted == [x \in DOMAIN map \cup {a} |-> IF x = a THEN entry ELSE map[x]]
      queue == Append(order, <<a, NextSeq>>)
  IN  IF a \notin DOMAIN map /\ Cardinality(DOMAIN noted) > Room
      THEN MaybeCompact(EvictOldestLive(noted, queue))
      ELSE MaybeCompact([map |-> noted, order |-> queue])

\* note: a new entry or a new last_seen, a mention at the end of the queue.
NoteOf(a) ==
  LET entry == [seen |-> 0, seq |-> NextSeq]
      noted == [x \in DOMAIN map \cup {a} |-> IF x = a THEN entry ELSE map[x]]
      queue == Append(order, <<a, NextSeq>>)
  IN  IF a \notin DOMAIN map /\ Cardinality(DOMAIN noted) > Room
      THEN MaybeCompact(EvictOldestLive(noted, queue))
      ELSE MaybeCompact([map |-> noted, order |-> queue])

-----------------------------------------------------------------------------
\* on_reserve: the new connection counts as active.
OnReserve(a) ==
  /\ call[a] = "closed"
  /\ Store(NoteOf(a))
  /\ Goto(a, "open")
  /\ UNCHANGED found

\* on_activity, check_idle: read last_seen under the lock.
CheckIdle(a) ==
  /\ call[a] \in {"open", "failed"}
  /\ found' = [found EXCEPT ![a] = IF a \in DOMAIN map THEN {map[a].seen} ELSE {}]
  /\ Goto(a, "judging")
  /\ UNCHANGED <<map, order>>

\* check_idle: the time that has elapsed by now is within the limit, or there
\* is no last_seen to measure it from.
StillActive(a) ==
  /\ call[a] = "judging"
  /\ \A age \in found[a] : age <= MaxIdle
  /\ found' = [found EXCEPT ![a] = {}]
  /\ Goto(a, "noting")
  /\ UNCHANGED <<map, order>>

\* check_idle returns an error, which ends on_activity.
TimedOut(a) ==
  /\ call[a] = "judging"
  /\ \E age \in found[a] : age > MaxIdle
  /\ found' = [found EXCEPT ![a] = {}]
  /\ Goto(a, "failed")
  /\ UNCHANGED <<map, order>>

\* on_activity: note.
NoteActivity(a) ==
  /\ call[a] = "noting"
  /\ Store(NoteOf(a))
  /\ Goto(a, "noted")
  /\ UNCHANGED found

\* GuardSession::touch ends here; record_payload calls on_payload as well.
Touched(a) ==
  /\ call[a] = "noted"
  /\ Goto(a, "open")
  /\ UNCHANGED <<map, order, found>>

OnPayload(a) ==
  /\ call[a] = "noted"
  /\ Store(NoteOf(a))
  /\ Goto(a, "open")
  /\ UNCHANGED found

\* Variant: the entry stays.
OnCloseKeeps(a) ==
  /\ call[a] \in {"open", "failed"}
  /\ Store([map |-> map, order |-> order])
  /\ Goto(a, "closed")
  /\ UNCHANGED found

\* on_close: remove.
OnClose(a) ==
  /\ call[a] \in {"open", "failed"}
  /\ Store(MaybeCompact([map |-> Restrict(map, DOMAIN map \ {a}), order |-> order]))
  /\ Goto(a, "closed")
  /\ UNCHANGED found

\* Time passes, also between the steps of a call.
Tick ==
  /\ map' = [a \in DOMAIN map |-> [map[a] EXCEPT !.seen = Older(@)]]
  /\ found' = [a \in Addr |-> {Older(age) : age \in found[a]}]
  /\ UNCHANGED <<order, call>>

Hooks(a) == \/ OnReserve(a) \/ CheckIdle(a) \/ StillActive(a) \/ TimedOut(a)
            \/ NoteActivity(a) \/ Touched(a) \/ OnPayload(a) \/ OnClose(a)

Next == Tick \/ \E a \in Addr : Hooks(a)

Spec == Init /\ [][Next]_vars

-----------------------------------------------------------------------------
TypeOK ==
  /\ DOMAIN map \subseteq Addr /\ map \in [DOMAIN map -> [seen : Ages, seq : Nat \ {0}]]
  /\ order \in Seq(Addr \X (Nat \ {0}))
  /\ call \in [Addr -> Places]
  /\ found \in [Addr -> SUBSET Ages] /\ \A a \in Addr : Cardinality(found[a]) <= 1

\* The map is bounded and holds open connections only, the queue is bounded,
\* and each entry of the map has one live mention in the queue, whatever calls
\* of other connections evict and compact between two steps of one: so that
\* eviction always finds a victim and compaction loses nobody.
TrackingExact ==
  /\ TypeOK
  /\ Cardinality(DOMAIN map) <= Room /\ \A a \in DOMAIN map : call[a] # "closed"
  /\ Len(order) <= OrderThreshold
  /\ \A a \in DOMAIN map : Cardinality({i \in DOMAIN order : order[i] = <<a, map[a].seq>>}) = 1
=============================================================================
