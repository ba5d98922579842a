------------------------------ MODULE SynGuard ------------------------------
(***************************************************************************)
(* guard/syn_guard.rs: the limiter of half-open connections.               *)
(*                                                                         *)
(* HalfOpenState sits behind one mutex that every hook holds from its      *)
(* first to its last line, so one hook is one action and st is the record  *)
(* behind the mutex.  phase[c] is what the owner of connection c knows: it *)
(* reserves, establishes and closes in the order GuardSession makes it.    *)
(* An Instant is abstracted to whether syn_timeout has elapsed since.      *)
(***************************************************************************)
EXTENDS Integers, FiniteSets, Sequences, Functions, SequencesExt

CONSTANTS Conn,             \* connections
          AddrOf,           \* GuardContext::peer_addr, with the port
          Ip, IpOf,         \* GuardContext::peer_ip, without it
          MaxHalfOpenPerIp, \* SynGuardConfig::max_half_open_per_ip
          MaxHalfOpen,      \* SynGuardConfig::max_half_open_global
          MaxTracked,       \* SynGuardConfig::max_tracked_ips
          OrderFactor,      \* 4 in maybe_compact_ip_order
          OrderFloor        \* 16 in maybe_compact_ip_order

ASSUME SynConnAssumption ==
  /\ IsFiniteSet(Conn) /\ IpOf \in [Conn -> Ip] /\ AddrOf = [c \in Conn |-> AddrOf[c]]
  /\ \A c, d \in Conn : AddrOf[c] = AddrOf[d] => IpOf[c] = IpOf[d]
ASSUME SynLimitAssumption ==
  /\ MaxHalfOpenPerIp \in Nat /\ MaxHalfOpen \in Nat /\ MaxTracked \in Nat
  /\ OrderFactor \in Nat \ {0} /\ OrderFloor \in Nat \ {0}

VARIABLES st, phase
vars == <<st, phase>>

Phases == {"idle", "refused", "halfOpen", "established", "timedOut"}
In(phases) == {c \in Conn : phase[c] \in phases}
HalfOpen == In({"halfOpen"})
HalfOpenOf(ip) == {c \in HalfOpen : IpOf[c] = ip}
Established == In({"established", "timedOut"})

Init ==
  /\ st = [total |-> 0, perIp |-> [ip \in {} |-> 0], ipOrder |-> <<>>,
           startedAt |-> [ip \in {} |-> "recent"], established |-> {}]
  /\ phase = [c \in Conn |-> "idle"]

-----------------------------------------------------------------------------
(* The methods of SynGuard, as functions from one HalfOpenState to the next. *)

Tracks(s, ip) == ip \in DOMAIN s.perIp
Count(s, ip) == IF Tracks(s, ip) THEN s.perIp[ip] ELSE 0
Without(f, ip) == Restrict(f, DOMAIN f \ {ip})

\* f.insert(ip, v), which adds the key when it is new.
With(f, ip, v) == [i \in DOMAIN f \cup {ip} |-> IF i = ip THEN v ELSE f[i]]

SaturatingSub(m, n) == IF m > n THEN m - n ELSE 0

\* Pops ip_order up to and including the first address that is tracked, and
\* forgets that address with all its half-open connections.
EvictOldest(s) ==
  LET hits == {i \in DOMAIN s.ipOrder : Tracks(s, s.ipOrder[i])}
  IN  IF hits = {} THEN [s EXCEPT !.ipOrder = <<>>]
      ELSE LET k      == CHOOSE i \in hits : \A j \in hits : i <= j
               oldest == s.ipOrder[k]
           IN  [s EXCEPT !.ipOrder   = SubSeq(@, k + 1, Len(@)),
                         !.total     = SaturatingSub(@, s.perIp[oldest]),
                         !.perIp     = Without(@, oldest),
                         !.startedAt = Without(@, oldest)]

OrderThreshold ==
  IF OrderFactor * MaxTracked > OrderFloor THEN OrderFactor * MaxTracked ELSE OrderFloor

\* Keeps the first mention of each tracked address once the queue is long:
\* kept[n] is what is pushed back of the first n.
Compacted(s) ==
  LET kept[n \in 0 .. Len(s.ipOrder)] ==
        IF n = 0 THEN <<>>
        ELSE IF Tracks(s, s.ipOrder[n]) /\ ~Contains(kept[n - 1], s.ipOrder[n])
             THEN Append(kept[n - 1], s.ipOrder[n])
             ELSE kept[n - 1]
  IN  kept[Len(s.ipOrder)]

\* Variant: the queue is never compacted.
MaybeCompactNever(s) == s

MaybeCompact(s) ==
  IF Len(s.ipOrder) <= OrderThreshold THEN s ELSE [s EXCEPT !.ipOrder = Compacted(s)]

\* Variant: at the limit an address that is tracked evicts one too.
ReservedEvicts(s, ip) ==
  LET isNew == ~Tracks(s, ip)
      room  == IF Cardinality(DOMAIN s.perIp) >= MaxTracked THEN EvictOldest(s) ELSE s
      start == IF ip \in DOMAIN room.startedAt THEN room.startedAt[ip] ELSE "recent"
  IN  MaybeCompact([room EXCEPT !.total     = @ + 1,
                                !.ipOrder   = IF isNew THEN Append(@, ip) ELSE @,
                                !.perIp     = With(@, ip, Count(s, ip) + 1),
                                !.startedAt = With(@, ip, start)])

\* reserve, past its two checks: evict if the address is new and there is no
\* room to track it, count it, and start its clock unless one is running.
Reserved(s, ip) ==
  LET isNew == ~Tracks(s, ip)
      room  == IF isNew /\ Cardinality(DOMAIN s.perIp) >= MaxTracked
               THEN EvictOldest(s) ELSE s
      start == IF ip \in DOMAIN room.startedAt THEN room.startedAt[ip] ELSE "recent"
  IN  MaybeCompact([room EXCEPT !.total     = @ + 1,
                                !.ipOrder   = IF isNew THEN Append(@, ip) ELSE @,
                                !.perIp     = With(@, ip, Count(s, ip) + 1),
                                !.startedAt = With(@, ip, start)])

\* Variant: the entry of the last half-open connection stays, at zero.
OneFewerKeeps(s, ip) ==
  LET less == [s EXCEPT !.total = SaturatingSub(@, 1)]
  IN  IF ~Tracks(s, ip) THEN less ELSE [less EXCEPT !.perIp[ip] = @ - 1]

\* What establish and close share: one half-open connection of ip fewer.
OneFewer(s, ip) ==
  LET less == [s EXCEPT !.total = SaturatingSub(@, 1)]
  IN  IF ~Tracks(s, ip) THEN less
      ELSE IF s.perIp[ip] > 1 THEN [less EXCEPT !.perIp[ip] = @ - 1]
      ELSE MaybeCompact([less EXCEPT !.perIp     = Without(@, ip),
                                     !.startedAt = Without(@, ip)])

-----------------------------------------------------------------------------
Goto(c, p) == phase' = [phase EXCEPT ![c] = p]

AtGlobalLimit == st.total + 1 > MaxHalfOpen
AtIpLimit(ip) == Count(st, ip) + 1 > MaxHalfOpenPerIp

\* on_reserve
Reserve(c) ==
  /\ phase[c] \in {"idle", "refused"}
  /\ ~AtGlobalLimit /\ ~AtIpLimit(IpOf[c])
  /\ st' = Reserved(st, IpOf[c])
  /\ Goto(c, "halfOpen")

RefuseReserve(c) ==
  /\ phase[c] \in {"idle", "refused"}
  /\ AtGlobalLimit \/ AtIpLimit(IpOf[c])
  /\ Goto(c, "refused")
  /\ UNCHANGED st

\* Variant: the connection stays counted as half-open.
EstablishKeepsCount(c) ==
  /\ phase[c] = "halfOpen"
  /\ st' = [st EXCEPT !.established = @ \cup {AddrOf[c]}]
  /\ Goto(c, "established")

\* on_established
Establish(c) ==
  /\ phase[c] = "halfOpen"
  /\ st' = [OneFewer(st, IpOf[c]) EXCEPT !.established = @ \cup {AddrOf[c]}]
  /\ Goto(c, "established")

\* Variants: `established' is not consulted; or not cleaned up.
CloseTwice(c) ==
  /\ phase[c] \in {"halfOpen", "established", "timedOut"}
  /\ st' = [OneFewer(st, IpOf[c]) EXCEPT !.established = @ \ {AddrOf[c]}]
  /\ Goto(c, "idle")

CloseKeepsAddr(c) ==
  /\ phase[c] \in {"halfOpen", "established", "timedOut"}
  /\ st' = IF AddrOf[c] \in st.established THEN st ELSE OneFewer(st, IpOf[c])
  /\ Goto(c, "idle")

\* on_close: an established connection has already been uncounted.
Close(c) ==
  /\ phase[c] \in {"halfOpen", "established", "timedOut"}
  /\ st' = IF AddrOf[c] \in st.established
           THEN [st EXCEPT !.established = @ \ {AddrOf[c]}]
           ELSE OneFewer(st, IpOf[c])
  /\ Goto(c, "idle")

\* on_activity: the session reports a read or write, after the establishment.
OnActivity(c) ==
  /\ phase[c] \in {"established", "timedOut"}
  /\ Goto(c, IF IpOf[c] \in DOMAIN st.startedAt /\ st.startedAt[IpOf[c]] = "expired"
             THEN "timedOut" ELSE "established")
  /\ UNCHANGED st

\* Time passes: syn_timeout has now elapsed since the clock of ip started.
Expire(ip) ==
  /\ ip \in DOMAIN st.startedAt
  /\ st' = [st EXCEPT !.startedAt[ip] = "expired"]
  /\ UNCHANGED phase

Next == \/ \E c \in Conn : \/ Reserve(c) \/ RefuseReserve(c) \/ Establish(c)
                           \/ Close(c) \/ OnActivity(c)
        \/ \E ip \in Ip : Expire(ip)

Spec == Init /\ [][Next]_vars

-----------------------------------------------------------------------------
TypeOK ==
  /\ DOMAIN st = {"total", "perIp", "ipOrder", "startedAt", "established"}
  /\ st.total \in Nat
  /\ DOMAIN st.perIp \subseteq Ip /\ st.perIp \in [DOMAIN st.perIp -> Nat \ {0}]
  /\ st.ipOrder \in Seq(Ip)
  /\ st.startedAt \in [DOMAIN st.perIp -> {"recent", "expired"}]
  /\ st.established \subseteq Range(AddrOf)
  /\ phase \in [Conn -> Phases]

\* A peer address belongs to one open connection at a time.  A client that
\* resets a connection can reuse its port before the server's handler has
\* noticed and closed the old session, so the code does not guarantee this.
DistinctAddrs == \A c, d \in Conn : AddrOf[c] = AddrOf[d] => c = d

\* Whatever is evicted and whenever the evicted connections establish or close
\* afterwards, the guard never counts a connection twice or after its end: its
\* totals are lower bounds of the truth.  Hence an entry goes with the last
\* half-open connection of its address, and an empty server has an empty map.
NeverOverCounts == DistinctAddrs =>
  /\ st.total <= Cardinality(HalfOpen)
  /\ \A ip \in DOMAIN st.perIp : st.perIp[ip] <= Cardinality(HalfOpenOf(ip))

\* `established' holds the connections that establish has uncounted and close
\* has not seen: every insertion is removed exactly once, so the set does not
\* grow with the connections served.
EstablishedExact == DistinctAddrs => st.established = {AddrOf[c] : c \in Established}

\* What is counted of half-open connections, and what of established ones.
CountsFaithful == NeverOverCounts /\ EstablishedExact

\* The bounds on the tracking state: the map, and the queue that outlives it.
\* Every tracked address is in the queue, so that eviction finds a victim.
TrackingBounded ==
  /\ TypeOK
  /\ Cardinality(DOMAIN st.perIp) <= (IF MaxTracked = 0 THEN 1 ELSE MaxTracked)
  /\ Len(st.ipOrder) <= OrderThreshold
  /\ DOMAIN st.perIp \subseteq ToSet(st.ipOrder)

\* What the counts are while nothing has been evicted: exact, so that both
\* limits hold for the connections that are really half-open.
Exact ==
  DistinctAddrs =>
    /\ st.total = Cardinality(HalfOpen) /\ st.total <= MaxHalfOpen
    /\ \A ip \in Ip : /\ Count(st, ip) = Cardinality(HalfOpenOf(ip))
                      /\ Count(st, ip) <= MaxHalfOpenPerIp

\* on_activity times out a connection only while it waits to settle, as its
\* error says ("waiting for a connection to settle").
TimeoutOnlyBeforeSettled == \A c \in Conn : phase[c] = "timedOut" => AddrOf[c] \notin st.established
=============================================================================
