---------------------------- MODULE RateLimiter ----------------------------
(***************************************************************************)
(* guard/rate_limiter.rs: a sliding window over all requests, a token      *)
(* bucket for all, and a bucket for each address in a bounded map.         *)
(*                                                                         *)
(* allow takes the lock of the window and gives it back; then it takes     *)
(* those of the common bucket and, within, of the map, and holds both to   *)
(* its end: two steps, with other calls and time in between.  An Instant   *)
(* is the number of ticks since then, as far as Horizon, from where on it  *)
(* makes no difference; tokens, f64 in the code, are counted in fractions  *)
(* of which Token make one, so that a tick's refill is a whole number.     *)
(***************************************************************************)
EXTENDS Integers, FiniteSets, Sequences, Functions, SequencesExt

CONSTANTS Caller,       \* threads and tasks that call allow
          Ip, IpOf,     \* the address each of them asks for
          Token,        \* fractions of a token in a token
          PerIpCapacity, PerIpRefill,   \* tokens; fractions per tick
          GlobalCapacity, GlobalRefill,
          Window, WindowLimit,          \* global_window in ticks; global_window_limit
          MaxTracked,   \* max_tracked_ips
          Horizon       \* ticks that fill any bucket and leave any window

ASSUME RateAssumption ==
  /\ IsFiniteSet(Caller) /\ IsFiniteSet(Ip) /\ IpOf \in [Caller -> Ip]
  /\ {PerIpCapacity, PerIpRefill, GlobalCapacity, GlobalRefill} \subseteq Nat
  /\ {Window, WindowLimit, MaxTracked} \subseteq Nat /\ Token \in Nat \ {0}
  /\ Horizon \in Nat /\ Horizon > Window
  /\ PerIpRefill > 0 => Horizon * PerIpRefill >= PerIpCapacity * Token
  /\ GlobalRefill > 0 => Horizon * GlobalRefill >= GlobalCapacity * Token

VARIABLES
  window, \* global_window: the ages of the requests in it, oldest first
  bucket, \* global_bucket
  perIp,  \* BoundedIpMap::map
  order,  \* BoundedIpMap::order
  at      \* at[c]: idle, passed the window, or what allow has returned

vars == <<window, bucket, perIp, order, at>>

Older(age) == IF age < Horizon THEN age + 1 ELSE age
Least(m, n) == IF m < n THEN m ELSE n

-----------------------------------------------------------------------------
(* TokenBucket *)

Full(capacity) == [tokens |-> capacity * Token, since |-> 0]

\* What a bucket holds now.
Available(b, capacity, refill) == Least(b.tokens + b.since * refill, capacity * Token)

Allows(b, capacity, refill) == Available(b, capacity, refill) >= Token

\* Variant: without a whole token to take, what has come in is forgotten with
\* the time it came in.
AllowLoses(b, capacity, refill) ==
  LET now == Available(b, capacity, refill)
  IN  [tokens |-> IF now >= Token THEN now - Token ELSE b.tokens, since |-> 0]

\* allow: refill, then take a token if there is a whole one.
Allow(b, capacity, refill) ==
  LET now == Available(b, capacity, refill)
  IN  [tokens |-> IF now >= Token THEN now - Token ELSE now, since |-> 0]

Init ==
  /\ window = <<>> /\ bucket = Full(GlobalCapacity)
  /\ perIp = [ip \in {} |-> Full(PerIpCapacity)] /\ order = <<>>
  /\ at = [c \in Caller |-> "idle"]

Return(c, place) == at' = [at EXCEPT ![c] = place]

-----------------------------------------------------------------------------
(* allow_global_window *)

\* Pops the requests at the front that are older than `limit`.
Within(limit) ==
  LET fresh == {i \in DOMAIN window : window[i] <= limit}
      first == CHOOSE i \in fresh : \A j \in fresh : i <= j
  IN  IF fresh = {} THEN <<>> ELSE SubSeq(window, first, Len(window))

\* Variants: a request leaves a tick early; or a tick late.
PrunedEarly == Within(Window - 1)
PrunedLate == Within(Window + 1)

Pruned == Within(Window)

EnterWindow(c) ==
  /\ at[c] = "idle"
  /\ Len(Pruned) < WindowLimit
  /\ window' = Append(Pruned, 0)
  /\ Return(c, "passed")
  /\ UNCHANGED <<bucket, perIp, order>>

WindowFull(c) ==
  /\ at[c] = "idle"
  /\ Len(Pruned) >= WindowLimit
  /\ window' = Pruned
  /\ Return(c, "limited")
  /\ UNCHANGED <<bucket, perIp, order>>

-----------------------------------------------------------------------------
(* The rest of allow, under the lock of the common bucket. *)

Room == IF MaxTracked = 0 THEN 1 ELSE MaxTracked

\* Variant: the queue mentions an address each time it asks.
TrackingEachTime(ip) ==
  LET full == ip \notin DOMAIN perIp /\ Cardinality(DOMAIN perIp) >= Room /\ order # <<>>
      left == IF full THEN Restrict(perIp, DOMAIN perIp \ {Head(order)}) ELSE perIp
      rest == IF full THEN Tail(order) ELSE order
  IN  [map   |-> [i \in DOMAIN left \cup {ip} |->
                    IF i = ip /\ ip \notin DOMAIN perIp THEN Full(PerIpCapacity) ELSE left[i]],
       order |-> Append(rest, ip)]

\* get_or_insert: the map and the queue with ip in them.
Tracking(ip) ==
  LET full == ip \notin DOMAIN perIp /\ Cardinality(DOMAIN perIp) >= Room /\ order # <<>>
      left == IF full THEN Restrict(perIp, DOMAIN perIp \ {Head(order)}) ELSE perIp
      rest == IF full THEN Tail(order) ELSE order
  IN  IF ip \in DOMAIN perIp THEN [map |-> perIp, order |-> order]
      ELSE [map   |-> [i \in DOMAIN left \cup {ip} |->
                         IF i = ip THEN Full(PerIpCapacity) ELSE left[i]],
            order |-> Append(rest, ip)]

\* The common bucket is empty.
GlobalEmpty(c) ==
  /\ at[c] = "passed"
  /\ ~Allows(bucket, GlobalCapacity, GlobalRefill)
  /\ bucket' = Allow(bucket, GlobalCapacity, GlobalRefill)
  /\ Return(c, "limited")
  /\ UNCHANGED <<window, perIp, order>>

\* The common bucket gives a token; the address's own may still be empty, and
\* then nothing that was taken before is given back.
AskPerIp(c) ==
  /\ at[c] = "passed"
  /\ Allows(bucket, GlobalCapacity, GlobalRefill)
  /\ bucket' = Allow(bucket, GlobalCapacity, GlobalRefill)
  /\ LET tracking == Tracking(IpOf[c])
         own      == tracking.map[IpOf[c]]
     IN  /\ perIp' = [tracking.map EXCEPT ![IpOf[c]] = Allow(@, PerIpCapacity, PerIpRefill)]
         /\ order' = tracking.order
         /\ Return(c, IF Allows(own, PerIpCapacity, PerIpRefill) THEN "granted" ELSE "limited")
  /\ UNCHANGED window

\* The caller has its answer and may ask again.
Done(c) ==
  /\ at[c] \in {"granted", "limited"}
  /\ Return(c, "idle")
  /\ UNCHANGED <<window, bucket, perIp, order>>

Tick ==
  /\ window' = [i \in DOMAIN window |-> Older(window[i])]
  /\ bucket' = [bucket EXCEPT !.since = Older(@)]
  /\ perIp' = [ip \in DOMAIN perIp |-> [perIp[ip] EXCEPT !.since = Older(@)]]
  /\ UNCHANGED <<order, at>>

Asking(c) == EnterWindow(c) \/ WindowFull(c) \/ GlobalEmpty(c) \/ AskPerIp(c) \/ Done(c)

Next == Tick \/ \E c \in Caller : Asking(c)

Spec == Init /\ [][Next]_vars

-----------------------------------------------------------------------------
Bucket(capacity) == [tokens : 0..(capacity * Token), since : 0..Horizon]

TypeOK ==
  /\ window \in Seq(0..Horizon)
  /\ bucket \in Bucket(GlobalCapacity)
  /\ DOMAIN perIp \subseteq Ip /\ perIp \in [DOMAIN perIp -> Bucket(PerIpCapacity)]
  /\ order \in Seq(Ip)
  /\ at \in [Caller -> {"idle", "passed", "granted", "limited"}]

\* The map is bounded, and the queue mentions the addresses in it and no
\* others, each once: the address it names for eviction is always one that is
\* there, and get_or_insert never makes the map larger than it may be.
TrackingExact ==
  /\ TypeOK
  /\ Cardinality(DOMAIN perIp) <= Room
  /\ ToSet(order) = DOMAIN perIp /\ IsInjective(order)
  /\ Len(window) <= WindowLimit

\* What has been taken from a bucket and has not come back.
Used == GlobalCapacity * Token - Available(bucket, GlobalCapacity, GlobalRefill)
UsedBy(ip) == IF ip \notin DOMAIN perIp THEN 0
              ELSE PerIpCapacity * Token - Available(perIp[ip], PerIpCapacity, PerIpRefill)

\* The buckets, which are filled only when they are asked, are the meters that
\* drain all the time: no sequence of grants, refusals and pauses gives a
\* caller more than capacity and refill allow, nor less.
Meter == INSTANCE TokenMeter WITH
  PerIpRoom <- PerIpCapacity * Token, PerIpRate <- PerIpRefill,
  GlobalRoom <- GlobalCapacity * Token, GlobalRate <- GlobalRefill,
  total <- Used, level <- [ip \in Ip |-> UsedBy(ip)], metered <- DOMAIN perIp
ImplementsMeter == Meter!Spec
=============================================================================
