--------------------------- MODULE SynGuardProofs ---------------------------
(***************************************************************************)
(* Proofs about SynGuard for any connections, addresses and limits: that   *)
(* its counts never exceed the truth, that its tables are bounded, and     *)
(* that it is exact while it has not evicted an address.                   *)
(***************************************************************************)
EXTENDS MCSynGuard, FiniteSetTheorems, SequenceTheorems, WellFoundedInduction, TLAPS

-----------------------------------------------------------------------------
(* Induction, and sequences without repetition *)

\* A set of naturals has a least element: what induction over the positions of
\* ip_order rests on.
LEMMA Least ==
  ASSUME NEW T, T \subseteq Nat, T # {}
  PROVE  \E x \in T : \A y \in T : x <= y
<1> DEFINE R == OpToRel(<, Nat)
<1>1. IsWellFoundedOn(R, Nat)
  BY NatLessThanWellFounded
<1>2. \A x, y \in Nat : <<y, x>> \in R <=> y < x
  BY DEF OpToRel
<1> HIDE DEF R
<1>3. PICK x \in T : \A y \in T : <<y, x>> \notin R
  BY <1>1, WFMin
<1>4. ASSUME NEW y \in T PROVE x <= y
  <2>1. x \in Nat /\ y \in Nat /\ ~(y < x)
    BY <1>2, <1>3
  <2> QED
    BY <2>1
<1> QED
  BY <1>4

\* No address is mentioned twice.
Once(q) == \A i, j \in 1 .. Len(q) : q[i] = q[j] => i = j

\* A mention at the end of the queue.
LEMMA AppendMentions ==
  ASSUME NEW S, NEW q \in Seq(S), NEW e \in S
  PROVE  /\ Append(q, e) \in Seq(S) /\ Len(Append(q, e)) = Len(q) + 1
         /\ ToSet(Append(q, e)) = ToSet(q) \cup {e}
         /\ Once(q) /\ e \notin ToSet(q) => Once(Append(q, e))
<1>1. /\ Append(q, e) \in Seq(S) /\ Len(Append(q, e)) = Len(q) + 1
      /\ \A i \in 1 .. Len(q) : Append(q, e)[i] = q[i]
      /\ Append(q, e)[Len(q) + 1] = e
      /\ Len(q) \in Nat
      /\ DOMAIN q = 1 .. Len(q) /\ DOMAIN Append(q, e) = 1 .. Len(q) + 1
  BY AppendProperties, LenProperties
<1>2. ToSet(Append(q, e)) = ToSet(q) \cup {e}
  <2>1. 1 .. Len(q) + 1 = (1 .. Len(q)) \cup {Len(q) + 1}
    BY <1>1
  <2> QED
    BY <1>1, <2>1 DEF ToSet
<1>3. ASSUME Once(q), e \notin ToSet(q) PROVE Once(Append(q, e))
  <2> SUFFICES ASSUME NEW i \in 1 .. Len(q) + 1, NEW j \in 1 .. Len(q) + 1,
                      Append(q, e)[i] = Append(q, e)[j]
               PROVE  i = j
    BY <1>1 DEF Once
  <2>1. \A k \in 1 .. Len(q) : q[k] # e
    BY <1>1, <1>3 DEF ToSet
  <2> QED
    BY <1>1, <1>3, <2>1 DEF Once
<1> QED
  BY <1>1, <1>2, <1>3

\* A sequence without repetition is no longer than what it mentions.
LEMMA OnceIsShort ==
  ASSUME NEW S, NEW q \in Seq(S), Once(q), NEW D, IsFiniteSet(D), ToSet(q) \subseteq D
  PROVE  Len(q) <= Cardinality(D)
<1>1. Len(q) \in Nat /\ DOMAIN q = 1 .. Len(q) /\ q \in [1 .. Len(q) -> S]
  BY LenProperties
<1>2. q \in [1 .. Len(q) -> D]
  BY <1>1 DEF ToSet
<1>3. q \in Injection(1 .. Len(q), D)
  BY <1>2 DEF Once, Injection, IsInjective
<1>4. Cardinality(1 .. Len(q)) <= Cardinality(D)
  BY <1>3, FS_Injection
<1>5. Cardinality(1 .. Len(q)) = Len(q)
  BY <1>1, FS_Interval
<1> QED
  BY <1>4, <1>5

-----------------------------------------------------------------------------
(* The compaction of ip_order *)

\* What the loop makes of the first n addresses, given what it made of fewer.
Keep(s, f, n) ==
  IF n = 0 THEN <<>>
  ELSE IF Tracks(s, s.ipOrder[n]) /\ ~Contains(f[n - 1], s.ipOrder[n])
       THEN Append(f[n - 1], s.ipOrder[n])
       ELSE f[n - 1]

\* The loop runs to its end.
LEMMA KeepExists ==
  ASSUME NEW s, s.ipOrder \in Seq(Ip)
  PROVE  \E f \in [0 .. Len(s.ipOrder) -> Seq(Ip)] :
            \A n \in 0 .. Len(s.ipOrder) : f[n] = Keep(s, f, n)
<1> DEFINE q == s.ipOrder
           Runs(m) == \E f \in [0 .. m -> Seq(Ip)] : \A n \in 0 .. m : f[n] = Keep(s, f, n)
           Bad == {m \in 0 .. Len(q) : ~Runs(m)}
<1>1. Len(q) \in Nat /\ \A n \in 1 .. Len(q) : q[n] \in Ip
  BY LenProperties, ElementOfSeq
<1>2. Runs(0)
  <2>1. [n \in 0 .. 0 |-> <<>>] \in [0 .. 0 -> Seq(Ip)]
    BY EmptySeq
  <2>2. \A n \in 0 .. 0 : [k \in 0 .. 0 |-> <<>>][n] = Keep(s, [k \in 0 .. 0 |-> <<>>], n)
    BY DEF Keep
  <2> QED
    BY <2>1, <2>2
<1>3. ASSUME NEW m \in 0 .. Len(q), m + 1 \in 0 .. Len(q), Runs(m) PROVE Runs(m + 1)
  <2>1. PICK f \in [0 .. m -> Seq(Ip)] : \A n \in 0 .. m : f[n] = Keep(s, f, n)
    BY <1>3
  <2> DEFINE g == [n \in 0 .. m + 1 |-> IF n <= m THEN f[n] ELSE Keep(s, f, m + 1)]
  <2>2. Keep(s, f, m + 1) \in Seq(Ip)
    <3>1. f[m] \in Seq(Ip) /\ q[m + 1] \in Ip /\ m + 1 # 0 /\ (m + 1) - 1 = m
      BY <1>1, <1>3
    <3>2. Append(f[m], q[m + 1]) \in Seq(Ip)
      BY <3>1, AppendProperties
    <3> QED
      BY <3>1, <3>2 DEF Keep
  <2>3. g \in [0 .. m + 1 -> Seq(Ip)]
    BY <2>2
  <2>4. ASSUME NEW n \in 0 .. m + 1 PROVE g[n] = Keep(s, g, n)
    <3>1. n # 0 => g[n - 1] = f[n - 1]
      BY <1>1
    <3>2. Keep(s, g, n) = Keep(s, f, n)
      BY <3>1 DEF Keep
    <3> HIDE DEF Keep
    <3>3. CASE n <= m
      BY <2>1, <3>2, <3>3
    <3>4. CASE n = m + 1
      BY <1>1, <3>2, <3>4
    <3> QED
      BY <3>3, <3>4
  <2> HIDE DEF g
  <2> QED
    BY <2>3, <2>4
<1> HIDE DEF Runs
<1>4. ASSUME Bad # {} PROVE FALSE
  <2>1. Bad \subseteq Nat
    BY <1>1
  <2>2. PICK m \in Bad : \A k \in Bad : m <= k
    BY <1>4, <2>1, Least
  <2>3. m # 0 /\ m \in Nat
    BY <1>1, <1>2
  <2>4. m - 1 \in 0 .. Len(q) /\ m - 1 \notin Bad
    BY <1>1, <2>2, <2>3
  <2>5. Runs((m - 1) + 1)
    BY <1>1, <1>3, <2>3, <2>4
  <2>6. (m - 1) + 1 = m
    BY <2>3
  <2> QED
    BY <2>5, <2>6
<1>5. Runs(Len(q))
  BY <1>1, <1>4
<1> QED
  BY <1>5 DEF Runs

\* ip_order is left with each tracked address it mentions, once.
LEMMA Compaction ==
  ASSUME NEW s, s.ipOrder \in Seq(Ip)
  PROVE  /\ Compacted(s) \in Seq(Ip) /\ Once(Compacted(s))
         /\ ToSet(Compacted(s)) = {ip \in ToSet(s.ipOrder) : Tracks(s, ip)}
<1> DEFINE q == s.ipOrder
           kept == CHOOSE f : f = [n \in 0 .. Len(q) |-> Keep(s, f, n)]
           First(n) == {ip \in Ip : Tracks(s, ip) /\ \E i \in 1 .. n : q[i] = ip}
           Good(n) == /\ kept[n] \in Seq(Ip) /\ Once(kept[n])
                      /\ ToSet(kept[n]) = First(n)
           Bad == {n \in 0 .. Len(q) : ~Good(n)}
<1>1. /\ Len(q) \in Nat /\ DOMAIN q = 1 .. Len(q)
      /\ \A n \in 1 .. Len(q) : q[n] \in Ip
  BY LenProperties, ElementOfSeq
<1>2. \A n \in 0 .. Len(q) : kept[n] = Keep(s, kept, n)
  <2>1. PICK f \in [0 .. Len(q) -> Seq(Ip)] : \A n \in 0 .. Len(q) : f[n] = Keep(s, f, n)
    BY KeepExists
  <2>2. f = [n \in 0 .. Len(q) |-> Keep(s, f, n)]
    BY <2>1
  <2>3. kept = [n \in 0 .. Len(q) |-> Keep(s, kept, n)]
    BY <2>2
  <2> HIDE DEF kept
  <2> QED
    BY <2>3
<1>3. Compacted(s) = kept[Len(q)]
  BY DEF Compacted, Keep
<1> HIDE DEF kept
<1>4. Good(0)
  <2>1. kept[0] = <<>>
    BY <1>1, <1>2 DEF Keep
  <2>2. First(0) = {} /\ ToSet(<<>>) = {} /\ Once(<<>>) /\ <<>> \in Seq(Ip)
    BY EmptySeq DEF ToSet, Once
  <2> QED
    BY <2>1, <2>2
<1>5. ASSUME NEW n \in 1 .. Len(q), Good(n - 1) PROVE Good(n)
  <2>1. n # 0 /\ q[n] \in Ip /\ kept[n] = Keep(s, kept, n) /\ n - 1 \in 0 .. Len(q)
    BY <1>1, <1>2
  <2>2. First(n) = First(n - 1) \cup (IF Tracks(s, q[n]) THEN {q[n]} ELSE {})
    <3>1. 1 .. n = (1 .. n - 1) \cup {n}
      BY <1>1
    <3> QED
      BY <2>1, <3>1
  <2>3. Contains(kept[n - 1], q[n]) <=> q[n] \in ToSet(kept[n - 1])
    BY <1>5, LenProperties DEF Contains, ToSet
  <2>4. /\ Append(kept[n - 1], q[n]) \in Seq(Ip)
        /\ ToSet(Append(kept[n - 1], q[n])) = ToSet(kept[n - 1]) \cup {q[n]}
        /\ q[n] \notin ToSet(kept[n - 1]) => Once(Append(kept[n - 1], q[n]))
    BY <1>5, <2>1, AppendMentions
  <2> HIDE DEF First
  <2>5. CASE Tracks(s, q[n]) /\ q[n] \notin ToSet(kept[n - 1])
    <3>1. kept[n] = Append(kept[n - 1], q[n])
      BY <2>1, <2>3, <2>5 DEF Keep
    <3> QED
      BY <1>5, <2>2, <2>4, <2>5, <3>1
  <2>6. CASE ~(Tracks(s, q[n]) /\ q[n] \notin ToSet(kept[n - 1]))
    <3>1. kept[n] = kept[n - 1]
      BY <2>1, <2>3, <2>6 DEF Keep
    <3> QED
      BY <1>5, <2>2, <2>6, <3>1
  <2> QED
    BY <2>5, <2>6
<1> HIDE DEF Good
<1>6. ASSUME Bad # {} PROVE FALSE
  <2>1. Bad \subseteq Nat
    BY <1>1
  <2>2. PICK n \in Bad : \A k \in Bad : n <= k
    BY <1>6, <2>1, Least
  <2>3. n \in 1 .. Len(q) /\ n - 1 \in 0 .. Len(q) /\ n - 1 \notin Bad
    BY <1>1, <1>4, <2>2
  <2> QED
    BY <1>5, <2>2, <2>3
<1>7. Good(Len(q))
  BY <1>1, <1>6
<1>8. First(Len(q)) = {ip \in ToSet(q) : Tracks(s, ip)}
  BY <1>1 DEF ToSet
<1> QED
  BY <1>3, <1>7, <1>8 DEF Good

-----------------------------------------------------------------------------
(* The methods of SynGuard *)

\* What every method may rely on: TypeOK of the state behind the mutex, that
\* the map is finite, and that each tracked address is in the queue.
State(s) ==
  /\ DOMAIN s = {"total", "perIp", "ipOrder", "startedAt", "established"}
  /\ s.total \in Nat
  /\ DOMAIN s.perIp \subseteq Ip /\ IsFiniteSet(DOMAIN s.perIp)
  /\ s.perIp \in [DOMAIN s.perIp -> Nat \ {0}]
  /\ s.ipOrder \in Seq(Ip)
  /\ s.startedAt \in [DOMAIN s.perIp -> {"recent", "expired"}]
  /\ s.established \subseteq Range(AddrOf)
  /\ DOMAIN s.perIp \subseteq ToSet(s.ipOrder)

MapLimit == IF MaxTracked = 0 THEN 1 ELSE MaxTracked

\* The methods change neither the counts nor the clocks.
SameCounts(s, t) ==
  t.total = s.total /\ t.perIp = s.perIp /\ t.startedAt = s.startedAt
    /\ t.established = s.established

\* A queue of tracked addresses only is below the threshold.
LEMMA ThresholdSuffices == OrderThreshold \in Nat /\ MapLimit \in Nat /\ MapLimit <= OrderThreshold
<1>1. MaxTracked \in Nat /\ OrderFactor \in Nat \ {0} /\ OrderFloor \in Nat \ {0}
  BY SynLimitAssumption
<1>2. OrderFactor * MaxTracked \in Nat /\ MaxTracked <= OrderFactor * MaxTracked
  BY <1>1
<1> QED
  BY <1>1, <1>2 DEF OrderThreshold, MapLimit

\* maybe_compact changes no count and keeps every tracked address mentioned.
LEMMA MaybeCompactKeeps ==
  ASSUME NEW s, State(s)
  PROVE  /\ State(MaybeCompact(s)) /\ SameCounts(s, MaybeCompact(s))
         /\ Cardinality(DOMAIN s.perIp) <= MapLimit => Len(MaybeCompact(s).ipOrder) <= OrderThreshold
<1>1. s.ipOrder \in Seq(Ip) /\ Len(s.ipOrder) \in Nat /\ OrderThreshold \in Nat
  BY ThresholdSuffices, LenProperties DEF State
<1>2. CASE Len(s.ipOrder) <= OrderThreshold
  BY <1>1, <1>2 DEF MaybeCompact, SameCounts
<1>3. CASE ~(Len(s.ipOrder) <= OrderThreshold)
  <2>1. MaybeCompact(s) = [s EXCEPT !.ipOrder = Compacted(s)]
    BY <1>3 DEF MaybeCompact
  <2>2. /\ Compacted(s) \in Seq(Ip) /\ Once(Compacted(s))
        /\ ToSet(Compacted(s)) = DOMAIN s.perIp
    BY <1>1, Compaction DEF State, Tracks
  <2>3. Len(Compacted(s)) <= Cardinality(DOMAIN s.perIp)
    BY <2>2, OnceIsShort DEF State
  <2>4. Len(Compacted(s)) \in Nat /\ Cardinality(DOMAIN s.perIp) \in Nat
    BY <2>2, LenProperties, FS_CardinalityType DEF State
  <2>5. /\ SameCounts(s, MaybeCompact(s)) /\ DOMAIN MaybeCompact(s) = DOMAIN s
        /\ MaybeCompact(s).ipOrder = Compacted(s)
    BY <2>1 DEF SameCounts, State
  <2>6. State(MaybeCompact(s))
    BY <2>2, <2>5 DEF State, SameCounts
  <2> QED
    BY <2>3, <2>4, <2>5, <2>6, ThresholdSuffices
<1> QED
  BY <1>2, <1>3

\* saturating_sub stays a natural number.
LEMMA SubtractionType ==
  \A m, n \in Nat : /\ SaturatingSub(m, n) \in Nat /\ SaturatingSub(m, n) <= m
                    /\ n <= m => SaturatingSub(m, n) = m - n
                    /\ \A k \in Nat : m <= k /\ n <= k => SaturatingSub(m, n) <= k - n
BY DEF SaturatingSub

\* What is removed from a map is not in it.
LEMMA WithoutDomain == \A f, ip : DOMAIN Without(f, ip) = DOMAIN f \ {ip}
BY DEF Without, Restrict

\* t is s without the address old and its half-open connections.
Forgotten(s, t, old) ==
  /\ t.total = SaturatingSub(s.total, s.perIp[old])
  /\ t.perIp = Without(s.perIp, old) /\ t.startedAt = Without(s.startedAt, old)
  /\ t.established = s.established

\* As every tracked address is in the queue, eviction finds a victim whenever an
\* address is tracked; and what it pops on the way is not tracked.
LEMMA EvictOldestKeeps ==
  ASSUME NEW s, State(s)
  PROVE  /\ State(EvictOldest(s)) /\ Len(EvictOldest(s).ipOrder) <= Len(s.ipOrder)
         /\ DOMAIN s.perIp = {} => SameCounts(s, EvictOldest(s))
         /\ DOMAIN s.perIp # {} => \E old \in DOMAIN s.perIp : Forgotten(s, EvictOldest(s), old)
<1> DEFINE q == s.ipOrder
           hits == {i \in DOMAIN q : Tracks(s, q[i])}
           k == CHOOSE i \in hits : \A j \in hits : i <= j
<1>1. q \in Seq(Ip) /\ Len(q) \in Nat /\ DOMAIN q = 1 .. Len(q) /\ \A i \in 1 .. Len(q) : q[i] \in Ip
  BY LenProperties, ElementOfSeq DEF State
<1>2. hits = {} <=> DOMAIN s.perIp = {}
  BY DEF State, ToSet, Tracks
<1>3. CASE hits = {}
  <2>1. EvictOldest(s) = [s EXCEPT !.ipOrder = <<>>]
    BY <1>3 DEF EvictOldest
  <2>2. <<>> \in Seq(Ip) /\ Len(<<>>) = 0
    BY EmptySeq
  <2>3. /\ SameCounts(s, EvictOldest(s)) /\ DOMAIN EvictOldest(s) = DOMAIN s
        /\ EvictOldest(s).ipOrder = <<>>
    BY <2>1 DEF State, SameCounts
  <2>4. State(EvictOldest(s))
    BY <1>2, <1>3, <2>2, <2>3 DEF State, SameCounts
  <2> QED
    BY <1>1, <1>2, <1>3, <2>2, <2>3, <2>4
<1>4. CASE hits # {}
  <2>1. hits \subseteq Nat
    BY <1>1
  <2>2. k \in hits /\ \A j \in hits : k <= j
    BY <1>4, <2>1, Least
  <2> HIDE DEF k
  <2> DEFINE old == q[k]
             rest == SubSeq(q, k + 1, Len(q))
             e == EvictOldest(s)
  <2>3. k \in 1 .. Len(q) /\ old \in DOMAIN s.perIp
    BY <1>1, <2>2 DEF Tracks
  <2>4. e = [s EXCEPT !.ipOrder   = rest,
                      !.total     = SaturatingSub(s.total, s.perIp[old]),
                      !.perIp     = Without(s.perIp, old),
                      !.startedAt = Without(s.startedAt, old)]
    BY <1>4 DEF EvictOldest, k, State
  <2>5. /\ DOMAIN e = DOMAIN s /\ e.ipOrder = rest /\ Forgotten(s, e, old)
    BY <2>4 DEF State, Forgotten
  <2> HIDE DEF e
  <2>6. /\ rest \in Seq(Ip) /\ Len(rest) = Len(q) - k
        /\ \A i \in 1 .. Len(q) - k : rest[i] = q[k + i]
    <3>1. k + 1 \in Int /\ Len(q) \in Int /\ \A i \in k + 1 .. Len(q) : q[i] \in Ip
      BY <1>1, <2>3
    <3>2. /\ rest \in Seq(Ip)
          /\ Len(rest) = IF k + 1 <= Len(q) THEN Len(q) - (k + 1) + 1 ELSE 0
          /\ \A i \in 1 .. Len(q) - (k + 1) + 1 : rest[i] = q[k + 1 + i - 1]
      BY <3>1, SubSeqProperties
    <3>3. Len(q) - (k + 1) + 1 = Len(q) - k /\ (k + 1 <= Len(q) \/ Len(q) - k = 0)
      BY <1>1, <2>3
    <3>4. \A i \in 1 .. Len(q) - k : k + 1 + i - 1 = k + i
      BY <1>1, <2>3
    <3> HIDE DEF rest, q
    <3>5. Len(rest) = Len(q) - k
      BY <3>2, <3>3
    <3> QED
      BY <3>2, <3>3, <3>4, <3>5
  <2> HIDE DEF rest
  <2>7. DOMAIN s.perIp \ {old} \subseteq ToSet(rest)
    <3> SUFFICES ASSUME NEW ip \in DOMAIN s.perIp, ip # old PROVE ip \in ToSet(rest)
      OBVIOUS
    <3>1. PICK j \in 1 .. Len(q) : q[j] = ip
      BY <1>1 DEF State, ToSet
    <3>2. j \in hits /\ k < j
      BY <1>1, <2>2, <2>3, <3>1 DEF Tracks
    <3>3. j - k \in 1 .. Len(q) - k /\ rest[j - k] = ip
      BY <1>1, <2>3, <2>6, <3>1, <3>2
    <3> QED
      BY <2>6, <3>3, LenProperties DEF ToSet
  <2>8. State(e)
    <3> HIDE DEF old
    <3> DEFINE D == DOMAIN s.perIp
    <3>1. s.perIp[old] \in Nat /\ e.total \in Nat
      BY <2>3, <2>5, SubtractionType DEF State, Forgotten
    <3>2. s.perIp \in [D -> Nat \ {0}] /\ s.startedAt \in [D -> {"recent", "expired"}]
      BY DEF State
    <3>3. IsFiniteSet(D \ {old})
      BY FS_RemoveElement DEF State
    <3> HIDE DEF D
    <3>4. DOMAIN e.perIp = D \ {old} /\ e.perIp \in [D \ {old} -> Nat \ {0}]
      BY <2>5, <3>2 DEF Forgotten, Without, Restrict
    <3>5. e.startedAt \in [D \ {old} -> {"recent", "expired"}]
      BY <2>5, <3>2 DEF Forgotten, Without, Restrict
    <3>6. e.perIp \in [DOMAIN e.perIp -> Nat \ {0}] /\ e.startedAt \in [DOMAIN e.perIp -> {"recent", "expired"}]
      BY <3>4, <3>5
    <3>7. DOMAIN e.perIp \subseteq D /\ IsFiniteSet(DOMAIN e.perIp) /\ DOMAIN e.perIp \subseteq ToSet(rest)
      BY <2>7, <3>3, <3>4 DEF D
    <3> QED
      BY <2>5, <2>6, <3>1, <3>6, <3>7 DEF State, Forgotten, D
  <2> QED
    BY <1>1, <1>2, <1>4, <2>3, <2>5, <2>6, <2>8 DEF e
<1> QED
  BY <1>3, <1>4

Bounded(s) == Cardinality(DOMAIN s.perIp) <= MapLimit /\ Len(s.ipOrder) <= OrderThreshold

\* What making room for ip may do: nothing, or forget another address when ip
\* is not tracked yet.
Room(s, t, ip) ==
  \/ SameCounts(s, t)
  \/ ~Tracks(s, ip) /\ \E old \in DOMAIN s.perIp : Forgotten(s, t, old)

\* reserve counts ip once more and leaves the tables within their bounds.
LEMMA ReservedKeeps ==
  ASSUME NEW s, State(s), NEW ip \in Ip
  PROVE  /\ State(Reserved(s, ip))
         /\ Bounded(s) => Bounded(Reserved(s, ip))
         /\ Reserved(s, ip).established = s.established
         /\ \E room : /\ State(room) /\ Room(s, room, ip)
                      /\ Reserved(s, ip).total = room.total + 1
                      /\ Reserved(s, ip).perIp = With(room.perIp, ip, Count(s, ip) + 1)
<1> DEFINE isNew == ~Tracks(s, ip)
           evicts == isNew /\ Cardinality(DOMAIN s.perIp) >= MaxTracked
           room  == IF evicts THEN EvictOldest(s) ELSE s
           start == IF ip \in DOMAIN room.startedAt THEN room.startedAt[ip] ELSE "recent"
           pre   == [room EXCEPT !.total     = room.total + 1,
                                 !.ipOrder   = IF isNew THEN Append(room.ipOrder, ip) ELSE room.ipOrder,
                                 !.perIp     = With(room.perIp, ip, Count(s, ip) + 1),
                                 !.startedAt = With(room.startedAt, ip, start)]
           D     == DOMAIN room.perIp
<1>1. State(room) /\ Room(s, room, ip) /\ (~evicts => room = s)
  BY EvictOldestKeeps DEF Room, SameCounts
<1>2. room.established = s.established
  BY <1>1 DEF Room, SameCounts, Forgotten
<1>3. Reserved(s, ip) = MaybeCompact(pre)
  BY <1>1 DEF Reserved, State
<1> HIDE DEF evicts, room
<1>4. ip \in D => ~isNew
  <2>1. CASE SameCounts(s, room)
    BY <2>1 DEF SameCounts, Tracks
  <2>2. CASE \E old \in DOMAIN s.perIp : Forgotten(s, room, old)
    <3>1. PICK old \in DOMAIN s.perIp : room.perIp = Without(s.perIp, old)
      BY <2>2 DEF Forgotten
    <3>2. D = DOMAIN s.perIp \ {old}
      BY <3>1, WithoutDomain
    <3> QED
      BY <3>2 DEF Tracks
  <2> QED
    BY <1>1, <2>1, <2>2 DEF Room
<1>5. /\ DOMAIN pre = DOMAIN room /\ pre.total = room.total + 1
      /\ pre.ipOrder = IF isNew THEN Append(room.ipOrder, ip) ELSE room.ipOrder
      /\ pre.perIp = With(room.perIp, ip, Count(s, ip) + 1)
      /\ pre.startedAt = With(room.startedAt, ip, start)
      /\ pre.established = s.established
  BY <1>1, <1>2 DEF State
<1>6. Count(s, ip) + 1 \in Nat \ {0}
  BY DEF Count, Tracks, State
<1>7. start \in {"recent", "expired"}
  BY <1>1 DEF State
<1> HIDE DEF pre, start
<1>8. State(pre)
  <2>1. /\ DOMAIN pre.perIp = D \cup {ip}
        /\ pre.perIp \in [D \cup {ip} -> Nat \ {0}]
    BY <1>1, <1>5, <1>6 DEF State, With
  <2>2. pre.startedAt \in [D \cup {ip} -> {"recent", "expired"}]
    BY <1>1, <1>5, <1>7 DEF State, With
  <2>3. IsFiniteSet(D \cup {ip})
    BY <1>1, FS_AddElement DEF State
  <2>4. pre.ipOrder \in Seq(Ip) /\ D \cup {ip} \subseteq ToSet(pre.ipOrder)
    <3>1. room.ipOrder \in Seq(Ip) /\ D \subseteq ToSet(room.ipOrder)
      BY <1>1 DEF State
    <3>2. /\ Append(room.ipOrder, ip) \in Seq(Ip)
          /\ ToSet(Append(room.ipOrder, ip)) = ToSet(room.ipOrder) \cup {ip}
      BY <3>1, AppendMentions
    <3>3. ~isNew => ip \in ToSet(room.ipOrder)
      BY <1>1 DEF State, Tracks, evicts
    <3> QED
      BY <1>5, <3>1, <3>2, <3>3
  <2>5. D \cup {ip} \subseteq Ip /\ pre.total \in Nat /\ s.established \subseteq Range(AddrOf)
    BY <1>1, <1>5 DEF State
  <2>6. DOMAIN pre = {"total", "perIp", "ipOrder", "startedAt", "established"}
    BY <1>1, <1>5 DEF State
  <2> HIDE DEF D
  <2> QED
    BY <1>5, <2>1, <2>2, <2>3, <2>4, <2>5, <2>6 DEF State
<1>9. ASSUME Bounded(s) PROVE Cardinality(DOMAIN pre.perIp) <= MapLimit
  <2>1. /\ MaxTracked \in Nat /\ MapLimit \in Nat /\ MaxTracked <= MapLimit /\ 1 <= MapLimit
        /\ IsFiniteSet(DOMAIN s.perIp) /\ Cardinality(DOMAIN s.perIp) \in Nat
        /\ Cardinality(DOMAIN s.perIp) <= MapLimit
    BY <1>9, SynLimitAssumption, FS_CardinalityType DEF MapLimit, State, Bounded
  <2>2. DOMAIN pre.perIp = D \cup {ip}
    BY <1>5 DEF With
  <2>3. CASE ~isNew
    <3>1. D \cup {ip} = DOMAIN s.perIp
      BY <1>1, <2>3 DEF Tracks, evicts
    <3> QED
      BY <2>1, <2>2, <3>1
  <2>4. CASE isNew /\ ~evicts
    <3>1. Cardinality(D \cup {ip}) = Cardinality(DOMAIN s.perIp) + 1
      BY <1>1, <2>1, <2>4, FS_AddElement DEF Tracks
    <3> QED
      BY <2>1, <2>2, <2>4, <3>1 DEF evicts
  <2>5. CASE evicts /\ DOMAIN s.perIp = {}
    <3>1. D \cup {ip} = {ip}
      BY <2>5, EvictOldestKeeps DEF room, SameCounts
    <3> QED
      BY <2>1, <2>2, <3>1, FS_Singleton
  <2>6. CASE evicts /\ DOMAIN s.perIp # {}
    <3>1. PICK old \in DOMAIN s.perIp : D = DOMAIN s.perIp \ {old}
      BY <2>6, EvictOldestKeeps DEF room, Forgotten, Without, Restrict
    <3>2. IsFiniteSet(D) /\ Cardinality(D) = Cardinality(DOMAIN s.perIp) - 1
      BY <2>1, <3>1, FS_RemoveElement
    <3>3. Cardinality(D \cup {ip}) = Cardinality(D) + 1
      BY <1>4, <2>6, <3>2, FS_AddElement DEF evicts
    <3> QED
      BY <2>1, <2>2, <3>2, <3>3
  <2> QED
    BY <2>3, <2>4, <2>5, <2>6 DEF evicts
<1>10. State(Reserved(s, ip)) /\ SameCounts(pre, Reserved(s, ip))
  BY <1>3, <1>8, MaybeCompactKeeps
<1>11. Bounded(s) => Bounded(Reserved(s, ip))
  BY <1>3, <1>8, <1>9, MaybeCompactKeeps DEF Bounded, SameCounts
<1>12. /\ Reserved(s, ip).established = s.established
       /\ Reserved(s, ip).total = room.total + 1
       /\ Reserved(s, ip).perIp = With(room.perIp, ip, Count(s, ip) + 1)
  BY <1>5, <1>10 DEF SameCounts
<1> QED
  BY <1>1, <1>10, <1>11, <1>12

\* What reserve does to the counts: it adds one to that of ip, and lowers others
\* only by forgetting an address.
LEMMA ReservedCounts ==
  ASSUME NEW s, State(s), NEW ip \in Ip
  PROVE  /\ Count(Reserved(s, ip), ip) = Count(s, ip) + 1
         /\ Reserved(s, ip).total <= s.total + 1
         /\ \A x \in Ip \ {ip} : Count(Reserved(s, ip), x) <= Count(s, x)
         /\ DOMAIN s.perIp \subseteq DOMAIN Reserved(s, ip).perIp =>
              /\ Reserved(s, ip).total = s.total + 1
              /\ \A x \in Ip \ {ip} : Count(Reserved(s, ip), x) = Count(s, x)
<1> DEFINE r == Reserved(s, ip)
<1>1. PICK room : /\ State(room) /\ Room(s, room, ip)
                  /\ r.total = room.total + 1
                  /\ r.perIp = With(room.perIp, ip, Count(s, ip) + 1)
  BY ReservedKeeps
<1> HIDE DEF r
<1>2. /\ DOMAIN r.perIp = DOMAIN room.perIp \cup {ip}
      /\ r.perIp[ip] = Count(s, ip) + 1
      /\ \A x \in DOMAIN room.perIp \ {ip} : r.perIp[x] = room.perIp[x]
  BY <1>1 DEF With
<1>3. Count(r, ip) = Count(s, ip) + 1 /\ \A x \in Ip \ {ip} : Count(r, x) = Count(room, x)
  BY <1>2 DEF Count, Tracks
<1>4. s.total \in Nat /\ room.total \in Nat /\ \A x \in Ip : Count(s, x) \in Nat
  BY <1>1 DEF State, Count, Tracks
<1>5. CASE SameCounts(s, room)
  <2>1. room.total = s.total /\ \A x \in Ip : Count(room, x) = Count(s, x)
    BY <1>5 DEF SameCounts, Count, Tracks
  <2> QED
    BY <1>1, <1>3, <1>4, <2>1 DEF r
<1>6. ASSUME ~Tracks(s, ip), NEW old \in DOMAIN s.perIp, Forgotten(s, room, old)
      PROVE  /\ r.total <= s.total + 1 /\ ~(DOMAIN s.perIp \subseteq DOMAIN r.perIp)
             /\ \A x \in Ip \ {ip} : Count(r, x) <= Count(s, x)
  <2>1. s.perIp[old] \in Nat /\ room.total <= s.total
    BY <1>4, <1>6, SubtractionType DEF State, Forgotten
  <2>2. /\ DOMAIN room.perIp = DOMAIN s.perIp \ {old}
        /\ \A x \in DOMAIN room.perIp : room.perIp[x] = s.perIp[x]
    BY <1>6 DEF Forgotten, Without, Restrict
  <2>3. old \notin DOMAIN r.perIp
    BY <1>2, <1>6, <2>2 DEF Tracks
  <2>4. ASSUME NEW x \in Ip PROVE Count(room, x) <= Count(s, x)
    BY <1>4, <2>2 DEF Count, Tracks
  <2> QED
    BY <1>1, <1>3, <1>4, <2>1, <2>3, <2>4
<1> QED
  BY <1>1, <1>3, <1>5, <1>6 DEF Room, r

\* Establishing or closing a half-open connection takes it out of the counts
\* once, if it is in them at all.
LEMMA OneFewerCounts ==
  ASSUME NEW s, State(s), NEW ip \in Ip
  PROVE  /\ State(OneFewer(s, ip))
         /\ Bounded(s) => Bounded(OneFewer(s, ip))
         /\ OneFewer(s, ip).established = s.established
         /\ OneFewer(s, ip).total = SaturatingSub(s.total, 1)
         /\ \A x \in Ip : Count(OneFewer(s, ip), x) =
              IF x = ip THEN SaturatingSub(Count(s, x), 1) ELSE Count(s, x)
         /\ DOMAIN OneFewer(s, ip).perIp \subseteq DOMAIN s.perIp
<1> DEFINE less == [s EXCEPT !.total = SaturatingSub(s.total, 1)]
<1>1. /\ DOMAIN less = DOMAIN s /\ less.total = SaturatingSub(s.total, 1)
      /\ less.perIp = s.perIp /\ less.ipOrder = s.ipOrder /\ less.startedAt = s.startedAt
      /\ less.established = s.established
  BY DEF State
<1>2. SaturatingSub(s.total, 1) \in Nat /\ \A x \in Ip : Count(s, x) \in Nat
  BY SubtractionType DEF State, Count, Tracks
<1> HIDE DEF less
<1>3. State(less)
  BY <1>1, <1>2 DEF State
<1>4. CASE ~Tracks(s, ip)
  <2>1. OneFewer(s, ip) = less
    BY <1>4 DEF OneFewer, less, State
  <2>2. \A x \in Ip : Count(less, x) = Count(s, x)
    BY <1>1 DEF Count, Tracks
  <2>3. Count(s, ip) = 0 /\ SaturatingSub(0, 1) = 0
    BY <1>4 DEF Count, SaturatingSub
  <2> QED
    BY <1>1, <1>3, <2>1, <2>2, <2>3 DEF Bounded
<1>5. CASE Tracks(s, ip) /\ s.perIp[ip] > 1
  <2> DEFINE r == [less EXCEPT !.perIp = [s.perIp EXCEPT ![ip] = s.perIp[ip] - 1]]
  <2>1. OneFewer(s, ip) = r
    BY <1>1, <1>5 DEF OneFewer, less, State, Tracks
  <2>2. /\ DOMAIN r = DOMAIN s /\ r.total = SaturatingSub(s.total, 1)
        /\ r.perIp = [s.perIp EXCEPT ![ip] = s.perIp[ip] - 1]
        /\ r.ipOrder = s.ipOrder /\ r.startedAt = s.startedAt /\ r.established = s.established
    BY <1>1, <1>3 DEF State
  <2> HIDE DEF r
  <2>3. s.perIp[ip] - 1 \in Nat \ {0} /\ ip \in DOMAIN s.perIp
    BY <1>5 DEF State, Tracks
  <2>4. DOMAIN r.perIp = DOMAIN s.perIp /\ r.perIp \in [DOMAIN s.perIp -> Nat \ {0}]
    BY <2>2, <2>3 DEF State
  <2>5. State(r)
    BY <1>2, <2>2, <2>4 DEF State
  <2>6. ASSUME NEW x \in Ip
        PROVE  Count(r, x) = IF x = ip THEN SaturatingSub(Count(s, x), 1) ELSE Count(s, x)
    BY <1>5, <2>2, <2>3, <2>4 DEF Count, Tracks, SaturatingSub, State
  <2> QED
    BY <2>1, <2>2, <2>4, <2>5, <2>6 DEF Bounded
<1>6. CASE Tracks(s, ip) /\ ~(s.perIp[ip] > 1)
  <2> DEFINE r == [less EXCEPT !.perIp     = Without(s.perIp, ip),
                               !.startedAt = Without(s.startedAt, ip)]
  <2>1. OneFewer(s, ip) = MaybeCompact(r)
    BY <1>1, <1>6 DEF OneFewer, less, State
  <2>2. /\ DOMAIN r = DOMAIN s /\ r.total = SaturatingSub(s.total, 1)
        /\ r.perIp = Without(s.perIp, ip) /\ r.startedAt = Without(s.startedAt, ip)
        /\ r.ipOrder = s.ipOrder /\ r.established = s.established
    BY <1>1, <1>3 DEF State
  <2> HIDE DEF r
  <2> DEFINE D == DOMAIN s.perIp
  <2>3. /\ DOMAIN r.perIp = D \ {ip} /\ r.perIp \in [D \ {ip} -> Nat \ {0}]
        /\ r.startedAt \in [D \ {ip} -> {"recent", "expired"}]
        /\ \A x \in D \ {ip} : r.perIp[x] = s.perIp[x]
    BY <2>2 DEF State, Without, Restrict
  <2>4. IsFiniteSet(D \ {ip}) /\ Cardinality(D \ {ip}) <= Cardinality(D)
    BY FS_RemoveElement, FS_Subset DEF State
  <2>5. State(r)
    BY <1>2, <2>2, <2>3, <2>4 DEF State
  <2>6. State(MaybeCompact(r)) /\ SameCounts(r, MaybeCompact(r))
    BY <2>5, MaybeCompactKeeps
  <2>7. Bounded(s) => Bounded(MaybeCompact(r))
    <3>1. Cardinality(D) \in Nat /\ Cardinality(D \ {ip}) \in Nat /\ MapLimit \in Nat
      BY <2>4, FS_CardinalityType, ThresholdSuffices DEF State
    <3>2. Bounded(s) => Cardinality(D \ {ip}) <= MapLimit
      BY <2>4, <3>1 DEF Bounded
    <3>3. Bounded(s) => Len(MaybeCompact(r).ipOrder) <= OrderThreshold
      BY <2>3, <2>5, <3>2, MaybeCompactKeeps
    <3> QED
      BY <2>3, <2>6, <3>2, <3>3 DEF Bounded, SameCounts
  <2>8. ASSUME NEW x \in Ip
        PROVE  Count(r, x) = IF x = ip THEN SaturatingSub(Count(s, x), 1) ELSE Count(s, x)
    <3>1. s.perIp[ip] = 1
      BY <1>6 DEF State, Tracks
    <3> QED
      BY <1>6, <2>3, <3>1 DEF Count, Tracks, SaturatingSub
  <2>9. \A x \in Ip : Count(MaybeCompact(r), x) = Count(r, x)
    BY <2>6 DEF SameCounts, Count, Tracks
  <2> QED
    BY <2>1, <2>2, <2>3, <2>6, <2>7, <2>8, <2>9 DEF SameCounts
<1> QED
  BY <1>4, <1>5, <1>6

-----------------------------------------------------------------------------
(* The connections that are really half-open *)

\* The sets of connections that are counted are finite.
LEMMA HalfOpenFinite ==
  /\ IsFiniteSet(HalfOpen) /\ Cardinality(HalfOpen) \in Nat
  /\ \A ip : IsFiniteSet(HalfOpenOf(ip)) /\ Cardinality(HalfOpenOf(ip)) \in Nat
<1>1. HalfOpen \subseteq Conn /\ IsFiniteSet(Conn) /\ \A ip : HalfOpenOf(ip) \subseteq Conn
  BY SynConnAssumption DEF HalfOpen, HalfOpenOf, In
<1> QED
  BY <1>1, FS_Subset, FS_CardinalityType

\* What they are and how many when c changes its phase.
LEMMA HalfOpenChanges ==
  ASSUME phase \in [Conn -> Phases], NEW c \in Conn, NEW p \in Phases, Goto(c, p)
  PROVE  /\ phase' \in [Conn -> Phases]
         /\ (phase[c] = "halfOpen") = (p = "halfOpen") =>
              HalfOpen' = HalfOpen /\ \A ip : HalfOpenOf(ip)' = HalfOpenOf(ip)
         /\ phase[c] # "halfOpen" /\ p = "halfOpen" =>
              /\ Cardinality(HalfOpen') = Cardinality(HalfOpen) + 1
              /\ \A ip : Cardinality(HalfOpenOf(ip)') =
                   IF ip = IpOf[c] THEN Cardinality(HalfOpenOf(ip)) + 1 ELSE Cardinality(HalfOpenOf(ip))
         /\ phase[c] = "halfOpen" /\ p # "halfOpen" =>
              /\ Cardinality(HalfOpen') = Cardinality(HalfOpen) - 1
              /\ \A ip : Cardinality(HalfOpenOf(ip)') =
                   IF ip = IpOf[c] THEN Cardinality(HalfOpenOf(ip)) - 1 ELSE Cardinality(HalfOpenOf(ip))
<1>1. /\ phase' \in [Conn -> Phases] /\ phase'[c] = p
      /\ \A d \in Conn \ {c} : phase'[d] = phase[d]
  BY DEF Goto
<1>2. /\ (phase[c] = "halfOpen") = (p = "halfOpen") =>
           HalfOpen' = HalfOpen /\ \A ip : HalfOpenOf(ip)' = HalfOpenOf(ip)
      /\ p = "halfOpen" =>
           /\ HalfOpen' = HalfOpen \cup {c}
           /\ \A ip : HalfOpenOf(ip)' = IF ip = IpOf[c] THEN HalfOpenOf(ip) \cup {c} ELSE HalfOpenOf(ip)
      /\ p # "halfOpen" =>
           /\ HalfOpen' = HalfOpen \ {c}
           /\ \A ip : HalfOpenOf(ip)' = IF ip = IpOf[c] THEN HalfOpenOf(ip) \ {c} ELSE HalfOpenOf(ip)
      /\ c \in HalfOpen <=> phase[c] = "halfOpen"
      /\ c \in HalfOpenOf(IpOf[c]) <=> phase[c] = "halfOpen"
  BY <1>1 DEF HalfOpen, HalfOpenOf, In
<1>3. \A S : IsFiniteSet(S) =>
        /\ c \notin S => Cardinality(S \cup {c}) = Cardinality(S) + 1
        /\ c \in S => Cardinality(S \ {c}) = Cardinality(S) - 1
  BY FS_AddElement, FS_RemoveElement
<1> QED
  BY <1>1, <1>2, <1>3, HalfOpenFinite

-----------------------------------------------------------------------------
(* The invariant *)

\* The parts need each other: only a bounded table with every address in the
\* queue has a victim to evict; and on_close takes a connection out of the
\* counts once only because `established' knows exactly the others.
IInv == State(st) /\ Bounded(st) /\ phase \in [Conn -> Phases] /\ CountsFaithful

\* The counts are lower bounds, as a statement about every address.
LowerBounds ==
  /\ st.total <= Cardinality(HalfOpen)
  /\ \A ip \in Ip : Count(st, ip) <= Cardinality(HalfOpenOf(ip))

\* The invariant over tracked addresses, as one over all.
LEMMA NeverOverCountsIff == State(st) => (NeverOverCounts <=> (DistinctAddrs => LowerBounds))
<1> SUFFICES ASSUME State(st)
             PROVE (\A ip \in DOMAIN st.perIp : st.perIp[ip] <= Cardinality(HalfOpenOf(ip)))
                     <=> \A ip \in Ip : Count(st, ip) <= Cardinality(HalfOpenOf(ip))
  BY DEF NeverOverCounts, LowerBounds
<1>1. \A ip : 0 <= Cardinality(HalfOpenOf(ip))
  BY HalfOpenFinite
<1> QED
  BY <1>1 DEF Count, Tracks, State

\* At the start nothing is tracked or counted.
LEMMA InitIInv == Init => IInv
<1> SUFFICES ASSUME Init PROVE IInv
  OBVIOUS
<1>1. DOMAIN st.perIp = {} /\ IsFiniteSet({}) /\ Cardinality({}) = 0 /\ <<>> \in Seq(Ip) /\ Len(<<>>) = 0
  BY FS_EmptySet, EmptySeq DEF Init
<1>2. State(st)
  BY <1>1 DEF Init, State
<1>3. Bounded(st)
  BY <1>1, ThresholdSuffices DEF Init, Bounded
<1>4. NeverOverCounts /\ EstablishedExact /\ phase \in [Conn -> Phases]
  BY HalfOpenFinite DEF Init, NeverOverCounts, EstablishedExact, Established, In, Phases
<1> QED
  BY <1>2, <1>3, <1>4 DEF IInv, CountsFaithful

\* The address of a connection is an address.
LEMMA IpType == \A c \in Conn : IpOf[c] \in Ip
BY SynConnAssumption

-----------------------------------------------------------------------------
(* The hooks *)

\* Steps between phases that are not half-open, with the counts as they are.
LEMMA CountsUnmoved ==
  ASSUME phase \in [Conn -> Phases], NEW c \in Conn, NEW p \in Phases, Goto(c, p),
         (phase[c] = "halfOpen") = (p = "halfOpen"),
         st'.total = st.total, st'.perIp = st.perIp
  PROVE  (LowerBounds => LowerBounds') /\ (Exact => Exact')
<1>1. HalfOpen' = HalfOpen /\ \A ip : HalfOpenOf(ip)' = HalfOpenOf(ip)
  BY HalfOpenChanges
<1>2. \A ip : Count(st, ip)' = Count(st, ip)
  BY DEF Count, Tracks
<1> QED
  BY <1>1, <1>2 DEF LowerBounds, Exact

\* A half-open connection settles or ends and is uncounted.
LEMMA CountsFall ==
  ASSUME State(st), phase \in [Conn -> Phases],
         NEW c \in Conn, NEW p \in Phases, Goto(c, p), phase[c] = "halfOpen", p # "halfOpen",
         st'.total = OneFewer(st, IpOf[c]).total, st'.perIp = OneFewer(st, IpOf[c]).perIp
  PROVE  (LowerBounds => LowerBounds') /\ (Exact => Exact')
<1> DEFINE ip == IpOf[c]
<1>1. ip \in Ip /\ st.total \in Nat /\ \A x \in Ip : Count(st, x) \in Nat
  BY IpType DEF State, Count, Tracks
<1>2. /\ Cardinality(HalfOpen') = Cardinality(HalfOpen) - 1
      /\ \A x : Cardinality(HalfOpenOf(x)') =
           IF x = ip THEN Cardinality(HalfOpenOf(x)) - 1 ELSE Cardinality(HalfOpenOf(x))
  BY HalfOpenChanges
<1>3. st'.total = SaturatingSub(st.total, 1)
  BY <1>1, OneFewerCounts
<1>4. \A x \in Ip : Count(st, x)' = IF x = ip THEN SaturatingSub(Count(st, x), 1) ELSE Count(st, x)
  <2>1. \A x \in Ip : Count(st, x)' = Count(OneFewer(st, ip), x)
    BY DEF Count, Tracks
  <2> QED
    BY <1>1, <2>1, OneFewerCounts
<1>5. /\ Cardinality(HalfOpen) \in Nat /\ 1 <= Cardinality(HalfOpen)
      /\ \A x : Cardinality(HalfOpenOf(x)) \in Nat
      /\ 1 <= Cardinality(HalfOpenOf(ip))
  <2>1. c \in HalfOpen /\ c \in HalfOpenOf(ip)
    BY DEF HalfOpen, HalfOpenOf, In
  <2>2. Cardinality(HalfOpen) # 0 /\ Cardinality(HalfOpenOf(ip)) # 0
    BY <2>1, HalfOpenFinite, FS_EmptySet
  <2> QED
    BY <2>2, HalfOpenFinite
<1>6. \A m, n \in Nat : /\ m <= n /\ 1 <= n => SaturatingSub(m, 1) <= n - 1
                        /\ m = n /\ 1 <= n => SaturatingSub(m, 1) = n - 1
                        /\ SaturatingSub(m, 1) <= m
  BY DEF SaturatingSub
<1> HIDE DEF ip
<1>7. LowerBounds => LowerBounds'
  BY <1>1, <1>2, <1>3, <1>4, <1>5, <1>6 DEF LowerBounds
<1>8. ASSUME Exact, DistinctAddrs
      PROVE  /\ st'.total = Cardinality(HalfOpen') /\ st'.total <= MaxHalfOpen
             /\ \A x \in Ip : /\ Count(st, x)' = Cardinality(HalfOpenOf(x)')
                              /\ Count(st, x)' <= MaxHalfOpenPerIp
  <2>1. MaxHalfOpen \in Nat /\ MaxHalfOpenPerIp \in Nat
    BY SynLimitAssumption
  <2>2. st'.total = Cardinality(HalfOpen') /\ st'.total <= MaxHalfOpen
    BY <1>1, <1>2, <1>3, <1>5, <1>6, <1>8, <2>1 DEF Exact
  <2>3. ASSUME NEW x \in Ip
        PROVE  Count(st, x)' = Cardinality(HalfOpenOf(x)') /\ Count(st, x)' <= MaxHalfOpenPerIp
    BY <1>1, <1>2, <1>4, <1>5, <1>6, <1>8, <2>1 DEF Exact
  <2> QED
    BY <2>2, <2>3
<1>9. Exact => Exact'
  BY <1>8 DEF Exact, DistinctAddrs
<1> QED
  BY <1>7, <1>9

\* reserve counts the connection; the counts stay exact if it evicts nothing.
LEMMA CountsRise ==
  ASSUME State(st), phase \in [Conn -> Phases], NEW c \in Conn, Reserve(c)
  PROVE  /\ LowerBounds => LowerBounds'
         /\ DOMAIN st.perIp \subseteq DOMAIN st'.perIp /\ Exact => Exact'
<1> DEFINE ip == IpOf[c]
<1>1. ip \in Ip /\ st.total \in Nat /\ \A x \in Ip : Count(st, x) \in Nat
  BY IpType DEF State, Count, Tracks
<1>2. /\ phase[c] # "halfOpen" /\ Goto(c, "halfOpen") /\ st' = Reserved(st, ip)
      /\ st.total + 1 <= MaxHalfOpen /\ Count(st, ip) + 1 <= MaxHalfOpenPerIp
  BY <1>1, SynLimitAssumption DEF Reserve, AtGlobalLimit, AtIpLimit
<1>3. /\ Cardinality(HalfOpen') = Cardinality(HalfOpen) + 1
      /\ \A x : Cardinality(HalfOpenOf(x)') =
           IF x = ip THEN Cardinality(HalfOpenOf(x)) + 1 ELSE Cardinality(HalfOpenOf(x))
  BY <1>2, HalfOpenChanges DEF Phases
<1>4. /\ Count(st', ip) = Count(st, ip) + 1
      /\ st'.total <= st.total + 1
      /\ \A x \in Ip \ {ip} : Count(st', x) <= Count(st, x)
      /\ DOMAIN st.perIp \subseteq DOMAIN st'.perIp =>
           /\ st'.total = st.total + 1
           /\ \A x \in Ip \ {ip} : Count(st', x) = Count(st, x)
  BY <1>1, <1>2, ReservedCounts
<1>5. /\ Cardinality(HalfOpen) \in Nat /\ \A x : Cardinality(HalfOpenOf(x)) \in Nat
      /\ State(st')
  BY <1>1, <1>2, HalfOpenFinite, ReservedKeeps
<1>6. st'.total \in Nat /\ \A x \in Ip : Count(st', x) \in Nat
  BY <1>5 DEF State, Count, Tracks
<1> HIDE DEF ip
<1>7. LowerBounds => LowerBounds'
  BY <1>1, <1>3, <1>4, <1>5, <1>6 DEF LowerBounds, Count, Tracks
<1>8. DOMAIN st.perIp \subseteq DOMAIN st'.perIp /\ Exact => Exact'
  BY <1>1, <1>2, <1>3, <1>4, <1>5, <1>6 DEF Exact, DistinctAddrs, Count, Tracks
<1> QED
  BY <1>7, <1>8

\* The counts of the next state, under the invariant of this one.
LEMMA NeverOverCountsAfter ==
  ASSUME IInv, State(st)', LowerBounds => LowerBounds' PROVE NeverOverCounts'
<1>1. DistinctAddrs => LowerBounds'
  BY NeverOverCountsIff DEF IInv, CountsFaithful
<1>2. State(st)' => (NeverOverCounts' <=> (DistinctAddrs => LowerBounds)')
  BY NeverOverCountsIff, PTL
<1> QED
  BY <1>1, <1>2 DEF DistinctAddrs

\* on_reserve: one more half-open connection, or a refusal that leaves the counts as they are.
LEMMA ReserveStep == ASSUME IInv, NEW c \in Conn, Reserve(c) PROVE IInv'
<1>1. st' = Reserved(st, IpOf[c]) /\ IpOf[c] \in Ip /\ State(st) /\ Bounded(st)
  BY IpType DEF Reserve, IInv
<1>2. State(st)' /\ Bounded(st)'
  BY <1>1, ReservedKeeps DEF State, Bounded
<1>3. NeverOverCounts'
  BY <1>2, CountsRise, NeverOverCountsAfter DEF IInv
<1>4. phase' \in [Conn -> Phases] /\ Established' = Established
  BY DEF IInv, Reserve, Goto, Phases, Established, In
<1>5. EstablishedExact'
  BY <1>1, <1>4, ReservedKeeps DEF IInv, CountsFaithful, EstablishedExact, DistinctAddrs
<1> QED
  BY <1>2, <1>3, <1>4, <1>5 DEF IInv, CountsFaithful

\* Refusing and looking at the clock change only what the owner knows.
LEMMA QuietStep ==
  ASSUME IInv, NEW c \in Conn, RefuseReserve(c) \/ OnActivity(c)
  PROVE  IInv' /\ (Exact => Exact')
<1>1. PICK p \in {"refused", "established", "timedOut"} : Goto(c, p)
  BY DEF RefuseReserve, OnActivity
<1>2. /\ UNCHANGED st /\ phase[c] # "halfOpen" /\ phase' \in [Conn -> Phases]
      /\ Established' = Established
  BY DEF IInv, RefuseReserve, OnActivity, Goto, Phases, Established, In
<1>3. (LowerBounds => LowerBounds') /\ (Exact => Exact')
  BY <1>1, <1>2, CountsUnmoved DEF IInv, Phases
<1>4. State(st)' /\ Bounded(st)'
  BY <1>2 DEF IInv, State, Bounded
<1>5. NeverOverCounts' /\ EstablishedExact'
  BY <1>2, <1>3, <1>4, NeverOverCountsAfter
     DEF IInv, CountsFaithful, EstablishedExact, DistinctAddrs
<1> QED
  BY <1>2, <1>3, <1>4, <1>5 DEF IInv, CountsFaithful

\* A different set of established addresses, and nothing else.
LEMMA SetEstablished ==
  ASSUME NEW s, State(s), NEW A, A \subseteq Range(AddrOf)
  PROVE  LET t == [s EXCEPT !.established = A]
         IN  /\ State(t) /\ t.established = A
             /\ t.total = s.total /\ t.perIp = s.perIp
             /\ Bounded(s) => Bounded(t)
<1> DEFINE t == [s EXCEPT !.established = A]
<1>1. /\ DOMAIN t = DOMAIN s /\ t.established = A /\ t.total = s.total /\ t.perIp = s.perIp
      /\ t.ipOrder = s.ipOrder /\ t.startedAt = s.startedAt
  BY DEF State
<1> HIDE DEF t
<1>2. State(t) /\ (Bounded(s) => Bounded(t))
  BY <1>1 DEF State, Bounded
<1> QED
  BY <1>1, <1>2 DEF t

\* on_established: one half-open connection fewer, one settled more.
LEMMA EstablishStep ==
  ASSUME IInv, NEW c \in Conn, Establish(c) PROVE IInv' /\ (Exact => Exact')
<1> DEFINE less == OneFewer(st, IpOf[c])
           A    == st.established \cup {AddrOf[c]}
<1>1. /\ phase[c] = "halfOpen" /\ Goto(c, "established") /\ IpOf[c] \in Ip
      /\ State(st) /\ Bounded(st) /\ phase \in [Conn -> Phases]
  BY IpType DEF Establish, IInv
<1>2. State(less) /\ Bounded(less) /\ less.established = st.established
  BY <1>1, OneFewerCounts
<1>3. st' = [less EXCEPT !.established = A]
  BY <1>2 DEF Establish, State
<1> HIDE DEF less
<1>4. A \subseteq Range(AddrOf)
  BY <1>1, SynConnAssumption DEF State, Range
<1>5. State(st') /\ Bounded(st') /\ st'.established = A /\ st'.total = less.total /\ st'.perIp = less.perIp
  BY <1>2, <1>3, <1>4, SetEstablished
<1>6. (LowerBounds => LowerBounds') /\ (Exact => Exact')
  BY <1>1, <1>5, CountsFall DEF less, Phases
<1>7. State(st)' /\ Bounded(st)'
  BY <1>5 DEF State, Bounded
<1>8. NeverOverCounts'
  BY <1>6, <1>7, NeverOverCountsAfter
<1>9. phase' \in [Conn -> Phases] /\ Established' = Established \cup {c}
  BY <1>1 DEF Goto, Phases, Established, In
<1>10. EstablishedExact'
  BY <1>5, <1>9 DEF IInv, CountsFaithful, EstablishedExact, DistinctAddrs
<1> QED
  BY <1>6, <1>7, <1>8, <1>9, <1>10 DEF IInv, CountsFaithful

\* on_close of a connection that has not settled: `established' may hold its
\* address only when two connections share one.
LEMMA CloseHalfOpen ==
  ASSUME IInv, NEW c \in Conn, Close(c), phase[c] = "halfOpen"
  PROVE  IInv' /\ (Exact => Exact')
<1>1. /\ Goto(c, "idle") /\ IpOf[c] \in Ip
      /\ State(st) /\ Bounded(st) /\ phase \in [Conn -> Phases]
  BY IpType DEF Close, IInv
<1>2. phase' \in [Conn -> Phases] /\ Established' = Established /\ c \notin Established
  BY <1>1 DEF Goto, Phases, Established, In
<1>3. DistinctAddrs => AddrOf[c] \notin st.established
  BY <1>2 DEF IInv, CountsFaithful, EstablishedExact, DistinctAddrs, Established, In
<1>4. State(OneFewer(st, IpOf[c])) /\ Bounded(OneFewer(st, IpOf[c]))
        /\ OneFewer(st, IpOf[c]).established = st.established
  BY <1>1, OneFewerCounts
<1>5. CASE AddrOf[c] \notin st.established
  <2>1. st' = OneFewer(st, IpOf[c])
    BY <1>5 DEF Close
  <2>2. (LowerBounds => LowerBounds') /\ (Exact => Exact')
    BY <1>1, <2>1, CountsFall DEF Phases
  <2>3. State(st)' /\ Bounded(st)'
    BY <1>4, <2>1 DEF State, Bounded
  <2>4. NeverOverCounts'
    BY <2>2, <2>3, NeverOverCountsAfter
  <2>5. EstablishedExact'
    BY <1>2, <1>4, <2>1 DEF IInv, CountsFaithful, EstablishedExact, DistinctAddrs
  <2> QED
    BY <1>2, <2>2, <2>3, <2>4, <2>5 DEF IInv, CountsFaithful
<1>6. CASE AddrOf[c] \in st.established
  <2>1. ~DistinctAddrs
    BY <1>3, <1>6
  <2>2. st' = [st EXCEPT !.established = st.established \ {AddrOf[c]}]
    BY <1>6 DEF Close
  <2>3. State(st') /\ Bounded(st')
    <3>1. st.established \ {AddrOf[c]} \subseteq Range(AddrOf)
      BY <1>1 DEF State
    <3> QED
      BY <1>1, <2>2, <3>1, SetEstablished
  <2>4. State(st)' /\ Bounded(st)'
    BY <2>3 DEF State, Bounded
  <2>5. NeverOverCounts' /\ EstablishedExact' /\ Exact'
    BY <2>1 DEF NeverOverCounts, EstablishedExact, Exact, DistinctAddrs
  <2> QED
    BY <1>2, <2>4, <2>5 DEF IInv, CountsFaithful
<1> QED
  BY <1>5, <1>6

\* on_close of a settled connection takes its address out of `established' and
\* leaves the counts, which establish has already lowered.
LEMMA CloseSettled ==
  ASSUME IInv, NEW c \in Conn, Close(c), phase[c] # "halfOpen"
  PROVE  IInv' /\ (Exact => Exact')
<1>1. /\ Goto(c, "idle") /\ IpOf[c] \in Ip /\ c \in Established
      /\ State(st) /\ Bounded(st) /\ phase \in [Conn -> Phases]
  BY IpType DEF Close, IInv, Established, In
<1>2. phase' \in [Conn -> Phases] /\ Established' = Established \ {c}
  BY <1>1 DEF Goto, Phases, Established, In
<1>3. CASE AddrOf[c] \in st.established
  <2>1. st' = [st EXCEPT !.established = st.established \ {AddrOf[c]}]
    BY <1>3 DEF Close
  <2>2. /\ State(st') /\ Bounded(st') /\ st'.established = st.established \ {AddrOf[c]}
        /\ st'.total = st.total /\ st'.perIp = st.perIp
    <3>1. st.established \ {AddrOf[c]} \subseteq Range(AddrOf)
      BY <1>1 DEF State
    <3> QED
      BY <1>1, <2>1, <3>1, SetEstablished
  <2>3. State(st)' /\ Bounded(st)'
    BY <2>2 DEF State, Bounded
  <2>4. (LowerBounds => LowerBounds') /\ (Exact => Exact')
    BY <1>1, <2>2, CountsUnmoved DEF Close, Phases
  <2>5. NeverOverCounts'
    BY <2>3, <2>4, NeverOverCountsAfter
  <2>6. EstablishedExact'
    BY <1>1, <1>2, <2>2 DEF IInv, CountsFaithful, EstablishedExact, DistinctAddrs, Established, In
  <2> QED
    BY <1>2, <2>3, <2>4, <2>5, <2>6 DEF IInv, CountsFaithful
<1>4. CASE AddrOf[c] \notin st.established
  <2>1. ~DistinctAddrs
    BY <1>1, <1>4 DEF IInv, CountsFaithful, EstablishedExact
  <2>2. st' = OneFewer(st, IpOf[c])
    BY <1>4 DEF Close
  <2>3. State(st)' /\ Bounded(st)'
    BY <1>1, <2>2, OneFewerCounts DEF State, Bounded
  <2>4. NeverOverCounts' /\ EstablishedExact' /\ Exact'
    BY <2>1 DEF NeverOverCounts, EstablishedExact, Exact, DistinctAddrs
  <2> QED
    BY <1>2, <2>3, <2>4 DEF IInv, CountsFaithful
<1> QED
  BY <1>3, <1>4

\* Time changes a clock and nothing that is counted.
LEMMA ExpireStep == ASSUME IInv, NEW ip \in Ip, Expire(ip) PROVE IInv' /\ (Exact => Exact')
<1>1. /\ st' = [st EXCEPT !.startedAt = [st.startedAt EXCEPT ![ip] = "expired"]]
      /\ State(st) /\ Bounded(st) /\ UNCHANGED phase
  BY DEF Expire, IInv
<1>2. /\ DOMAIN st' = DOMAIN st /\ st'.total = st.total /\ st'.perIp = st.perIp
      /\ st'.ipOrder = st.ipOrder /\ st'.established = st.established
      /\ st'.startedAt = [st.startedAt EXCEPT ![ip] = "expired"]
  BY <1>1 DEF State
<1>3. st'.startedAt \in [DOMAIN st.perIp -> {"recent", "expired"}]
  BY <1>1, <1>2 DEF State
<1>4. State(st)' /\ Bounded(st)'
  BY <1>1, <1>2, <1>3 DEF State, Bounded
<1>5. HalfOpen' = HalfOpen /\ Established' = Established /\ \A x : HalfOpenOf(x)' = HalfOpenOf(x)
  BY <1>1 DEF HalfOpen, HalfOpenOf, Established, In
<1>6. \A x : Count(st, x)' = Count(st, x)
  BY <1>2 DEF Count, Tracks
<1>7. (LowerBounds => LowerBounds') /\ (Exact => Exact')
  BY <1>2, <1>5, <1>6 DEF LowerBounds, Exact, DistinctAddrs
<1>8. NeverOverCounts'
  BY <1>4, <1>7, NeverOverCountsAfter
<1>9. EstablishedExact'
  BY <1>2, <1>5 DEF IInv, CountsFaithful, EstablishedExact, DistinctAddrs
<1> QED
  BY <1>1, <1>4, <1>7, <1>8, <1>9 DEF IInv, CountsFaithful

\* A step that changes nothing.
LEMMA StutterStep == ASSUME IInv, UNCHANGED vars PROVE IInv' /\ (Exact => Exact')
BY DEF vars, IInv, CountsFaithful, NeverOverCounts, EstablishedExact, Established, Exact,
   DistinctAddrs, HalfOpen, HalfOpenOf, In, Bounded, State, Count, Tracks

\* Every step preserves the invariant.
LEMMA StepIInv == IInv /\ [Next]_vars => IInv'
BY ReserveStep, QuietStep, EstablishStep, CloseHalfOpen, CloseSettled, ExpireStep, StutterStep
   DEF Next

-----------------------------------------------------------------------------
\* Every reachable state satisfies the inductive invariant.
THEOREM Invariance == Spec => []IInv
BY InitIInv, StepIInv, PTL DEF Spec

\* However the hooks of any number of connections interleave and whatever is
\* evicted, no connection is counted twice or after its end, and `established'
\* holds the settled connections and no others.
THEOREM CountsCorrect == Spec => []CountsFaithful
<1>1. IInv => CountsFaithful
  BY DEF IInv
<1> QED
  BY <1>1, Invariance, PTL

\* The map and the queue of the half-open state stay within their bounds, and
\* every tracked address can be evicted.
THEOREM TrackingCorrect == Spec => []TrackingBounded
<1>1. IInv => TrackingBounded
  BY DEF IInv, TrackingBounded, TypeOK, State, Bounded, MapLimit
<1> QED
  BY <1>1, Invariance, PTL

-----------------------------------------------------------------------------
(* Until an address is evicted *)

\* The counts start exact.
LEMMA HInitExact == HInit => IInv /\ ExactUntilEviction
<1> SUFFICES ASSUME HInit PROVE IInv /\ Exact
  BY DEF ExactUntilEviction
<1>1. HalfOpen = {} /\ \A ip : HalfOpenOf(ip) = {}
  BY DEF HInit, Init, HalfOpen, HalfOpenOf, In
<1>2. st.total = 0 /\ \A ip : Count(st, ip) = 0
  BY DEF HInit, Init, Count, Tracks
<1>3. Exact
  BY <1>1, <1>2, FS_EmptySet, SynLimitAssumption DEF Exact
<1> QED
  BY <1>3, InitIInv DEF HInit

\* Without an eviction every step keeps them so.
LEMMA HStepExact ==
  IInv /\ ExactUntilEviction /\ [HNext]_<<vars, evicted>> => IInv' /\ ExactUntilEviction'
<1> SUFFICES ASSUME IInv, ExactUntilEviction, [HNext]_<<vars, evicted>>
             PROVE  IInv' /\ ExactUntilEviction'
  OBVIOUS
<1>1. IInv'
  BY StepIInv DEF HNext, vars
<1>2. ASSUME ~evicted' PROVE Exact'
  <2>1. Exact /\ [Next]_vars
    BY <1>2 DEF ExactUntilEviction, HNext, vars
  <2>2. ASSUME NEW c \in Conn, Reserve(c) PROVE Exact'
    <3>1. Reserving /\ ~UNCHANGED vars
      BY <2>2 DEF Reserving, Reserve, Goto, IInv, vars, Phases
    <3>2. Gone = {}
      BY <1>2, <3>1 DEF HNext, vars
    <3> QED
      BY <2>1, <2>2, <3>2, CountsRise DEF IInv, Gone
  <2> QED
    BY <2>1, <2>2, QuietStep, EstablishStep, CloseHalfOpen, CloseSettled, ExpireStep,
       StutterStep DEF Next
<1> QED
  BY <1>1, <1>2 DEF ExactUntilEviction

\* As long as reserve has evicted no address, the half-open counts are exact and
\* both limits hold for the connections that are really half-open.
THEOREM ExactCorrect == HSpec => []ExactUntilEviction
BY HInitExact, HStepExact, PTL DEF HSpec

-----------------------------------------------------------------------------
(* What goes uncounted *)

\* reserve evicts one address at most, and what it subtracts is its count.
LEMMA ReservedLoses ==
  ASSUME NEW s, State(s), NEW ip \in Ip
  PROVE  LET r == Reserved(s, ip)
             gone == DOMAIN s.perIp \ DOMAIN r.perIp
         IN  /\ \A x \in Ip \ gone : x # ip => Count(s, x) <= Count(r, x)
             /\ gone = {} => s.total + 1 <= r.total
             /\ \A x \in gone : s.total + 1 <= r.total + Count(s, x)
<1> DEFINE r == Reserved(s, ip)
           gone == DOMAIN s.perIp \ DOMAIN r.perIp
<1>1. PICK room : /\ State(room) /\ Room(s, room, ip)
                  /\ r.total = room.total + 1
                  /\ r.perIp = With(room.perIp, ip, Count(s, ip) + 1)
  BY ReservedKeeps
<1> HIDE DEF r
<1>2. /\ DOMAIN r.perIp = DOMAIN room.perIp \cup {ip}
      /\ \A x \in DOMAIN room.perIp \ {ip} : r.perIp[x] = room.perIp[x]
  BY <1>1 DEF With
<1>3. s.total \in Nat /\ room.total \in Nat /\ \A x \in Ip : Count(s, x) \in Nat /\ Count(room, x) \in Nat
  BY <1>1 DEF State, Count, Tracks
<1>4. \A x \in Ip : x # ip => Count(r, x) = Count(room, x)
  BY <1>2 DEF Count, Tracks
<1>5. CASE SameCounts(s, room)
  <2>1. room.total = s.total /\ gone = {} /\ \A x \in Ip : Count(room, x) = Count(s, x)
    BY <1>2, <1>5 DEF SameCounts, Count, Tracks
  <2> QED
    BY <1>1, <1>3, <1>4, <2>1 DEF r
<1>6. ASSUME ~Tracks(s, ip), NEW old \in DOMAIN s.perIp, Forgotten(s, room, old)
      PROVE  /\ \A x \in Ip \ gone : x # ip => Count(s, x) <= Count(r, x)
             /\ gone = {old} /\ s.total + 1 <= r.total + Count(s, old)
  <2>1. /\ DOMAIN room.perIp = DOMAIN s.perIp \ {old}
        /\ \A x \in DOMAIN room.perIp : room.perIp[x] = s.perIp[x]
        /\ room.total = SaturatingSub(s.total, s.perIp[old])
    BY <1>6 DEF Forgotten, Without, Restrict
  <2>2. gone = {old}
    BY <1>2, <1>6, <2>1 DEF Tracks
  <2>3. \A x \in Ip : x # old => Count(room, x) = Count(s, x)
    BY <2>1 DEF Count, Tracks
  <2>4. Count(s, old) = s.perIp[old] /\ Count(s, old) \in Nat
    BY DEF State, Count, Tracks
  <2>5. s.total <= room.total + Count(s, old)
    BY <1>3, <2>1, <2>4 DEF SaturatingSub
  <2> HIDE DEF gone
  <2>6. \A x \in Ip \ gone : x # ip => Count(s, x) <= Count(r, x)
    BY <1>3, <1>4, <2>2, <2>3
  <2> QED
    BY <1>1, <1>3, <2>2, <2>4, <2>5, <2>6
<1> QED
  BY <1>1, <1>5, <1>6 DEF Room, r, gone

\* The next step loses no count, of an address or in all.
Keeps ==
  /\ \A ip \in Ip : Uncounted(ip)' <= Uncounted(ip)
  /\ UncountedInAll' <= UncountedInAll

\* All of the counts are numbers.
LEMMA CountTypes ==
  ASSUME State(st)
  PROVE  /\ st.total \in Nat /\ Cardinality(HalfOpen) \in Nat
         /\ \A ip \in Ip : Count(st, ip) \in Nat /\ Cardinality(HalfOpenOf(ip)) \in Nat
BY HalfOpenFinite DEF State, Count, Tracks

\* Nothing half-open and no count changes.
LEMMA KeepsUnmoved ==
  ASSUME State(st), st'.total = st.total, st'.perIp = st.perIp,
         HalfOpen' = HalfOpen, \A ip : HalfOpenOf(ip)' = HalfOpenOf(ip)
  PROVE  Keeps
<1>1. \A ip : Count(st, ip)' = Count(st, ip)
  BY DEF Count, Tracks
<1>2. /\ UncountedInAll' = UncountedInAll /\ \A ip : Uncounted(ip)' = Uncounted(ip)
  BY <1>1 DEF UncountedInAll, Uncounted
<1>3. UncountedInAll \in Int /\ \A ip \in Ip : Uncounted(ip) \in Int
  BY CountTypes DEF UncountedInAll, Uncounted
<1> QED
  BY <1>2, <1>3 DEF Keeps

\* A half-open connection that settles or ends takes one count at most, even if
\* it is not its own.
LEMMA KeepsFall ==
  ASSUME State(st), phase \in [Conn -> Phases],
         NEW c \in Conn, NEW p \in Phases, Goto(c, p), phase[c] = "halfOpen", p # "halfOpen",
         st'.total = OneFewer(st, IpOf[c]).total, st'.perIp = OneFewer(st, IpOf[c]).perIp
  PROVE  Keeps
<1> DEFINE ip == IpOf[c]
<1>1. ip \in Ip
  BY IpType
<1>2. /\ Cardinality(HalfOpen') = Cardinality(HalfOpen) - 1
      /\ \A x : Cardinality(HalfOpenOf(x)') =
           IF x = ip THEN Cardinality(HalfOpenOf(x)) - 1 ELSE Cardinality(HalfOpenOf(x))
  BY HalfOpenChanges
<1>3. st'.total = SaturatingSub(st.total, 1)
  BY <1>1, OneFewerCounts
<1>4. \A x \in Ip : Count(st, x)' = IF x = ip THEN SaturatingSub(Count(st, x), 1) ELSE Count(st, x)
  <2>1. \A x \in Ip : Count(st, x)' = Count(OneFewer(st, ip), x)
    BY DEF Count, Tracks
  <2> QED
    BY <1>1, <2>1, OneFewerCounts
<1>5. \A m \in Nat : SaturatingSub(m, 1) \in Nat /\ m - 1 <= SaturatingSub(m, 1)
  BY DEF SaturatingSub
<1> HIDE DEF ip
<1>6. UncountedInAll' <= UncountedInAll
  BY <1>2, <1>3, <1>5, CountTypes DEF UncountedInAll
<1>7. ASSUME NEW x \in Ip PROVE Uncounted(x)' <= Uncounted(x)
  <2>1. Count(st, x) \in Nat /\ Cardinality(HalfOpenOf(x)) \in Nat
    BY CountTypes
  <2>2. CASE x = ip
    BY <1>2, <1>4, <1>5, <2>1, <2>2 DEF Uncounted
  <2>3. CASE x # ip
    BY <1>2, <1>4, <2>1, <2>3 DEF Uncounted
  <2> QED
    BY <2>2, <2>3
<1> QED
  BY <1>6, <1>7 DEF Keeps

\* Every hook but reserve loses no count.
LEMMA HooksKeep ==
  ASSUME IInv, DistinctAddrs, NEW c \in Conn,
         RefuseReserve(c) \/ OnActivity(c) \/ Establish(c) \/ Close(c)
  PROVE  Keeps
<1>1. /\ State(st) /\ phase \in [Conn -> Phases] /\ IpOf[c] \in Ip
      /\ DOMAIN st = {"total", "perIp", "ipOrder", "startedAt", "established"}
  BY IpType DEF IInv, State
<1>2. ASSUME RefuseReserve(c) \/ OnActivity(c) PROVE Keeps
  <2>1. PICK p \in {"refused", "established", "timedOut"} : Goto(c, p)
    BY <1>2 DEF RefuseReserve, OnActivity
  <2>2. UNCHANGED st /\ phase[c] # "halfOpen"
    BY <1>2 DEF RefuseReserve, OnActivity
  <2> QED
    BY <1>1, <2>1, <2>2, HalfOpenChanges, KeepsUnmoved DEF Phases
<1>3. ASSUME Establish(c) PROVE Keeps
  <2> DEFINE less == OneFewer(st, IpOf[c])
  <2>1. State(less)
    BY <1>1, OneFewerCounts
  <2>2. st' = [less EXCEPT !.established = less.established \cup {AddrOf[c]}]
    BY <1>3 DEF Establish
  <2> HIDE DEF less
  <2>3. st'.total = less.total /\ st'.perIp = less.perIp
    BY <2>1, <2>2 DEF State
  <2> QED
    BY <1>1, <1>3, <2>3, KeepsFall DEF Establish, Phases, less
<1>4. ASSUME Close(c), phase[c] = "halfOpen" PROVE Keeps
  <2>1. AddrOf[c] \notin st.established
    BY <1>4 DEF IInv, CountsFaithful, EstablishedExact, DistinctAddrs, Established, In
  <2>2. st' = OneFewer(st, IpOf[c]) /\ Goto(c, "idle")
    BY <1>4, <2>1 DEF Close
  <2> QED
    BY <1>1, <1>4, <2>2, KeepsFall DEF Phases
<1>5. ASSUME Close(c), phase[c] # "halfOpen" PROVE Keeps
  <2>1. AddrOf[c] \in st.established /\ Goto(c, "idle")
    BY <1>5 DEF Close, IInv, CountsFaithful, EstablishedExact, Established, In
  <2>2. st' = [st EXCEPT !.established = st.established \ {AddrOf[c]}]
    BY <1>5, <2>1 DEF Close
  <2>3. st'.total = st.total /\ st'.perIp = st.perIp
    BY <1>1, <2>2
  <2> QED
    BY <1>1, <1>5, <2>1, <2>3, HalfOpenChanges, KeepsUnmoved DEF Phases
<1> QED
  BY <1>2, <1>3, <1>4, <1>5

\* No step but an eviction lets half-open connections go uncounted, and an
\* eviction no more than were counted of its address: also not the late
\* establish or close of a connection whose address was evicted (syn_guard.rs,
\* evict_oldest_tracked_ip, establish and close).
THEOREM UncountedCorrect == Spec => OnlyEvictionUncounts
<1> DEFINE Lost == DistinctAddrs =>
                     /\ \A ip \in Ip \ Victims : Uncounted(ip)' <= Uncounted(ip)
                     /\ Victims = {} => UncountedInAll' <= UncountedInAll
                     /\ \A ip \in Victims : UncountedInAll' <= UncountedInAll + Count(st, ip)
<1>1. ASSUME IInv, Next PROVE Lost
  <2> SUFFICES ASSUME DistinctAddrs
               PROVE  \/ Keeps
                      \/ /\ Reserving
                         /\ \A ip \in Ip \ Gone : Uncounted(ip)' <= Uncounted(ip)
                         /\ Gone = {} => UncountedInAll' <= UncountedInAll
                         /\ \A ip \in Gone : UncountedInAll' <= UncountedInAll + Count(st, ip)
    <3>1. Keeps => /\ \A ip \in Ip : Uncounted(ip)' <= Uncounted(ip)
                   /\ \A ip \in Gone : UncountedInAll' <= UncountedInAll + Count(st, ip)
                   /\ UncountedInAll' <= UncountedInAll
      <4>1. Gone \subseteq Ip /\ State(st) /\ State(st)'
        BY <1>1, StepIInv DEF IInv, State, Gone
      <4>2. UncountedInAll \in Int /\ UncountedInAll' \in Int /\ \A ip \in Ip : Count(st, ip) \in Nat
        <5>1. UncountedInAll \in Int
          BY <4>1, CountTypes DEF UncountedInAll
        <5>2. Cardinality(HalfOpen') \in Nat
          <6>1. HalfOpen' \subseteq Conn /\ IsFiniteSet(Conn)
            BY SynConnAssumption DEF HalfOpen, In
          <6> QED
            BY <6>1, FS_Subset, FS_CardinalityType
        <5>3. st'.total \in Nat
          BY <4>1 DEF State
        <5> QED
          BY <4>1, <5>1, <5>2, <5>3, CountTypes DEF UncountedInAll
      <4> QED
        BY <4>1, <4>2 DEF Keeps
    <3> QED
      BY <3>1 DEF Victims
  <2>1. State(st) /\ phase \in [Conn -> Phases]
    BY <1>1 DEF IInv
  <2>2. ASSUME NEW c \in Conn, Reserve(c)
        PROVE  /\ Reserving
               /\ \A ip \in Ip \ Gone : Uncounted(ip)' <= Uncounted(ip)
               /\ Gone = {} => UncountedInAll' <= UncountedInAll
               /\ \A ip \in Gone : UncountedInAll' <= UncountedInAll + Count(st, ip)
    <3> DEFINE own == IpOf[c]
    <3>1. /\ phase[c] # "halfOpen" /\ Goto(c, "halfOpen") /\ st' = Reserved(st, own) /\ own \in Ip
      BY <2>2, IpType DEF Reserve
    <3>2. /\ Cardinality(HalfOpen') = Cardinality(HalfOpen) + 1
          /\ \A x : Cardinality(HalfOpenOf(x)') =
               IF x = own THEN Cardinality(HalfOpenOf(x)) + 1 ELSE Cardinality(HalfOpenOf(x))
      BY <2>1, <3>1, HalfOpenChanges DEF Phases
    <3>3. Reserving
      BY <2>1, <3>1 DEF Reserving, Goto
    <3>4. /\ \A x \in Ip \ Gone : x # own => Count(st, x) <= Count(st', x)
          /\ Gone = {} => st.total + 1 <= st'.total
          /\ \A x \in Gone : st.total + 1 <= st'.total + Count(st, x)
          /\ Count(st', own) = Count(st, own) + 1
      BY <2>1, <3>1, ReservedLoses, ReservedCounts DEF Gone
    <3>5. State(st') /\ Gone \subseteq Ip
      BY <2>1, <3>1, ReservedKeeps DEF Gone, State
    <3>6. st'.total \in Nat /\ \A x \in Ip : Count(st', x) \in Nat
      BY <3>5 DEF State, Count, Tracks
    <3> HIDE DEF own
    <3>7. ASSUME NEW x \in Ip \ Gone PROVE Uncounted(x)' <= Uncounted(x)
      <4>1. /\ Count(st, x) \in Nat /\ Count(st', x) \in Nat /\ Cardinality(HalfOpenOf(x)) \in Nat
            /\ Count(st, x)' = Count(st', x)
        BY <2>1, <3>6, CountTypes DEF Count, Tracks
      <4>2. CASE x = own
        BY <3>2, <3>4, <4>1, <4>2 DEF Uncounted
      <4>3. CASE x # own
        BY <3>2, <3>4, <4>1, <4>3 DEF Uncounted
      <4> QED
        BY <4>2, <4>3
    <3>8. Gone = {} => UncountedInAll' <= UncountedInAll
      BY <2>1, <3>2, <3>4, <3>6, CountTypes DEF UncountedInAll
    <3>9. ASSUME NEW x \in Gone PROVE UncountedInAll' <= UncountedInAll + Count(st, x)
      <4>1. Count(st, x) \in Nat
        BY <2>1, <3>5, CountTypes
      <4> QED
        BY <2>1, <3>2, <3>4, <3>6, <4>1, CountTypes DEF UncountedInAll
    <3> QED
      BY <3>3, <3>7, <3>8, <3>9
  <2>3. ASSUME NEW ip \in Ip, Expire(ip) PROVE Keeps
    <3>1. st'.total = st.total /\ st'.perIp = st.perIp /\ UNCHANGED phase
      BY <2>1, <2>3 DEF Expire, State
    <3>2. HalfOpen' = HalfOpen /\ \A x : HalfOpenOf(x)' = HalfOpenOf(x)
      BY <3>1 DEF HalfOpen, HalfOpenOf, In
    <3> QED
      BY <2>1, <3>1, <3>2, KeepsUnmoved
  <2> QED
    BY <1>1, <2>2, <2>3, HooksKeep DEF Next
<1>2. IInv /\ [Next]_vars => [Lost]_vars
  BY <1>1
<1> QED
  BY <1>2, Invariance, PTL DEF Spec, OnlyEvictionUncounts
=============================================================================
