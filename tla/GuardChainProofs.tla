-------------------------- MODULE GuardChainProofs --------------------------
(***************************************************************************)
(* Proofs about GuardChain for any callers, addresses, capacities, windows *)
(* and limits: that the rate limiter is the meter it stands for and lets   *)
(* no more through its window than it may, and that SlowLoris tracks,      *)
(* evicts and times out whom it should.                                    *)
(***************************************************************************)
EXTENDS MCGuardChain, FiniteSetTheorems, SequenceTheorems, WellFoundedInduction, TLAPS

-----------------------------------------------------------------------------
(* Naturals and sequences *)

\* A set of naturals has a least element: what the first request in the window
\* and the first live mention in a queue are.
LEMMA LeastElement ==
  ASSUME NEW T, T \subseteq Nat, T # {}
  PROVE  \E x \in T : \A y \in T : x <= y
<1> DEFINE R == OpToRel(<, Nat)
<1>1. IsWellFoundedOn(R, Nat)
  BY NatLessThanWellFounded
<1>2. \A x, y \in Nat : <<y, x>> \in R <=> y < x
  BY DEF OpToRel
<1> HIDE DEF R
<1>3. PICK x \in T : \A y \in T : <<y, x>> \notin R
  BY <1>1, WFMin
<1>4. ASSUME NEW y \in T PROVE x <= y
  <2>1. x \in Nat /\ y \in Nat /\ ~(y < x)
    BY <1>2, <1>3
  <2> QED
    BY <2>1
<1> QED
  BY <1>4

\* Induction up to m, for a property that is given as a set.
LEMMA Upward ==
  ASSUME NEW m \in Nat, NEW T, 0 \in T, \A n \in 1..m : n - 1 \in T => n \in T
  PROVE  m \in T
<1> DEFINE Bad == {n \in 0..m : n \notin T}
<1>1. ASSUME Bad # {} PROVE FALSE
  <2>1. PICK n \in Bad : \A k \in Bad : n <= k
    <3>1. Bad \subseteq Nat
      OBVIOUS
    <3> QED
      BY <1>1, <3>1, LeastElement
  <2>2. n \in 1..m /\ n - 1 \in 0..m /\ n - 1 \notin Bad
    BY <2>1
  <2> QED
    BY <2>1, <2>2
<1> QED
  BY <1>1

\* How many numbers there are from 1 up.
LEMMA UpTo == \A n \in Nat : IsFiniteSet(1..n) /\ Cardinality(1..n) = n
<1> SUFFICES ASSUME NEW n \in Nat PROVE IsFiniteSet(1..n) /\ Cardinality(1..n) = n
  OBVIOUS
<1>1. 1 \in Int /\ n \in Int /\ (IF 1 > n THEN 0 ELSE n - 1 + 1) = n
  OBVIOUS
<1> QED
  BY <1>1, FS_Interval

\* What is left of a queue when its first k elements are popped.
LEMMA Popped ==
  ASSUME NEW S, NEW q \in Seq(S), NEW k \in 0..Len(q)
  PROVE  LET rest == SubSeq(q, k + 1, Len(q))
         IN  /\ rest \in Seq(S) /\ Len(rest) = Len(q) - k
             /\ \A i \in 1..(Len(q) - k) : rest[i] = q[k + i]
<1>1. Len(q) \in Nat /\ \A i \in 1..Len(q) : q[i] \in S
  BY LenProperties, ElementOfSeq
<1> DEFINE rest == SubSeq(q, k + 1, Len(q))
           n == Len(q)
<1>2. /\ k + 1 \in Int /\ n \in Int /\ \A i \in (k + 1)..n : q[i] \in S
  BY <1>1
<1>3. /\ rest \in Seq(S)
      /\ Len(rest) = IF k + 1 <= n THEN n - (k + 1) + 1 ELSE 0
      /\ \A i \in 1..(n - (k + 1) + 1) : rest[i] = q[k + 1 + i - 1]
  BY <1>2, SubSeqProperties
<1>4. n - (k + 1) + 1 = n - k /\ (k + 1 <= n \/ n - k = 0)
  BY <1>1
<1>5. \A i \in 1..(n - k) : k + 1 + i - 1 = k + i
  BY <1>1
<1> HIDE DEF rest, n
<1>6. Len(rest) = n - k
  BY <1>3, <1>4
<1>7. \A i \in 1..(n - k) : rest[i] = q[k + i]
  BY <1>3, <1>4, <1>5
<1> QED
  BY <1>3, <1>6, <1>7 DEF rest, n

-----------------------------------------------------------------------------
(* TokenBucket *)

\* The sizes and rates are natural numbers.
LEMMA RateConstants ==
  /\ PerIpCapacity \in Nat /\ PerIpRefill \in Nat /\ GlobalCapacity \in Nat /\ GlobalRefill \in Nat
  /\ Window \in Nat /\ WindowLimit \in Nat /\ MaxTracked \in Nat /\ Token \in Nat \ {0}
  /\ Horizon \in Nat /\ Horizon > Window
  /\ PerIpCapacity * Token \in Nat /\ GlobalCapacity * Token \in Nat
<1>1. /\ PerIpCapacity \in Nat /\ PerIpRefill \in Nat /\ GlobalCapacity \in Nat /\ GlobalRefill \in Nat
      /\ Window \in Nat /\ WindowLimit \in Nat /\ MaxTracked \in Nat /\ Token \in Nat \ {0}
      /\ Horizon \in Nat /\ Horizon > Window
  BY RateAssumption
<1> QED
  BY <1>1

\* What a bucket holds is between nothing and its capacity.
LEMMA AvailableType ==
  ASSUME NEW capacity \in Nat, NEW refill \in Nat, NEW b \in Bucket(capacity)
  PROVE  Available(b, capacity, refill) \in 0..(capacity * Token)
<1>1. b.tokens \in Nat /\ b.since \in Nat /\ capacity * Token \in Nat
  BY RateConstants DEF Bucket
<1>2. b.since * refill \in Nat
  BY <1>1
<1> QED
  BY <1>1, <1>2 DEF Available, Least

\* A full bucket.
LEMMA FullBucket ==
  ASSUME NEW capacity \in Nat, NEW refill \in Nat
  PROVE  Full(capacity) \in Bucket(capacity) /\ Available(Full(capacity), capacity, refill) = capacity * Token
<1>1. capacity * Token \in Nat /\ 0 * refill = 0 /\ Horizon \in Nat
  BY RateConstants
<1> QED
  BY <1>1 DEF Full, Bucket, Available, Least

\* A bucket that was asked holds a token less, or what it held.
LEMMA AfterAllow ==
  ASSUME NEW capacity \in Nat, NEW refill \in Nat, NEW b \in Bucket(capacity)
  PROVE  /\ Allow(b, capacity, refill) \in Bucket(capacity)
         /\ Available(Allow(b, capacity, refill), capacity, refill) =
              Available(b, capacity, refill) - (IF Allows(b, capacity, refill) THEN Token ELSE 0)
<1> DEFINE now == Available(b, capacity, refill)
           room == capacity * Token
           left == IF now >= Token THEN now - Token ELSE now
<1>1. now \in 0..room /\ room \in Nat /\ Token \in Nat /\ Horizon \in Nat /\ 0 * refill = 0
  BY AvailableType, RateConstants
<1>2. Allow(b, capacity, refill) = [tokens |-> left, since |-> 0]
  BY DEF Allow
<1>3. Allows(b, capacity, refill) <=> now >= Token
  BY DEF Allows
<1> HIDE DEF now
<1>4. left \in 0..room /\ left = now - (IF now >= Token THEN Token ELSE 0)
  BY <1>1
<1>5. Available([tokens |-> left, since |-> 0], capacity, refill) = left
  <2>1. left + 0 * refill = left
    BY <1>1, <1>4
  <2> HIDE DEF left
  <2> QED
    BY <1>1, <1>4, <2>1 DEF Available, Least
<1>6. [tokens |-> left, since |-> 0] \in Bucket(capacity)
  BY <1>1, <1>4 DEF Bucket
<1> HIDE DEF left, room
<1> QED
  BY <1>2, <1>3, <1>4, <1>5, <1>6 DEF now

\* A bucket a tick later.
Aged(b) == [b EXCEPT !.since = Older(b.since)]

\* With each tick a bucket fills as the meter drains.
LEMMA AfterTick ==
  ASSUME NEW capacity \in Nat, NEW refill \in Nat, NEW b \in Bucket(capacity),
         refill > 0 => Horizon * refill >= capacity * Token
  PROVE  /\ Aged(b) \in Bucket(capacity)
         /\ capacity * Token - Available(Aged(b), capacity, refill) =
              Meter!Drained(capacity * Token - Available(b, capacity, refill), refill)
<1> DEFINE room == capacity * Token
           come == b.since * refill
           now  == Available(b, capacity, refill)
           then == Available(Aged(b), capacity, refill)
<1>1. /\ b.tokens \in 0..room /\ b.since \in 0..Horizon /\ Horizon \in Nat /\ room \in Nat
      /\ b = [tokens |-> b.tokens, since |-> b.since]
  BY RateConstants DEF Bucket
<1>2. /\ Aged(b) = [tokens |-> b.tokens, since |-> Older(b.since)]
      /\ Older(b.since) \in 0..Horizon
  BY <1>1 DEF Older, Aged
<1>3. Aged(b) \in Bucket(capacity)
  BY <1>1, <1>2 DEF Bucket
<1>4. come \in Nat
  BY <1>1
<1>5. now = Least(b.tokens + come, room) /\ now \in 0..room
  BY AvailableType DEF Available
<1>6. room - then = Meter!Drained(room - now, refill)
  <2>1. CASE b.since < Horizon
    <3>1. (b.since + 1) * refill = come + refill
      BY <1>1
    <3>2. then = Least(b.tokens + (b.since + 1) * refill, room)
      BY <1>2, <2>1 DEF Available, Older
    <3> HIDE DEF come, room, now, then
    <3> QED
      BY <1>1, <1>4, <1>5, <3>1, <3>2 DEF Least, Meter!Drained
  <2>2. CASE b.since = Horizon
    <3>1. then = now
      BY <1>1, <1>2, <2>2 DEF Older
    <3>2. refill > 0 => come >= room
      BY <2>2
    <3> HIDE DEF come, room, now, then
    <3> QED
      BY <1>1, <1>4, <1>5, <3>1, <3>2 DEF Least, Meter!Drained
  <2> QED
    BY <1>1, <2>1, <2>2
<1> QED
  BY <1>3, <1>6

-----------------------------------------------------------------------------
(* BoundedIpMap: the map and the queue of addresses *)

\* No address is in the queue twice, and it names those of a map with keys D.
Queues(q, D) == q \in Seq(Ip) /\ ToSet(q) = D /\ IsInjective(q)

\* A map of buckets with its queue, within its bound.
Bounded(m, q) ==
  /\ DOMAIN m \subseteq Ip /\ m \in [DOMAIN m -> Bucket(PerIpCapacity)]
  /\ Queues(q, DOMAIN m) /\ Cardinality(DOMAIN m) <= Room

\* The address at the head of the queue goes: the others stay queued, each once.
LEMMA TailQueues ==
  ASSUME NEW q, NEW D, Queues(q, D), q # <<>>
  PROVE  Head(q) \in D /\ Queues(Tail(q), D \ {Head(q)})
<1>1. /\ q \in Seq(Ip) /\ Len(q) \in Nat \ {0} /\ DOMAIN q = 1..Len(q)
      /\ \A i \in 1..Len(q) : q[i] \in Ip
  BY EmptySeq, LenProperties, ElementOfSeq DEF Queues
<1>2. /\ Head(q) = q[1] /\ Tail(q) \in Seq(Ip) /\ Len(Tail(q)) = Len(q) - 1
      /\ \A i \in 1..(Len(q) - 1) : Tail(q)[i] = q[i + 1]
  BY <1>1, HeadTailProperties DEF Queues
<1>3. DOMAIN Tail(q) = 1..(Len(q) - 1)
  BY <1>2, LenProperties
<1>4. \A i, j \in 1..Len(q) : q[i] = q[j] => i = j
  BY <1>1 DEF Queues, IsInjective
<1>5. ToSet(Tail(q)) = D \ {Head(q)}
  <2>1. ASSUME NEW i \in 1..(Len(q) - 1) PROVE Tail(q)[i] \in D \ {Head(q)}
    <3>1. i + 1 \in 1..Len(q) /\ 1 \in 1..Len(q) /\ i + 1 # 1
      BY <1>1
    <3> QED
      BY <1>1, <1>2, <1>4, <3>1 DEF Queues, ToSet
  <2>2. ASSUME NEW x \in D \ {Head(q)} PROVE \E i \in 1..(Len(q) - 1) : Tail(q)[i] = x
    <3>1. PICK k \in 1..Len(q) : q[k] = x
      BY <1>1 DEF Queues, ToSet
    <3>2. k - 1 \in 1..(Len(q) - 1) /\ (k - 1) + 1 = k
      BY <1>1, <1>2, <3>1
    <3> QED
      BY <1>2, <3>1, <3>2
  <2> QED
    BY <1>3, <2>1, <2>2 DEF ToSet
<1>6. IsInjective(Tail(q))
  <2> SUFFICES ASSUME NEW i \in 1..(Len(q) - 1), NEW j \in 1..(Len(q) - 1), Tail(q)[i] = Tail(q)[j]
               PROVE  i = j
    BY <1>3 DEF IsInjective
  <2>1. i + 1 \in 1..Len(q) /\ j + 1 \in 1..Len(q)
    BY <1>1
  <2>2. i + 1 = j + 1
    BY <1>2, <1>4, <2>1
  <2> QED
    BY <2>2
<1>7. Head(q) \in D
  BY <1>1, <1>2 DEF Queues, ToSet
<1> QED
  BY <1>2, <1>5, <1>6, <1>7 DEF Queues

\* A new address at the end of the queue.
LEMMA AppendQueues ==
  ASSUME NEW q, NEW D, Queues(q, D), NEW ip \in Ip, ip \notin D
  PROVE  Queues(Append(q, ip), D \cup {ip})
<1>1. /\ q \in Seq(Ip) /\ Append(q, ip) \in Seq(Ip) /\ Len(Append(q, ip)) = Len(q) + 1
      /\ \A i \in 1..Len(q) : Append(q, ip)[i] = q[i]
      /\ Append(q, ip)[Len(q) + 1] = ip
      /\ Len(q) \in Nat
      /\ DOMAIN q = 1..Len(q) /\ DOMAIN Append(q, ip) = 1..(Len(q) + 1)
  BY AppendProperties, LenProperties DEF Queues
<1>2. 1..(Len(q) + 1) = (1..Len(q)) \cup {Len(q) + 1}
  BY <1>1
<1>3. ToSet(Append(q, ip)) = D \cup {ip}
  BY <1>1, <1>2 DEF ToSet, Queues
<1>4. IsInjective(Append(q, ip))
  <2> SUFFICES ASSUME NEW i \in 1..(Len(q) + 1), NEW j \in 1..(Len(q) + 1),
                      Append(q, ip)[i] = Append(q, ip)[j]
               PROVE  i = j
    BY <1>1 DEF IsInjective
  <2>1. \A k \in 1..Len(q) : q[k] # ip
    BY <1>1 DEF ToSet, Queues
  <2> QED
    BY <1>1, <1>2, <2>1 DEF IsInjective, Queues
<1> QED
  BY <1>1, <1>3, <1>4 DEF Queues

\* get_or_insert keeps the bound and forgets at most one address, the oldest,
\* and that only when an address is new and there is no room.
LEMMA TrackingIs ==
  ASSUME Bounded(perIp, order), NEW ip \in Ip
  PROVE  \E gone \in SUBSET DOMAIN perIp :
           /\ gone = {} \/ \E old \in Ip : gone = {old}
           /\ ip \notin gone
           /\ gone # {} => ip \notin DOMAIN perIp /\ Cardinality(DOMAIN perIp) >= Room
           /\ Bounded(Tracking(ip).map, Tracking(ip).order)
           /\ DOMAIN Tracking(ip).map = (DOMAIN perIp \ gone) \cup {ip}
           /\ Tracking(ip).map[ip] = IF ip \in DOMAIN perIp THEN perIp[ip] ELSE Full(PerIpCapacity)
           /\ \A i \in DOMAIN perIp \ (gone \cup {ip}) : Tracking(ip).map[i] = perIp[i]
<1> DEFINE D    == DOMAIN perIp
           full == ip \notin D /\ Cardinality(D) >= Room /\ order # <<>>
           gone == IF full THEN {Head(order)} ELSE {}
           left == IF full THEN Restrict(perIp, D \ {Head(order)}) ELSE perIp
           rest == IF full THEN Tail(order) ELSE order
           map  == [i \in DOMAIN left \cup {ip} |-> IF i = ip THEN Full(PerIpCapacity) ELSE left[i]]
<1>1. /\ D \subseteq Ip /\ perIp \in [D -> Bucket(PerIpCapacity)] /\ IsFiniteSet(D)
      /\ Cardinality(D) \in Nat /\ Cardinality(D) <= Room /\ Room \in Nat /\ Room >= 1
      /\ Queues(order, D)
  <2>1. IsFiniteSet(Ip) /\ D \subseteq Ip
    BY RateAssumption DEF Bounded
  <2>2. IsFiniteSet(D) /\ Cardinality(D) \in Nat
    BY <2>1, FS_Subset, FS_CardinalityType
  <2> QED
    BY <2>1, <2>2, RateConstants DEF Bounded, Room
<1>2. CASE ip \in D
  <2>1. Tracking(ip) = [map |-> perIp, order |-> order]
    BY <1>2 DEF Tracking
  <2>2. D = (D \ {}) \cup {ip}
    BY <1>2
  <2> WITNESS {} \in SUBSET DOMAIN perIp
  <2> QED
    BY <1>2, <2>1, <2>2
<1>3. CASE ip \notin D
  <2>1. Tracking(ip) = [map |-> map, order |-> Append(rest, ip)]
    BY <1>3 DEF Tracking
  <2>2. full => Head(order) \in D /\ Queues(Tail(order), D \ {Head(order)})
    BY <1>1, TailQueues
  <2>3. gone \subseteq D /\ Queues(rest, D \ gone)
    BY <1>1, <2>2
  <2>4. left \in [D \ gone -> Bucket(PerIpCapacity)] /\ \A i \in D \ gone : left[i] = perIp[i]
    <3>1. CASE full
      BY <1>1, <2>2, <3>1 DEF Restrict
    <3>2. CASE ~full
      BY <1>1, <3>2
    <3> QED
      BY <3>1, <3>2
  <2>5. ~full => Cardinality(D) < Room
    <3>1. order = <<>> => D = {}
      <4>1. ToSet(<<>>) = {}
        BY EmptySeq DEF ToSet
      <4> QED
        BY <1>1, <4>1 DEF Queues
    <3>2. Cardinality({}) = 0
      BY FS_EmptySet
    <3> QED
      BY <1>1, <1>3, <3>1, <3>2
  <2>6. Cardinality((D \ gone) \cup {ip}) <= Room
    <3>1. CASE full
      <4>1. IsFiniteSet(D \ {Head(order)}) /\ Cardinality(D \ {Head(order)}) = Cardinality(D) - 1
        BY <1>1, <2>2, <3>1, FS_RemoveElement
      <4>2. Cardinality((D \ {Head(order)}) \cup {ip}) = Cardinality(D \ {Head(order)}) + 1
        BY <1>3, <4>1, FS_AddElement
      <4> QED
        BY <1>1, <3>1, <4>1, <4>2
    <3>2. CASE ~full
      <4>1. Cardinality(D \cup {ip}) = Cardinality(D) + 1
        BY <1>1, <1>3, FS_AddElement
      <4>2. (D \ gone) \cup {ip} = D \cup {ip}
        BY <3>2
      <4>3. Cardinality(D) < Room
        BY <2>5, <3>2
      <4> HIDE DEF D, full, gone
      <4> QED
        BY <1>1, <4>1, <4>2, <4>3
    <3> QED
      BY <3>1, <3>2
  <2>7. Queues(Append(rest, ip), (D \ gone) \cup {ip})
    BY <1>3, <2>3, AppendQueues
  <2>8. Full(PerIpCapacity) \in Bucket(PerIpCapacity)
    BY FullBucket, RateConstants
  <2>9. gone # {} => full /\ Cardinality(D) >= Room
    OBVIOUS
  <2>10. (gone = {} \/ \E old \in Ip : gone = {old}) /\ ip \notin gone
    BY <1>1, <1>3, <2>2
  <2> HIDE DEF gone, left, rest, full
  <2>11. /\ map \in [(D \ gone) \cup {ip} -> Bucket(PerIpCapacity)]
         /\ DOMAIN map = (D \ gone) \cup {ip}
         /\ map[ip] = Full(PerIpCapacity) /\ \A i \in D \ (gone \cup {ip}) : map[i] = perIp[i]
    BY <1>3, <2>4, <2>8
  <2> HIDE DEF map
  <2>12. Bounded(map, Append(rest, ip))
    BY <1>1, <2>6, <2>7, <2>11 DEF Bounded
  <2>13. Tracking(ip).map = map /\ Tracking(ip).order = Append(rest, ip)
    BY <2>1
  <2> gone \in SUBSET DOMAIN perIp
    BY <2>3
  <2> WITNESS gone \in SUBSET DOMAIN perIp
  <2> QED
    BY <1>3, <2>9, <2>10, <2>11, <2>12, <2>13
<1> QED
  BY <1>2, <1>3

-----------------------------------------------------------------------------
(* The window *)

\* The requests in the window w that are no older than it.
Fresh(w) == {i \in 1..Len(w) : w[i] <= Window}

\* The oldest are at the front.
Sorted(w) == \A i, j \in 1..Len(w) : i <= j => w[j] <= w[i]

\* The requests of the history p: see Recent.
RecentOf(p) == UNION {{age} \X (1..p[age]) : age \in 0..Window}

\* f finds each request of the history p in the window w.
Finds(f, w, p) ==
  /\ f \in [RecentOf(p) -> Fresh(w)]
  /\ \A r, s \in RecentOf(p) : f[r] = f[s] => r = s
  /\ \A i \in Fresh(w) : \E r \in RecentOf(p) : f[r] = i
  /\ \A r \in RecentOf(p) : w[f[r]] = r[1]

Recorded(w, p) == \E f : Finds(f, w, p)

\* The loop pops every request that is older than the window and no other, as
\* they are in the order of their ages.
LEMMA PrunedIs ==
  ASSUME window \in Seq(0..Horizon), Sorted(window)
  PROVE  \E k \in 0..Len(window) :
           /\ Pruned \in Seq(0..Horizon) /\ Len(Pruned) = Len(window) - k
           /\ \A i \in 1..(Len(window) - k) : Pruned[i] = window[k + i]
           /\ Fresh(window) = (k + 1)..Len(window)
<1> DEFINE fresh == {i \in DOMAIN window : window[i] <= Window}
           first == CHOOSE i \in fresh : \A j \in fresh : i <= j
<1>1. /\ Len(window) \in Nat /\ DOMAIN window = 1..Len(window) /\ Window \in Nat
      /\ \A i \in 1..Len(window) : window[i] \in 0..Horizon
  BY RateConstants, LenProperties, ElementOfSeq
<1>2. fresh = Fresh(window)
  BY <1>1 DEF Fresh
<1>3. Pruned = IF fresh = {} THEN <<>> ELSE SubSeq(window, first, Len(window))
  BY DEF Pruned, Within
<1>4. CASE fresh = {}
  <2>1. Pruned = <<>> /\ <<>> \in Seq(0..Horizon) /\ Len(<<>>) = 0
    BY <1>3, <1>4, EmptySeq
  <2>2. Len(window) \in 0..Len(window) /\ Len(window) - Len(window) = 0
    BY <1>1
  <2>3. Fresh(window) = (Len(window) + 1)..Len(window)
    BY <1>1, <1>2, <1>4
  <2> QED
    BY <2>1, <2>2, <2>3
<1>5. CASE fresh # {}
  <2>1. fresh \subseteq Nat
    BY <1>1
  <2>2. first \in fresh /\ \A j \in fresh : first <= j
    BY <1>5, <2>1, LeastElement
  <2> HIDE DEF first
  <2> DEFINE k == first - 1
  <2>3. first \in 1..Len(window) /\ k \in 0..Len(window) /\ k + 1 = first /\ window[first] <= Window
    BY <1>1, <2>2
  <2>4. Pruned = SubSeq(window, k + 1, Len(window))
    BY <1>3, <1>5, <2>3
  <2>5. Fresh(window) = (k + 1)..Len(window)
    <3>1. ASSUME NEW i \in first..Len(window) PROVE window[i] <= Window
      <4>1. i \in 1..Len(window) /\ window[i] <= window[first]
        BY <1>1, <2>3 DEF Sorted
      <4> QED
        BY <1>1, <2>3, <4>1
    <3> QED
      BY <1>1, <1>2, <2>2, <2>3, <3>1 DEF Fresh
  <2> HIDE DEF k
  <2>6. /\ Pruned \in Seq(0..Horizon) /\ Len(Pruned) = Len(window) - k
        /\ \A i \in 1..(Len(window) - k) : Pruned[i] = window[k + i]
    BY <2>3, <2>4, Popped
  <2> QED
    BY <2>3, <2>5, <2>6
<1> QED
  BY <1>4, <1>5

\* There are as many requests in the history as in the window.
LEMMA RecordedCount ==
  ASSUME NEW w \in Seq(0..Horizon), NEW p, Recorded(w, p)
  PROVE  /\ IsFiniteSet(Fresh(w)) /\ Cardinality(RecentOf(p)) = Cardinality(Fresh(w))
         /\ Cardinality(Fresh(w)) \in Nat /\ Cardinality(Fresh(w)) <= Len(w)
<1>1. PICK f : Finds(f, w, p)
  BY DEF Recorded
<1>2. Len(w) \in Nat
  BY LenProperties
<1>3. IsFiniteSet(1..Len(w)) /\ Cardinality(1..Len(w)) = Len(w)
  BY <1>2, FS_Interval
<1>4. Fresh(w) \in SUBSET (1..Len(w))
  BY DEF Fresh
<1>5. /\ IsFiniteSet(Fresh(w)) /\ Cardinality(Fresh(w)) <= Len(w) /\ Cardinality(Fresh(w)) \in Nat
  BY <1>3, <1>4, FS_Subset, FS_CardinalityType
<1>6. f \in Injection(RecentOf(p), Fresh(w)) /\ f \in Surjection(RecentOf(p), Fresh(w))
  BY <1>1 DEF Finds, Injection, Surjection, IsInjective
<1>7. Cardinality(RecentOf(p)) = Cardinality(Fresh(w))
  BY <1>5, <1>6, FS_Injection
<1> QED
  BY <1>5, <1>7

\* What the window is left with is still recorded, and still in order; all of
\* it is fresh.
LEMMA PrunedRecorded ==
  ASSUME window \in Seq(0..Horizon), Sorted(window)
  PROVE  /\ Pruned \in Seq(0..Horizon) /\ Sorted(Pruned) /\ Len(Pruned) <= Len(window)
         /\ Fresh(Pruned) = 1..Len(Pruned) /\ Len(Pruned) = Cardinality(Fresh(window))
         /\ \A p : Recorded(window, p) => Recorded(Pruned, p)
<1>1. PICK k \in 0..Len(window) :
         /\ Pruned \in Seq(0..Horizon) /\ Len(Pruned) = Len(window) - k
         /\ \A i \in 1..(Len(window) - k) : Pruned[i] = window[k + i]
         /\ Fresh(window) = (k + 1)..Len(window)
  BY PrunedIs
<1> DEFINE n == Len(window) - k
<1>2. Len(window) \in Nat /\ n \in Nat
  BY LenProperties
<1>3. \A i \in 1..n : k + i \in 1..Len(window) /\ k + i \in Fresh(window)
  BY <1>1, <1>2
<1>4. Sorted(Pruned)
  BY <1>1, <1>2, <1>3 DEF Sorted
<1>5. Fresh(Pruned) = 1..n
  BY <1>1, <1>3 DEF Fresh
<1>6. Cardinality(Fresh(window)) = n
  <2>1. Cardinality((k + 1)..Len(window)) = IF k + 1 > Len(window) THEN 0 ELSE Len(window) - (k + 1) + 1
    <3>1. k + 1 \in Int /\ Len(window) \in Int
      BY <1>2
    <3> HIDE DEF n
    <3> QED
      BY ONLY <3>1, FS_Interval
  <2> QED
    BY <1>1, <1>2, <2>1
<1>7. ASSUME NEW p, Recorded(window, p) PROVE Recorded(Pruned, p)
  <2>1. PICK f : Finds(f, window, p)
    BY <1>7 DEF Recorded
  <2> DEFINE g == [r \in RecentOf(p) |-> f[r] - k]
  <2>2. \A r \in RecentOf(p) : f[r] \in (k + 1)..Len(window) /\ window[f[r]] = r[1]
    BY <1>1, <2>1 DEF Finds
  <2>3. \A r \in RecentOf(p) : g[r] \in 1..n /\ k + g[r] = f[r]
    BY <1>2, <2>2
  <2>4. g \in [RecentOf(p) -> Fresh(Pruned)]
    BY <1>5, <2>3
  <2>5. \A r, s \in RecentOf(p) : g[r] = g[s] => r = s
    BY <2>1, <2>3 DEF Finds
  <2>6. ASSUME NEW i \in Fresh(Pruned) PROVE \E r \in RecentOf(p) : g[r] = i
    <3>1. k + i \in Fresh(window) /\ i \in Int
      <4>1. i \in 1..n
        BY <1>5
      <4> HIDE DEF n, g
      <4>2. k + i \in Fresh(window)
        BY <1>3, <4>1
      <4>3. i \in Int
        BY <4>1
      <4> QED
        BY <4>2, <4>3
    <3>2. PICK r \in RecentOf(p) : f[r] = k + i
      BY <2>1, <3>1 DEF Finds
    <3>3. g[r] = i
      BY <3>1, <3>2
    <3> QED
      BY <3>3
  <2>7. \A r \in RecentOf(p) : Pruned[g[r]] = r[1]
    BY <1>1, <2>2, <2>3
  <2> HIDE DEF g
  <2>8. Finds(g, Pruned, p)
    BY <2>4, <2>5, <2>6, <2>7 DEF Finds
  <2> QED
    BY <2>8 DEF Recorded
<1> QED
  BY <1>1, <1>2, <1>4, <1>5, <1>6, <1>7

\* The requests in a history.
LEMMA InRecent ==
  ASSUME NEW p
  PROVE  /\ \A r \in RecentOf(p) : r[1] \in 0..Window /\ r[2] \in 1..p[r[1]] /\ r = <<r[1], r[2]>>
         /\ \A age \in 0..Window : \A k \in 1..p[age] : <<age, k>> \in RecentOf(p)
BY DEF RecentOf

\* A request that passes is recorded at age 0 and is the last in the window.
LEMMA EnterRecorded ==
  ASSUME NEW w \in Seq(0..Horizon), Sorted(w), NEW p \in [0..Window -> Nat], Recorded(w, p)
  PROVE  /\ Append(w, 0) \in Seq(0..Horizon) /\ Sorted(Append(w, 0))
         /\ Len(Append(w, 0)) = Len(w) + 1
         /\ [p EXCEPT ![0] = @ + 1] \in [0..Window -> Nat]
         /\ Recorded(Append(w, 0), [p EXCEPT ![0] = @ + 1])
<1> DEFINE v   == Append(w, 0)
           n   == Len(w)
           q   == [p EXCEPT ![0] = @ + 1]
           new == <<0, p[0] + 1>>
<1>1. Window \in Nat /\ Horizon \in Nat /\ 0 \in 0..Horizon /\ 0 \in 0..Window /\ p[0] \in Nat
  BY RateConstants
<1>2. /\ v \in Seq(0..Horizon) /\ Len(v) = n + 1 /\ n \in Nat
      /\ \A i \in 1..n : v[i] = w[i] /\ w[i] \in 0..Horizon
      /\ v[n + 1] = 0
  BY <1>1, AppendProperties, LenProperties, ElementOfSeq
<1>3. q \in [0..Window -> Nat] /\ q[0] = p[0] + 1 /\ \A age \in 1..Window : q[age] = p[age]
  BY <1>1
<1> HIDE DEF v, q
<1>4. Sorted(v)
  <2> SUFFICES ASSUME NEW i \in 1..(n + 1), NEW j \in 1..(n + 1), i <= j PROVE v[j] <= v[i]
    BY <1>2 DEF Sorted
  <2>1. CASE j \in 1..n
    <3>1. i \in 1..n
      BY <2>1
    <3> QED
      BY <1>2, <2>1, <3>1 DEF Sorted
  <2>2. CASE j = n + 1
    <3>1. i = n + 1 \/ i \in 1..n
      BY <1>2
    <3> QED
      BY <1>2, <2>2, <3>1
  <2> QED
    BY <1>2, <2>1, <2>2
<1>5. Fresh(v) = Fresh(w) \cup {n + 1} /\ n + 1 \notin Fresh(w)
  BY <1>1, <1>2 DEF Fresh
<1>6. RecentOf(q) = RecentOf(p) \cup {new} /\ new \notin RecentOf(p)
  <2>1. ASSUME NEW r \in RecentOf(q) PROVE r \in RecentOf(p) \cup {new}
    <3>1. r[1] \in 0..Window /\ r[2] \in 1..q[r[1]] /\ r = <<r[1], r[2]>>
      BY InRecent
    <3>2. CASE r[1] = 0 /\ r[2] = p[0] + 1
      BY <3>1, <3>2
    <3>3. CASE ~(r[1] = 0 /\ r[2] = p[0] + 1)
      <4>1. r[2] \in 1..p[r[1]]
        BY <1>1, <1>3, <3>1, <3>3
      <4>2. <<r[1], r[2]>> \in RecentOf(p)
        BY <3>1, <4>1, InRecent
      <4> QED
        BY <3>1, <4>2
    <3> QED
      BY <3>2, <3>3
  <2>2. ASSUME NEW r \in RecentOf(p) PROVE r \in RecentOf(q) /\ r # new
    <3>1. r[1] \in 0..Window /\ r[2] \in 1..p[r[1]] /\ r = <<r[1], r[2]>>
      BY InRecent
    <3>2. r[2] \in 1..q[r[1]] /\ (r[1] = 0 => r[2] # p[0] + 1)
      <4>1. CASE r[1] = 0
        <5>1. r[2] \in 1..p[0] /\ r[2] # p[0] + 1
          BY <1>1, <3>1, <4>1
        <5>2. r[2] \in 1..q[0]
          BY <1>1, <1>3, <5>1
        <5> QED
          BY <4>1, <5>1, <5>2
      <4>2. CASE r[1] # 0
        <5>1. r[1] \in 1..Window
          BY <1>1, <3>1, <4>2
        <5> QED
          BY <1>3, <3>1, <4>2, <5>1
      <4> QED
        BY <4>1, <4>2
    <3>3. <<r[1], r[2]>> \in RecentOf(q)
      BY <3>1, <3>2, InRecent
    <3> QED
      BY <3>1, <3>2, <3>3
  <2>3. new \in RecentOf(q)
    <3>1. p[0] + 1 \in 1..q[0]
      BY <1>1, <1>3
    <3> QED
      BY <1>1, <3>1, InRecent
  <2> QED
    BY <2>1, <2>2, <2>3
<1>7. PICK f : Finds(f, w, p)
  BY DEF Recorded
<1> DEFINE g == [r \in RecentOf(q) |-> IF r = new THEN n + 1 ELSE f[r]]
<1>8. g[new] = n + 1 /\ \A r \in RecentOf(p) : g[r] = f[r] /\ f[r] \in Fresh(w)
  BY <1>6, <1>7 DEF Finds
<1>9. new[1] = 0
  OBVIOUS
<1>10. \A i \in Fresh(w) : v[i] = w[i]
  BY <1>2 DEF Fresh
<1>11. g \in [RecentOf(q) -> Fresh(v)]
  BY <1>5, <1>6, <1>8
<1> HIDE DEF g, new, n
<1>12. \A r, s \in RecentOf(q) : g[r] = g[s] => r = s
  BY <1>5, <1>6, <1>7, <1>8 DEF Finds
<1>13. \A i \in Fresh(v) : \E r \in RecentOf(q) : g[r] = i
  BY <1>5, <1>6, <1>7, <1>8 DEF Finds
<1>14. \A r \in RecentOf(q) : v[g[r]] = r[1]
  BY <1>2, <1>6, <1>7, <1>8, <1>9, <1>10 DEF Finds
<1>15. Recorded(v, q)
  <2>1. Finds(g, v, q)
    BY <1>11, <1>12, <1>13, <1>14 DEF Finds
  <2> QED
    BY <2>1 DEF Recorded
<1> QED
  BY <1>2, <1>3, <1>4, <1>15 DEF v, q, n

\* What a tick makes of the window and of the history.
Aging(w) == [i \in DOMAIN w |-> Older(w[i])]
Shifted(p) == [age \in 0..Window |-> IF age = 0 THEN 0 ELSE p[age - 1]]

\* As time passes the same requests leave the history as are no longer fresh.
LEMMA TickRecorded ==
  ASSUME NEW w \in Seq(0..Horizon), Sorted(w), NEW p \in [0..Window -> Nat], Recorded(w, p)
  PROVE  /\ Aging(w) \in Seq(0..Horizon) /\ Sorted(Aging(w)) /\ Len(Aging(w)) = Len(w)
         /\ Shifted(p) \in [0..Window -> Nat] /\ Recorded(Aging(w), Shifted(p))
<1> DEFINE v == Aging(w)
           n == Len(w)
           q == Shifted(p)
<1>1. /\ Window \in Nat /\ Horizon \in Nat /\ Horizon > Window
      /\ n \in Nat /\ DOMAIN w = 1..n /\ \A i \in 1..n : w[i] \in 0..Horizon
  BY RateConstants, LenProperties, ElementOfSeq
<1>2. \A i \in 1..n : /\ v[i] = Older(w[i]) /\ v[i] \in 0..Horizon
                      /\ v[i] <= Window <=> w[i] <= Window - 1
                      /\ v[i] <= Window => w[i] = v[i] - 1 /\ v[i] \in 1..Window
  BY <1>1 DEF Aging, Older
<1>3. v \in Seq(0..Horizon) /\ Len(v) = n
  <2>1. v \in [1..n -> 0..Horizon]
    BY <1>1, <1>2 DEF Aging
  <2> HIDE DEF v, n
  <2> QED
    BY <1>1, <2>1, LenProperties, SeqDef
<1>4. Sorted(v)
  <2> SUFFICES ASSUME NEW i \in 1..n, NEW j \in 1..n, i <= j PROVE v[j] <= v[i]
    BY <1>3 DEF Sorted
  <2>1. w[j] <= w[i] /\ w[i] \in 0..Horizon /\ w[j] \in 0..Horizon
    BY <1>1 DEF Sorted
  <2> QED
    BY <1>1, <1>2, <2>1 DEF Older
<1>5. q \in [0..Window -> Nat] /\ q[0] = 0 /\ \A age \in 1..Window : q[age] = p[age - 1]
  BY <1>1 DEF Shifted
<1> HIDE DEF v, q
<1>6. Fresh(v) = {i \in 1..n : w[i] <= Window - 1} /\ Fresh(v) \subseteq Fresh(w)
  BY <1>1, <1>2, <1>3 DEF Fresh
<1>7. PICK f : Finds(f, w, p)
  BY DEF Recorded
<1> DEFINE Then(r) == <<r[1] - 1, r[2]>>
           g == [r \in RecentOf(q) |-> f[Then(r)]]
<1>8. ASSUME NEW r \in RecentOf(q)
      PROVE  /\ Then(r) \in RecentOf(p) /\ r[1] \in 1..Window /\ r = <<r[1], r[2]>>
             /\ Then(r)[1] = r[1] - 1 /\ Then(r)[2] = r[2]
  <2>1. r[1] \in 0..Window /\ r[2] \in 1..q[r[1]] /\ r = <<r[1], r[2]>>
    BY InRecent
  <2>2. r[1] # 0
    BY <1>5, <2>1
  <2>3. r[1] \in 1..Window /\ r[1] - 1 \in 0..Window /\ r[2] \in 1..p[r[1] - 1]
    BY <1>1, <1>5, <2>1, <2>2
  <2> QED
    BY <2>1, <2>3, InRecent
<1>9. ASSUME NEW s \in RecentOf(p), s[1] <= Window - 1 PROVE \E r \in RecentOf(q) : Then(r) = s
  <2>1. s[1] \in 0..Window /\ s[2] \in 1..p[s[1]] /\ s = <<s[1], s[2]>>
    BY InRecent
  <2>2. s[1] + 1 \in 1..Window /\ s[1] + 1 \in 0..Window /\ (s[1] + 1) - 1 = s[1]
    BY <1>1, <1>9, <2>1
  <2>3. s[2] \in 1..q[s[1] + 1]
    BY <1>5, <2>1, <2>2
  <2>4. <<s[1] + 1, s[2]>> \in RecentOf(q)
    BY <2>2, <2>3, InRecent
  <2>5. Then(<<s[1] + 1, s[2]>>) = s
    BY <2>1, <2>2
  <2> QED
    BY <2>4, <2>5
<1>10. \A r \in RecentOf(q) : f[Then(r)] \in Fresh(w) /\ w[f[Then(r)]] = r[1] - 1
  BY <1>7, <1>8 DEF Finds
<1>11. \A r \in RecentOf(q) : f[Then(r)] \in Fresh(v)
  <2> SUFFICES ASSUME NEW r \in RecentOf(q) PROVE f[Then(r)] \in Fresh(v)
    OBVIOUS
  <2>1. f[Then(r)] \in 1..n /\ w[f[Then(r)]] = r[1] - 1 /\ r[1] \in 1..Window
    BY <1>8, <1>10 DEF Fresh
  <2> HIDE DEF Then
  <2> QED
    BY <1>1, <1>6, <2>1
<1>12. g \in [RecentOf(q) -> Fresh(v)]
  BY <1>11
<1>13. ASSUME NEW r \in RecentOf(q), NEW s \in RecentOf(q), g[r] = g[s] PROVE r = s
  <2>1. Then(r) = Then(s)
    BY <1>7, <1>8, <1>13 DEF Finds
  <2>2. r[1] - 1 = s[1] - 1 /\ r[2] = s[2]
    BY <1>8, <2>1
  <2>3. r[1] = s[1]
    <3>1. \A a, b \in 1..Window : a - 1 = b - 1 => a = b
      BY <1>1
    <3> HIDE DEF Then, g
    <3> QED
      BY <1>8, <2>2, <3>1
  <2>4. r = <<r[1], r[2]>> /\ s = <<s[1], s[2]>>
    BY <1>8
  <2> QED
    BY <2>2, <2>3, <2>4
<1>14. ASSUME NEW i \in Fresh(v) PROVE \E r \in RecentOf(q) : g[r] = i
  <2>1. i \in Fresh(w) /\ w[i] <= Window - 1
    BY <1>6
  <2>2. PICK s \in RecentOf(p) : f[s] = i
    BY <1>7, <2>1 DEF Finds
  <2>3. s[1] <= Window - 1
    BY <1>7, <2>1, <2>2 DEF Finds
  <2>4. PICK r \in RecentOf(q) : Then(r) = s
    BY <1>9, <2>3
  <2> QED
    BY <2>2, <2>4
<1>15. ASSUME NEW r \in RecentOf(q) PROVE v[g[r]] = r[1]
  <2>1. g[r] = f[Then(r)] /\ f[Then(r)] \in 1..n /\ v[f[Then(r)]] <= Window
    BY <1>3, <1>11 DEF Fresh
  <2>2. w[f[Then(r)]] = r[1] - 1 /\ r[1] \in 1..Window
    BY <1>8, <1>10
  <2> HIDE DEF g, Then
  <2> QED
    BY <1>1, <1>2, <2>1, <2>2
<1> HIDE DEF g
<1>16. Recorded(v, q)
  <2>1. Finds(g, v, q)
    BY <1>12, <1>13, <1>14, <1>15 DEF Finds
  <2> QED
    BY <2>1 DEF Recorded
<1> QED
  BY <1>3, <1>4, <1>5, <1>16 DEF v, q

-----------------------------------------------------------------------------
(* The rate limiter *)

\* The inductive invariant of the rate limiter: its map, its queue and its
\* buckets, and the window in order and recorded in the history.
RateInv ==
  /\ window \in Seq(0..Horizon) /\ Sorted(window) /\ Len(window) <= WindowLimit
  /\ bucket \in Bucket(GlobalCapacity)
  /\ Bounded(perIp, order)
  /\ at \in [Caller -> {"idle", "passed", "granted", "limited"}]
  /\ passes \in [0..Window -> Nat] /\ Recorded(window, passes)

\* The queue and the map are in step.
LEMMA RateInvTracks == RateInv => TrackingExact
BY DEF RateInv, TrackingExact, TypeOK, Bounded, Queues

\* The window lets no more pass than its limit.
LEMMA RateInvWindow == RateInv => WindowHolds
<1> SUFFICES ASSUME RateInv PROVE WindowHolds
  OBVIOUS
<1>1. /\ Cardinality(RecentOf(passes)) = Cardinality(Fresh(window))
      /\ Cardinality(Fresh(window)) \in Nat /\ Cardinality(Fresh(window)) <= Len(window)
  BY RecordedCount DEF RateInv
<1>2. Len(window) \in Nat /\ Len(window) <= WindowLimit /\ WindowLimit \in Nat
  BY RateConstants, LenProperties DEF RateInv
<1>3. RecentOf(passes) = Recent
  BY DEF RecentOf, Recent
<1> QED
  BY <1>1, <1>2, <1>3 DEF WindowHolds

\* It holds when the server starts.
LEMMA RateInit == HInit => RateInv
<1> SUFFICES ASSUME HInit PROVE RateInv
  OBVIOUS
<1>1. /\ window = <<>> /\ bucket = Full(GlobalCapacity)
      /\ perIp = [ip \in {} |-> Full(PerIpCapacity)] /\ order = <<>>
      /\ at = [c \in Caller |-> "idle"] /\ passes = [age \in 0..Window |-> 0]
  BY DEF HInit, ChainInit, Init
<1>2. <<>> \in Seq(0..Horizon) /\ Len(<<>>) = 0 /\ <<>> \in Seq(Ip) /\ ToSet(<<>>) = {}
  BY EmptySeq DEF ToSet
<1>3. Sorted(<<>>) /\ Fresh(<<>>) = {}
  BY <1>2 DEF Sorted, Fresh
<1>4. IsInjective(<<>>)
  <2>1. DOMAIN <<>> = {}
    BY <1>2, LenProperties
  <2> QED
    BY <2>1 DEF IsInjective
<1>5. RecentOf(passes) = {}
  <2>1. ASSUME NEW r \in RecentOf(passes) PROVE FALSE
    <3>1. r[1] \in 0..Window /\ r[2] \in 1..passes[r[1]]
      BY InRecent
    <3>2. passes[r[1]] = 0
      BY <1>1, <3>1
    <3> QED
      BY <3>1, <3>2
  <2> QED
    BY <2>1
<1>6. Recorded(<<>>, passes)
  <2> DEFINE f == [r \in {} |-> 0]
  <2>1. f \in [{} -> {}]
    OBVIOUS
  <2>2. Finds(f, <<>>, passes)
    BY <1>3, <1>5, <2>1 DEF Finds
  <2> QED
    BY <2>2 DEF Recorded
<1>7. Bounded(perIp, order)
  <2>1. DOMAIN perIp = {} /\ perIp \in [{} -> Bucket(PerIpCapacity)]
    BY <1>1
  <2>2. Cardinality({}) = 0 /\ 0 <= Room
    BY FS_EmptySet, RateConstants DEF Room
  <2>3. Queues(order, {})
    BY <1>1, <1>2, <1>4 DEF Queues
  <2> QED
    BY <2>1, <2>2, <2>3 DEF Bounded
<1>8. bucket \in Bucket(GlobalCapacity)
  BY <1>1, FullBucket, RateConstants
<1>9. passes \in [0..Window -> Nat] /\ at \in [Caller -> {"idle", "passed", "granted", "limited"}]
  BY <1>1
<1> QED
  BY <1>1, <1>2, <1>3, <1>6, <1>7, <1>8, <1>9, RateConstants DEF RateInv

\* What HStep does to passes.
Counting == passes' = IF Entering THEN [passes EXCEPT ![0] = @ + 1] ELSE passes

\* A request that is given a place in the window is the only one that enters.
LEMMA EnterStep ==
  ASSUME RateInv, NEW c \in Caller, EnterWindow(c), Counting
  PROVE  RateInv'
<1>1. /\ window' = Append(Pruned, 0) /\ Len(Pruned) < WindowLimit
      /\ at[c] = "idle" /\ at' = [at EXCEPT ![c] = "passed"]
      /\ UNCHANGED <<bucket, perIp, order>>
  BY DEF EnterWindow, Return
<1>2. /\ Pruned \in Seq(0..Horizon) /\ Sorted(Pruned) /\ Recorded(Pruned, passes)
  BY PrunedRecorded DEF RateInv
<1>3. Entering
  BY <1>1 DEF Entering, RateInv
<1>4. passes' = [passes EXCEPT ![0] = @ + 1]
  BY <1>3 DEF Counting
<1>5. /\ window' \in Seq(0..Horizon) /\ Sorted(window') /\ Len(window') = Len(Pruned) + 1
      /\ passes' \in [0..Window -> Nat] /\ Recorded(window', passes')
  BY <1>1, <1>2, <1>4, EnterRecorded DEF RateInv
<1>6. Len(window') <= WindowLimit
  BY <1>1, <1>2, <1>5, LenProperties, RateConstants
<1>7. at' \in [Caller -> {"idle", "passed", "granted", "limited"}]
  BY <1>1 DEF RateInv
<1> QED
  BY <1>1, <1>5, <1>6, <1>7 DEF RateInv

\* Nobody enters when it is not from idle to passed.
LEMMA NobodyEnters ==
  ASSUME RateInv, NEW c \in Caller, NEW place, at' = [at EXCEPT ![c] = place],
         at[c] # "idle" \/ place # "passed", Counting
  PROVE  passes' = passes
<1>1. ~Entering
  BY DEF Entering, RateInv
<1> QED
  BY <1>1 DEF Counting

\* Of a full window only the requests go that are too old.
LEMMA FullStep ==
  ASSUME RateInv, NEW c \in Caller, WindowFull(c), Counting
  PROVE  RateInv'
<1>1. /\ window' = Pruned /\ at' = [at EXCEPT ![c] = "limited"] /\ UNCHANGED <<bucket, perIp, order>>
  BY DEF WindowFull, Return
<1>2. passes' = passes
  BY <1>1, NobodyEnters
<1>3. /\ Pruned \in Seq(0..Horizon) /\ Sorted(Pruned) /\ Recorded(Pruned, passes)
      /\ Len(Pruned) <= Len(window)
  BY PrunedRecorded DEF RateInv
<1>4. Len(Pruned) <= WindowLimit
  BY <1>3, LenProperties, RateConstants DEF RateInv
<1>5. at' \in [Caller -> {"idle", "passed", "granted", "limited"}]
  BY <1>1 DEF RateInv
<1> QED
  BY <1>1, <1>2, <1>3, <1>4, <1>5 DEF RateInv

\* The common bucket is empty.
LEMMA EmptyStep ==
  ASSUME RateInv, NEW c \in Caller, GlobalEmpty(c), Counting
  PROVE  RateInv'
<1>1. /\ bucket' = Allow(bucket, GlobalCapacity, GlobalRefill) /\ at[c] = "passed"
      /\ at' = [at EXCEPT ![c] = "limited"] /\ UNCHANGED <<window, perIp, order>>
  BY DEF GlobalEmpty, Return
<1>2. passes' = passes
  BY <1>1, NobodyEnters
<1>3. bucket' \in Bucket(GlobalCapacity)
  BY <1>1, AfterAllow, RateConstants DEF RateInv
<1>4. at' \in [Caller -> {"idle", "passed", "granted", "limited"}]
  BY <1>1 DEF RateInv
<1> QED
  BY <1>1, <1>2, <1>3, <1>4 DEF RateInv

\* Who asks has an address.
LEMMA IpType == \A c \in Caller : IpOf[c] \in Ip
BY RateAssumption

\* The answer of an address's bucket.
LEMMA PerIpStep ==
  ASSUME RateInv, NEW c \in Caller, AskPerIp(c), Counting
  PROVE  RateInv'
<1> DEFINE ip == IpOf[c]
           t  == Tracking(ip)
           place == IF Allows(t.map[ip], PerIpCapacity, PerIpRefill) THEN "granted" ELSE "limited"
<1>1. /\ bucket' = Allow(bucket, GlobalCapacity, GlobalRefill) /\ at[c] = "passed"
      /\ perIp' = [t.map EXCEPT ![ip] = Allow(t.map[ip], PerIpCapacity, PerIpRefill)]
      /\ order' = t.order /\ at' = [at EXCEPT ![c] = place] /\ window' = window
  BY DEF AskPerIp, Return
<1>2. passes' = passes
  BY <1>1, NobodyEnters
<1>3. bucket' \in Bucket(GlobalCapacity)
  BY <1>1, AfterAllow, RateConstants DEF RateInv
<1>4. at' \in [Caller -> {"idle", "passed", "granted", "limited"}]
  BY <1>1 DEF RateInv
<1>5. ip \in Ip /\ Bounded(t.map, t.order) /\ ip \in DOMAIN t.map
  BY IpType, TrackingIs DEF RateInv
<1> HIDE DEF t, ip
<1>6. Bounded(perIp', order')
  <2>1. t.map \in [DOMAIN t.map -> Bucket(PerIpCapacity)] /\ t.map[ip] \in Bucket(PerIpCapacity)
    BY <1>5 DEF Bounded
  <2>2. Allow(t.map[ip], PerIpCapacity, PerIpRefill) \in Bucket(PerIpCapacity)
    BY <2>1, AfterAllow, RateConstants
  <2>3. DOMAIN perIp' = DOMAIN t.map /\ perIp' \in [DOMAIN t.map -> Bucket(PerIpCapacity)]
    BY <1>1, <2>1, <2>2
  <2> QED
    BY <1>1, <1>5, <2>3 DEF Bounded
<1> QED
  BY <1>1, <1>2, <1>3, <1>4, <1>6 DEF RateInv

\* Each step of allow.
LEMMA AskingStep ==
  ASSUME RateInv, NEW c \in Caller, Asking(c), Counting
  PROVE  RateInv'
<1>1. ASSUME Done(c) PROVE RateInv'
  <2>1. at' = [at EXCEPT ![c] = "idle"] /\ UNCHANGED <<window, bucket, perIp, order>>
    BY <1>1 DEF Done, Return
  <2>2. passes' = passes
    BY <2>1, NobodyEnters
  <2> QED
    BY <2>1, <2>2 DEF RateInv
<1> QED
  BY <1>1, EnterStep, FullStep, EmptyStep, PerIpStep DEF Asking

\* A step that leaves the rate limiter alone.
LEMMA RateUnchanged ==
  ASSUME RateInv, UNCHANGED rate, Counting \/ UNCHANGED passes
  PROVE  RateInv' /\ UNCHANGED passes
<1>1. UNCHANGED <<window, bucket, perIp, order, at>>
  BY DEF rate
<1>2. ~Entering
  BY <1>1 DEF Entering, RateInv
<1>3. UNCHANGED passes
  BY <1>2 DEF Counting
<1> QED
  BY <1>1, <1>3 DEF RateInv

\* Time passes for the window, the buckets and the history alike.
LEMMA RateTick ==
  ASSUME RateInv, Tick, passes' = Shifted(passes)
  PROVE  RateInv'
<1>1. /\ window' = Aging(window) /\ bucket' = Aged(bucket)
      /\ perIp' = [ip \in DOMAIN perIp |-> Aged(perIp[ip])] /\ UNCHANGED <<order, at>>
  BY DEF Tick, Aging, Aged
<1>2. /\ window' \in Seq(0..Horizon) /\ Sorted(window') /\ Len(window') = Len(window)
      /\ passes' \in [0..Window -> Nat] /\ Recorded(window', passes')
  BY <1>1, TickRecorded DEF RateInv
<1>3. /\ \A b \in Bucket(GlobalCapacity) : Aged(b) \in Bucket(GlobalCapacity)
      /\ \A b \in Bucket(PerIpCapacity) : Aged(b) \in Bucket(PerIpCapacity)
  BY AfterTick, RateConstants, RateAssumption
<1>4. Bounded(perIp', order')
  <2>1. DOMAIN perIp' = DOMAIN perIp /\ perIp' \in [DOMAIN perIp -> Bucket(PerIpCapacity)]
    BY <1>1, <1>3 DEF RateInv, Bounded
  <2> QED
    BY <1>1, <2>1 DEF RateInv, Bounded
<1>5. bucket' \in Bucket(GlobalCapacity)
  BY <1>1, <1>3 DEF RateInv
<1> QED
  BY <1>1, <1>2, <1>4, <1>5 DEF RateInv

-----------------------------------------------------------------------------
(* The meters that the buckets implement *)

\* What the meters show.
Shown == <<Used, [ip \in Ip |-> UsedBy(ip)], DOMAIN perIp>>

\* The instance's sets are the module's.
LEMMA MeterCardinality == \A S : Meter!Cardinality(S) = Cardinality(S)
BY DEF Meter!Cardinality, Cardinality

\* What is used of an address that is tracked, as a number.
LEMMA UsedType ==
  ASSUME RateInv
  PROVE  /\ Used \in Nat /\ Used = GlobalCapacity * Token - Available(bucket, GlobalCapacity, GlobalRefill)
         /\ \A ip \in Ip : UsedBy(ip) \in Nat
<1>1. Available(bucket, GlobalCapacity, GlobalRefill) \in 0..(GlobalCapacity * Token)
  BY AvailableType, RateConstants DEF RateInv
<1>2. \A ip \in DOMAIN perIp : Available(perIp[ip], PerIpCapacity, PerIpRefill) \in 0..(PerIpCapacity * Token)
  BY AvailableType, RateConstants DEF RateInv, Bounded
<1> QED
  BY <1>1, <1>2, RateConstants DEF Used, UsedBy

\* A full bucket in which nothing is used is as good as none.
LEMMA UsedByIs ==
  \A ip : UsedBy(ip) =
    PerIpCapacity * Token -
      Available(IF ip \in DOMAIN perIp THEN perIp[ip] ELSE Full(PerIpCapacity), PerIpCapacity, PerIpRefill)
<1>1. /\ Available(Full(PerIpCapacity), PerIpCapacity, PerIpRefill) = PerIpCapacity * Token
      /\ PerIpCapacity * Token \in Nat
  BY FullBucket, RateConstants
<1> QED
  BY <1>1 DEF UsedBy

\* The meters drain as time passes.
LEMMA MeterTick == ASSUME RateInv, Tick PROVE Meter!Tick
<1>1. /\ bucket' = Aged(bucket) /\ DOMAIN perIp' = DOMAIN perIp
      /\ \A ip \in DOMAIN perIp : perIp'[ip] = Aged(perIp[ip])
  BY DEF Tick, Aged
<1>2. /\ GlobalRefill > 0 => Horizon * GlobalRefill >= GlobalCapacity * Token
      /\ PerIpRefill > 0 => Horizon * PerIpRefill >= PerIpCapacity * Token
  BY RateAssumption
<1>3. Used' = Meter!Drained(Used, GlobalRefill)
  BY <1>1, <1>2, AfterTick, RateConstants DEF Used, RateInv
<1>4. ASSUME NEW ip \in Ip PROVE UsedBy(ip)' = Meter!Drained(UsedBy(ip), PerIpRefill)
  <2>1. CASE ip \notin DOMAIN perIp
    <3>1. Meter!Drained(0, PerIpRefill) = 0
      BY RateConstants DEF Meter!Drained
    <3> QED
      BY <1>1, <2>1, <3>1 DEF UsedBy
  <2>2. CASE ip \in DOMAIN perIp
    <3>1. perIp[ip] \in Bucket(PerIpCapacity)
      BY <2>2 DEF RateInv, Bounded
    <3> QED
      BY <1>1, <1>2, <2>2, <3>1, AfterTick, RateConstants DEF UsedBy
  <2> QED
    BY <2>1, <2>2
<1>5. [ip \in Ip |-> UsedBy(ip)]' = [ip \in Ip |-> Meter!Drained([i \in Ip |-> UsedBy(i)][ip], PerIpRefill)]
  BY <1>4
<1> QED
  BY <1>1, <1>3, <1>5 DEF Meter!Tick

\* A bucket that gives nothing only catches up with its meter.
LEMMA MeterEmpty == ASSUME RateInv, NEW c \in Caller, GlobalEmpty(c) PROVE UNCHANGED Shown
<1>1. /\ ~Allows(bucket, GlobalCapacity, GlobalRefill) /\ UNCHANGED perIp
      /\ bucket' = Allow(bucket, GlobalCapacity, GlobalRefill)
  BY DEF GlobalEmpty
<1>2. Available(bucket', GlobalCapacity, GlobalRefill) = Available(bucket, GlobalCapacity, GlobalRefill)
  BY <1>1, AfterAllow, AvailableType, RateConstants DEF RateInv
<1>3. Used' = Used
  BY <1>2 DEF Used
<1>4. \A ip \in Ip : UsedBy(ip)' = UsedBy(ip)
  BY <1>1 DEF UsedBy
<1> QED
  BY <1>1, <1>3, <1>4 DEF Shown

\* A request that has passed the window is weighed by both meters, or by the
\* common one only.
LEMMA MeterRequest == ASSUME RateInv, NEW c \in Caller, AskPerIp(c) PROVE Meter!Next
<1> DEFINE ip   == IpOf[c]
           t    == Tracking(ip)
           room == PerIpCapacity * Token
           gain == IF Allows(t.map[ip], PerIpCapacity, PerIpRefill) THEN Token ELSE 0
<1>1. /\ bucket' = Allow(bucket, GlobalCapacity, GlobalRefill)
      /\ Allows(bucket, GlobalCapacity, GlobalRefill)
      /\ perIp' = [t.map EXCEPT ![ip] = Allow(t.map[ip], PerIpCapacity, PerIpRefill)]
  BY DEF AskPerIp
<1>2. ip \in Ip
  BY IpType
<1>3. PICK gone \in SUBSET DOMAIN perIp :
        /\ gone = {} \/ \E old \in Ip : gone = {old}
        /\ ip \notin gone
        /\ gone # {} => ip \notin DOMAIN perIp /\ Cardinality(DOMAIN perIp) >= Room
        /\ Bounded(t.map, t.order)
        /\ DOMAIN t.map = (DOMAIN perIp \ gone) \cup {ip}
        /\ t.map[ip] = IF ip \in DOMAIN perIp THEN perIp[ip] ELSE Full(PerIpCapacity)
        /\ \A i \in DOMAIN perIp \ (gone \cup {ip}) : t.map[i] = perIp[i]
  BY <1>2, TrackingIs DEF RateInv
<1> HIDE DEF t
<1>4. t.map[ip] \in Bucket(PerIpCapacity)
  BY <1>3 DEF Bounded
<1>5. /\ DOMAIN perIp' = (DOMAIN perIp \ gone) \cup {ip}
      /\ perIp'[ip] = Allow(t.map[ip], PerIpCapacity, PerIpRefill)
      /\ \A i \in DOMAIN perIp \ (gone \cup {ip}) : perIp'[i] = perIp[i]
  BY <1>1, <1>3
<1>6. Used + Token <= GlobalCapacity * Token /\ Used' = Used + Token
  <2>1. /\ Available(bucket, GlobalCapacity, GlobalRefill) \in 0..(GlobalCapacity * Token)
        /\ Available(bucket, GlobalCapacity, GlobalRefill) >= Token
    BY <1>1, AvailableType, RateConstants DEF RateInv, Allows
  <2>2. Available(bucket', GlobalCapacity, GlobalRefill) = Available(bucket, GlobalCapacity, GlobalRefill) - Token
    BY <1>1, AfterAllow, RateConstants DEF RateInv
  <2> QED
    BY <2>1, <2>2, RateConstants DEF Used
<1>7. gain \in {0, Token} /\ UsedBy(ip) + gain <= room /\ UsedBy(ip)' = UsedBy(ip) + gain
  <2> DEFINE now == Available(t.map[ip], PerIpCapacity, PerIpRefill)
  <2>1. UsedBy(ip) = room - now
    BY <1>3, UsedByIs
  <2>2. now \in 0..room /\ room \in Nat /\ (Allows(t.map[ip], PerIpCapacity, PerIpRefill) <=> now >= Token)
    BY <1>4, AvailableType, RateConstants DEF Allows
  <2>3. Available(perIp'[ip], PerIpCapacity, PerIpRefill) = now - gain
    BY <1>4, <1>5, AfterAllow, RateConstants
  <2>4. UsedBy(ip)' = room - (now - gain)
    BY <1>5, <2>3 DEF UsedBy
  <2> HIDE DEF now, room
  <2> QED
    BY <2>1, <2>2, <2>4, RateConstants
<1>8. \A i \in Ip \ {ip} : UsedBy(i)' = IF i \in gone THEN 0 ELSE UsedBy(i)
  BY <1>3, <1>5 DEF UsedBy
<1> HIDE DEF gain, room
<1>9. Meter!Request(ip, gone, gain)
  <2>1. Meter!Cardinality(gone) <= 1
    <3>1. Cardinality({}) = 0 /\ \A old : Cardinality({old}) = 1
      BY FS_EmptySet, FS_Singleton
    <3> QED
      BY <1>3, <3>1, MeterCardinality
  <2>2. gone # {} => ip \notin DOMAIN perIp /\ Meter!Cardinality(DOMAIN perIp) >= Room
    BY <1>3, MeterCardinality
  <2>3. [i \in Ip |-> UsedBy(i)]' =
          [i \in Ip |-> IF i = ip THEN [j \in Ip |-> UsedBy(j)][ip] + gain
                        ELSE IF i \in gone THEN 0 ELSE [j \in Ip |-> UsedBy(j)][i]]
    BY <1>2, <1>7, <1>8
  <2> HIDE DEF ip
  <2> QED
    BY <1>2, <1>3, <1>5, <1>6, <1>7, <2>1, <2>2, <2>3 DEF Meter!Request, room
<1> HIDE DEF ip
<1>10. CASE gone = {}
  <2>1. Meter!Request(ip, {}, gain)
    BY <1>9, <1>10
  <2> QED
    BY <1>2, <1>7, <2>1 DEF Meter!Next
<1>11. CASE \E old \in Ip : gone = {old}
  <2>1. \E old \in Ip : Meter!Request(ip, {old}, gain)
    BY <1>9, <1>11
  <2> QED
    BY <1>2, <1>7, <2>1 DEF Meter!Next
<1> QED
  BY <1>3, <1>10, <1>11

\* The other steps leave the buckets alone.
LEMMA MeterAsking == ASSUME RateInv, NEW c \in Caller, Asking(c) PROVE Meter!Next \/ UNCHANGED Shown
<1>1. ASSUME UNCHANGED <<bucket, perIp>> PROVE UNCHANGED Shown
  BY <1>1 DEF Shown, Used, UsedBy
<1>2. EnterWindow(c) \/ WindowFull(c) \/ Done(c) => UNCHANGED <<bucket, perIp>>
  BY DEF EnterWindow, WindowFull, Done
<1> QED
  BY <1>1, <1>2, MeterEmpty, MeterRequest DEF Asking

\* The meters start empty.
LEMMA MeterInit == HInit => Meter!Init
<1> SUFFICES ASSUME HInit PROVE Meter!Init
  OBVIOUS
<1>1. bucket = Full(GlobalCapacity) /\ DOMAIN perIp = {}
  BY DEF HInit, ChainInit, Init
<1>2. Used = 0
  BY <1>1, FullBucket, RateConstants DEF Used
<1>3. \A ip \in Ip : UsedBy(ip) = 0
  BY <1>1 DEF UsedBy
<1> QED
  BY <1>1, <1>2, <1>3 DEF Meter!Init

\* A refusal by allow has its reason: see LimitedOnlyWhenSpent.
Spent(c) ==
  at'[c] = "limited" =>
    /\ at[c] = "idle" => Cardinality(Recent) = WindowLimit
    /\ at[c] = "passed" => \/ Used + Token > GlobalCapacity * Token
                           \/ UsedBy(IpOf[c]) + Token > PerIpCapacity * Token

\* A full window holds nothing but requests that count.
LEMMA FullIsSpent == ASSUME RateInv, NEW c \in Caller, WindowFull(c) PROVE Cardinality(Recent) = WindowLimit
<1>1. Len(Pruned) >= WindowLimit
  BY DEF WindowFull
<1>2. /\ Pruned \in Seq(0..Horizon) /\ Len(Pruned) = Cardinality(Fresh(window)) /\ Len(Pruned) <= Len(window)
  BY PrunedRecorded DEF RateInv
<1>3. Cardinality(RecentOf(passes)) = Cardinality(Fresh(window))
  BY RecordedCount DEF RateInv
<1>4. RecentOf(passes) = Recent
  BY DEF RecentOf, Recent
<1>5. Len(window) <= WindowLimit /\ Len(window) \in Nat /\ Len(Pruned) \in Nat /\ WindowLimit \in Nat
  BY <1>2, LenProperties, RateConstants DEF RateInv
<1> QED
  BY <1>1, <1>2, <1>3, <1>4, <1>5

\* An address's own bucket refuses when that address has used it up.
LEMMA PerIpIsSpent ==
  ASSUME RateInv, NEW c \in Caller, AskPerIp(c), at'[c] = "limited"
  PROVE  UsedBy(IpOf[c]) + Token > PerIpCapacity * Token
<1> DEFINE ip  == IpOf[c]
           own == Tracking(ip).map[ip]
           now == Available(own, PerIpCapacity, PerIpRefill)
<1>1. at' = [at EXCEPT ![c] = IF Allows(own, PerIpCapacity, PerIpRefill) THEN "granted" ELSE "limited"]
  BY DEF AskPerIp, Return
<1>2. ~Allows(own, PerIpCapacity, PerIpRefill)
  BY <1>1 DEF RateInv
<1>3. /\ own = IF ip \in DOMAIN perIp THEN perIp[ip] ELSE Full(PerIpCapacity)
      /\ own \in Bucket(PerIpCapacity)
  <2>1. ip \in Ip
    BY IpType
  <2>2. own = IF ip \in DOMAIN perIp THEN perIp[ip] ELSE Full(PerIpCapacity)
    BY <2>1, TrackingIs DEF RateInv
  <2>3. Full(PerIpCapacity) \in Bucket(PerIpCapacity)
    BY FullBucket, RateConstants
  <2> QED
    BY <2>2, <2>3 DEF RateInv, Bounded
<1> HIDE DEF own
<1>4. UsedBy(ip) = PerIpCapacity * Token - now
  BY <1>3, UsedByIs
<1>5. now \in 0..(PerIpCapacity * Token) /\ ~(now >= Token)
  BY <1>2, <1>3, AvailableType, RateConstants DEF Allows
<1> HIDE DEF now
<1> QED
  BY <1>4, <1>5, RateConstants

\* Each refusal, of whichever caller, is justified.
LEMMA AskingSpent == ASSUME RateInv, NEW c \in Caller, Asking(c) PROVE \A d \in Caller : Spent(d)
<1> SUFFICES ASSUME NEW d \in Caller, at'[d] = "limited"
             PROVE  /\ at[d] = "idle" => Cardinality(Recent) = WindowLimit
                    /\ at[d] = "passed" => \/ Used + Token > GlobalCapacity * Token
                                           \/ UsedBy(IpOf[d]) + Token > PerIpCapacity * Token
  BY DEF Spent
<1>1. PICK place : at' = [at EXCEPT ![c] = place]
  BY DEF Asking, EnterWindow, WindowFull, GlobalEmpty, AskPerIp, Done, Return
<1>2. CASE d # c
  BY <1>1, <1>2 DEF RateInv
<1>3. CASE d = c
  <2>1. CASE EnterWindow(c) \/ Done(c)
    BY <1>3, <2>1 DEF EnterWindow, Done, Return, RateInv
  <2>2. CASE WindowFull(c)
    BY <1>3, <2>2, FullIsSpent DEF WindowFull
  <2>3. CASE GlobalEmpty(c)
    <3>1. at[c] = "passed" /\ ~(Available(bucket, GlobalCapacity, GlobalRefill) >= Token)
      BY <2>3 DEF GlobalEmpty, Allows
    <3>2. Available(bucket, GlobalCapacity, GlobalRefill) \in 0..(GlobalCapacity * Token)
      BY AvailableType, RateConstants DEF RateInv
    <3>3. Used + Token > GlobalCapacity * Token
      BY <3>1, <3>2, RateConstants DEF Used
    <3> QED
      BY <1>3, <3>1, <3>3
  <2>4. CASE AskPerIp(c)
    BY <1>3, <2>4, PerIpIsSpent DEF AskPerIp
  <2> QED
    BY <2>1, <2>2, <2>3, <2>4 DEF Asking
<1> QED
  BY <1>2, <1>3

-----------------------------------------------------------------------------
(* BoundedActivityMap: the map and the queue of mentions *)

Mention == Caller \X (Nat \ {0})
Entry == [seen : Loris!Ages, seq : Nat \ {0}]

\* A map of entries and a queue of mentions.
Typed(m, q) ==
  /\ DOMAIN m \subseteq Caller /\ m \in [DOMAIN m -> Entry]
  /\ q \in Seq(Mention)

\* The positions in the queue that count.
Live(m, q) == {i \in 1..Len(q) : Loris!IsLive(m, q[i])}

\* The live mention of x is ahead of that of y.
Leads(m, q, x, y) == \E i, j \in Live(m, q) : i < j /\ q[i][1] = x /\ q[j][1] = y

\* Each entry has one live mention.
Keyed(m, q) ==
  /\ Typed(m, q)
  /\ \A a \in DOMAIN m : \E i \in Live(m, q) : q[i][1] = a
  /\ \A x \in Caller : ~Leads(m, q, x, x)

\* The instance's operators are the module's.
LEMMA LorisCardinality == \A S : Loris!Cardinality(S) = Cardinality(S)
BY DEF Loris!Cardinality, Cardinality

\* What is left of a map.
LEMMA RestrictIs ==
  ASSUME NEW m, NEW D \in SUBSET DOMAIN m
  PROVE  /\ Loris!Restrict(m, D) = [x \in D |-> m[x]]
         /\ DOMAIN Loris!Restrict(m, D) = D /\ \A x \in D : Loris!Restrict(m, D)[x] = m[x]
BY DEF Loris!Restrict

\* The sizes are natural numbers, with room for one connection.
LEMMA LorisConstants ==
  /\ IsFiniteSet(Caller) /\ MaxIdle \in Nat
  /\ Loris!Room \in Nat /\ Loris!Room >= 1
  /\ Loris!OrderThreshold \in Nat /\ Loris!OrderThreshold >= Loris!Room
<1>1. /\ IsFiniteSet(Caller) /\ MaxIdle \in Nat /\ MaxConnections \in Nat
      /\ OrderFactor \in Nat \ {0} /\ OrderFloor \in Nat \ {0}
  BY RateAssumption, ChainAssumption
<1>2. Loris!Room \in Nat /\ Loris!Room >= 1
  BY <1>1 DEF Loris!Room
<1>3. \A n \in Nat : OrderFactor * n \in Nat /\ OrderFactor * n >= n
  BY <1>1
<1>4. Loris!OrderThreshold \in Nat /\ Loris!OrderThreshold >= Loris!Room
  BY <1>1, <1>2, <1>3 DEF Loris!OrderThreshold
<1> QED
  BY <1>1, <1>2, <1>4

\* What a mention and an entry are.
LEMMA TypedParts ==
  ASSUME NEW m, NEW q, Typed(m, q)
  PROVE  /\ Len(q) \in Nat /\ DOMAIN q = 1..Len(q)
         /\ \A i \in 1..Len(q) : q[i] \in Mention /\ q[i][1] \in Caller /\ q[i][2] \in Nat \ {0}
                                 /\ q[i] = <<q[i][1], q[i][2]>>
         /\ \A a \in DOMAIN m : m[a] \in Entry /\ m[a].seq \in Nat \ {0} /\ m[a].seen \in Loris!Ages
         /\ IsFiniteSet(DOMAIN m) /\ Cardinality(DOMAIN m) \in Nat
<1>1. Len(q) \in Nat /\ DOMAIN q = 1..Len(q)
  BY LenProperties DEF Typed
<1>2. \A i \in 1..Len(q) : q[i] \in Mention
  BY <1>1, ElementOfSeq DEF Typed
<1>3. \A x \in Mention : x[1] \in Caller /\ x[2] \in Nat \ {0} /\ x = <<x[1], x[2]>>
  BY DEF Mention
<1>4. \A a \in DOMAIN m : m[a] \in Entry /\ m[a].seq \in Nat \ {0} /\ m[a].seen \in Loris!Ages
  BY DEF Typed, Entry
<1>5. IsFiniteSet(DOMAIN m) /\ Cardinality(DOMAIN m) \in Nat
  BY LorisConstants, FS_Subset, FS_CardinalityType DEF Typed
<1> QED
  BY <1>1, <1>2, <1>3, <1>4, <1>5

\* The position of a live mention, in other words.
LEMMA LiveIs ==
  ASSUME NEW m, NEW q
  PROVE  \A i : i \in Live(m, q) <=> i \in 1..Len(q) /\ q[i][1] \in DOMAIN m /\ m[q[i][1]].seq = q[i][2]
BY DEF Live, Loris!IsLive

\* Two live mentions of one connection are the same.
LEMMA OneMention ==
  ASSUME NEW m, NEW q, Keyed(m, q), NEW i \in Live(m, q), NEW j \in Live(m, q), q[i][1] = q[j][1]
  PROVE  i = j
<1>1. i \in Nat /\ j \in Nat /\ q[i][1] \in Caller
  BY LiveIs, TypedParts DEF Keyed
<1>2. ~(i < j) /\ ~(j < i)
  BY <1>1 DEF Keyed, Leads
<1> QED
  BY <1>1, <1>2

\* next_seq: there is a number that no entry and no mention has, as they are
\* fewer than the numbers that are tried.
LEMMA NextSeqIs ==
  ASSUME Typed(activity, mentions)
  PROVE  /\ Loris!NextSeq \in Nat \ {0}
         /\ \A i \in 1..Len(mentions) : mentions[i][2] # Loris!NextSeq
         /\ \A a \in DOMAIN activity : activity[a].seq # Loris!NextSeq
<1> DEFINE n == Len(mentions)
           D == DOMAIN activity
           d == Cardinality(D)
           f == [i \in 1..n |-> mentions[i][2]]
           g == [a \in D |-> activity[a].seq]
           F == {f[i] : i \in 1..n}
           G == {g[a] : a \in D}
           N == 1..(n + d + 1)
<1>1. n \in Nat /\ DOMAIN mentions = 1..n /\ IsFiniteSet(D) /\ d \in Nat
  BY TypedParts
<1>2. IsFiniteSet(1..n) /\ Cardinality(1..n) = n
  BY <1>1, UpTo
<1>3. IsFiniteSet(F) /\ Cardinality(F) <= n
  <2>1. f \in Surjection(1..n, F)
    BY DEF Surjection
  <2> HIDE DEF F, f, n
  <2> QED
    BY <1>2, <2>1, FS_Surjection
<1>4. IsFiniteSet(G) /\ Cardinality(G) <= d
  <2>1. g \in Surjection(D, G)
    BY DEF Surjection
  <2> HIDE DEF G, g
  <2> QED
    BY <1>1, <2>1, FS_Surjection
<1>5. IsFiniteSet(N) /\ Cardinality(N) = n + d + 1
  <2>1. n + d + 1 \in Nat
    BY <1>1
  <2> HIDE DEF n, d
  <2> QED
    BY <2>1, UpTo
<1> HIDE DEF F, G, N, n, d, D
<1>6. \E k \in N : k \notin F \cup G
  <2> SUFFICES ASSUME N \subseteq F \cup G PROVE FALSE
    OBVIOUS
  <2>1. /\ IsFiniteSet(F \cup G) /\ Cardinality(F) \in Nat /\ Cardinality(G) \in Nat
        /\ Cardinality(F \cap G) \in Nat
        /\ Cardinality(F \cup G) = Cardinality(F) + Cardinality(G) - Cardinality(F \cap G)
    <3>1. IsFiniteSet(F \cap G)
      BY <1>3, FS_Subset
    <3> QED
      BY <1>3, <1>4, <3>1, FS_Union, FS_CardinalityType
  <2>2. Cardinality(N) <= Cardinality(F \cup G)
    BY <2>1, FS_Subset
  <2> QED
    BY <1>1, <1>3, <1>4, <1>5, <2>1, <2>2
<1>7. \E k \in N : (\A i \in DOMAIN mentions : mentions[i][2] # k) /\ (\A a \in D : activity[a].seq # k)
  BY <1>1, <1>6 DEF F, G, f, g
<1>8. Loris!NextSeq = CHOOSE k \in N : /\ \A i \in DOMAIN mentions : mentions[i][2] # k
                                       /\ \A a \in DOMAIN activity : activity[a].seq # k
  BY LorisCardinality DEF Loris!NextSeq, N, n, d, D
<1>9. /\ Loris!NextSeq \in N
      /\ \A i \in DOMAIN mentions : mentions[i][2] # Loris!NextSeq
      /\ \A a \in D : activity[a].seq # Loris!NextSeq
  BY <1>7, <1>8 DEF D
<1>10. N \subseteq Nat \ {0}
  BY <1>1 DEF N
<1> QED
  BY <1>1, <1>9, <1>10 DEF n, D

\* What compact_order makes of the first n mentions, given what it made of fewer.
Kept(m, q, f, n) ==
  IF n = 0 THEN <<>>
  ELSE IF Loris!IsLive(m, q[n]) THEN Append(f[n - 1], q[n]) ELSE f[n - 1]

\* The loop runs to its end.
LEMMA KeptExists ==
  ASSUME NEW m, NEW q \in Seq(Mention)
  PROVE  \E f \in [0..Len(q) -> Seq(Mention)] : \A n \in 0..Len(q) : f[n] = Kept(m, q, f, n)
<1> DEFINE Runs(k) == \E f \in [0..k -> Seq(Mention)] : \A n \in 0..k : f[n] = Kept(m, q, f, n)
<1>1. Len(q) \in Nat /\ \A n \in 1..Len(q) : q[n] \in Mention
  BY LenProperties, ElementOfSeq
<1>2. Runs(0)
  <2>1. [n \in 0..0 |-> <<>>] \in [0..0 -> Seq(Mention)]
    BY EmptySeq
  <2>2. \A n \in 0..0 : [k \in 0..0 |-> <<>>][n] = Kept(m, q, [k \in 0..0 |-> <<>>], n)
    BY DEF Kept
  <2> QED
    BY <2>1, <2>2
<1>3. ASSUME NEW k \in 0..Len(q), k + 1 \in 0..Len(q), Runs(k) PROVE Runs(k + 1)
  <2>1. PICK f \in [0..k -> Seq(Mention)] : \A n \in 0..k : f[n] = Kept(m, q, f, n)
    BY <1>3
  <2> DEFINE g == [n \in 0..k + 1 |-> IF n <= k THEN f[n] ELSE Kept(m, q, f, k + 1)]
  <2>2. Kept(m, q, f, k + 1) \in Seq(Mention)
    <3>1. f[k] \in Seq(Mention) /\ q[k + 1] \in Mention /\ k + 1 # 0 /\ (k + 1) - 1 = k
      BY <1>1, <1>3
    <3>2. Append(f[k], q[k + 1]) \in Seq(Mention)
      BY <3>1, AppendProperties
    <3> QED
      BY <3>1, <3>2 DEF Kept
  <2>3. g \in [0..k + 1 -> Seq(Mention)]
    BY <2>2
  <2>4. ASSUME NEW n \in 0..k + 1 PROVE g[n] = Kept(m, q, g, n)
    <3>1. n # 0 => g[n - 1] = f[n - 1]
      BY <1>1
    <3>2. Kept(m, q, g, n) = Kept(m, q, f, n)
      BY <3>1 DEF Kept
    <3> HIDE DEF Kept
    <3>3. CASE n <= k
      BY <2>1, <3>2, <3>3
    <3>4. CASE n = k + 1
      BY <1>1, <3>2, <3>4
    <3> QED
      BY <3>3, <3>4
  <2> HIDE DEF g
  <2> QED
    BY <2>3, <2>4
<1> HIDE DEF Runs
<1> DEFINE Reached == {k \in 0..Len(q) : Runs(k)}
<1>4. 0 \in Reached
  BY <1>1, <1>2
<1>5. ASSUME NEW n \in 1..Len(q), n - 1 \in Reached PROVE n \in Reached
  <2>1. n - 1 \in 0..Len(q) /\ (n - 1) + 1 = n /\ n \in 0..Len(q)
    BY <1>1
  <2> QED
    BY <1>3, <1>5, <2>1
<1> HIDE DEF Reached
<1>6. Len(q) \in Reached
  BY <1>1, <1>4, <1>5, Upward
<1> QED
  BY <1>6 DEF Reached, Runs

\* r is what compaction of the first n mentions of q may leave: the live ones,
\* each of them, in their order.
Compacted(m, q, n, r) ==
  /\ r \in Seq(Mention)
  /\ \A k \in 1..Len(r) : Loris!IsLive(m, r[k]) /\ \E i \in 1..n : r[k] = q[i]
  /\ \A i \in 1..n : Loris!IsLive(m, q[i]) => \E k \in 1..Len(r) : r[k] = q[i]
  /\ \A k, l \in 1..Len(r) : k < l => \E i, j \in 1..n : i < j /\ r[k] = q[i] /\ r[l] = q[j]

\* A mention that is not live is left out.
LEMMA CompactSkips ==
  ASSUME NEW m, NEW q, NEW n \in Nat \ {0}, NEW r, Compacted(m, q, n - 1, r), ~Loris!IsLive(m, q[n])
  PROVE  Compacted(m, q, n, r)
<1>1. 1..n = (1..n - 1) \cup {n}
  OBVIOUS
<1> QED
  BY <1>1 DEF Compacted

\* A live one is pushed back.
LEMMA CompactPushes ==
  ASSUME NEW m, NEW q, NEW n \in Nat \ {0}, NEW r, Compacted(m, q, n - 1, r),
         Loris!IsLive(m, q[n]), q[n] \in Mention
  PROVE  Compacted(m, q, n, Append(r, q[n]))
<1> DEFINE more == Append(r, q[n])
<1>1. /\ more \in Seq(Mention) /\ Len(more) = Len(r) + 1 /\ Len(r) \in Nat
      /\ \A k \in 1..Len(r) : more[k] = r[k]
      /\ more[Len(r) + 1] = q[n]
  BY AppendProperties, LenProperties DEF Compacted
<1> HIDE DEF more
<1>2. 1..n = (1..n - 1) \cup {n} /\ 1..Len(more) = (1..Len(r)) \cup {Len(r) + 1}
  BY <1>1
<1>3. ASSUME NEW k \in 1..Len(more) PROVE Loris!IsLive(m, more[k]) /\ \E i \in 1..n : more[k] = q[i]
  <2>1. CASE k \in 1..Len(r)
    <3>1. more[k] = r[k]
      BY <1>1, <2>1
    <3>2. Loris!IsLive(m, r[k]) /\ \E i \in 1..n - 1 : r[k] = q[i]
      BY <2>1 DEF Compacted
    <3> QED
      BY <1>2, <3>1, <3>2
  <2>2. CASE k = Len(r) + 1
    <3>1. more[k] = q[n] /\ n \in 1..n
      BY <1>1, <2>2
    <3> QED
      BY <3>1
  <2> QED
    BY <1>2, <2>1, <2>2
<1>4. \A i \in 1..n : Loris!IsLive(m, q[i]) => \E k \in 1..Len(more) : more[k] = q[i]
  BY <1>1, <1>2 DEF Compacted
<1>5. ASSUME NEW k \in 1..Len(more), NEW l \in 1..Len(more), k < l
      PROVE  \E i, j \in 1..n : i < j /\ more[k] = q[i] /\ more[l] = q[j]
  <2>1. k \in 1..Len(r) /\ more[k] = r[k]
    BY <1>1, <1>5
  <2>2. CASE l \in 1..Len(r)
    <3>1. more[l] = r[l]
      BY <1>1, <2>2
    <3>2. PICK i \in 1..n - 1, j \in 1..n - 1 : i < j /\ r[k] = q[i] /\ r[l] = q[j]
      BY <1>5, <2>1, <2>2 DEF Compacted
    <3> QED
      BY <1>2, <2>1, <3>1, <3>2
  <2>3. CASE l = Len(r) + 1
    <3>1. PICK i \in 1..n - 1 : r[k] = q[i]
      BY <2>1 DEF Compacted
    <3>2. i < n
      BY <3>1
    <3> QED
      BY <1>1, <1>2, <2>1, <2>3, <3>1, <3>2
  <2> QED
    BY <1>2, <2>2, <2>3
<1> QED
  BY <1>1, <1>3, <1>4, <1>5 DEF Compacted, more

\* compact_order leaves the live mentions, each of them, in their order.
LEMMA CompactIs ==
  ASSUME NEW m, NEW q \in Seq(Mention)
  PROVE  Compacted(m, q, Len(q), Loris!CompactOrder(m, q))
<1> DEFINE kept == CHOOSE f : f = [n \in 0..Len(q) |-> Kept(m, q, f, n)]
           Good(n) == Compacted(m, q, n, kept[n])
<1>1. Len(q) \in Nat /\ \A n \in 1..Len(q) : q[n] \in Mention
  BY LenProperties, ElementOfSeq
<1>2. \A n \in 0..Len(q) : kept[n] = Kept(m, q, kept, n)
  <2>1. PICK f \in [0..Len(q) -> Seq(Mention)] : \A n \in 0..Len(q) : f[n] = Kept(m, q, f, n)
    BY KeptExists
  <2>2. f = [n \in 0..Len(q) |-> Kept(m, q, f, n)]
    BY <2>1
  <2>3. kept = [n \in 0..Len(q) |-> Kept(m, q, kept, n)]
    BY <2>2
  <2> HIDE DEF kept
  <2> QED
    BY <2>3
<1>3. Loris!CompactOrder(m, q) = kept[Len(q)]
  BY DEF Loris!CompactOrder, Kept
<1> HIDE DEF kept
<1>4. Good(0)
  <2>1. kept[0] = <<>>
    BY <1>1, <1>2 DEF Kept
  <2>2. <<>> \in Seq(Mention) /\ Len(<<>>) = 0
    BY EmptySeq
  <2> QED
    BY <2>1, <2>2 DEF Compacted
<1>5. ASSUME NEW n \in 1..Len(q), Good(n - 1) PROVE Good(n)
  <2>1. n # 0 /\ n \in Nat \ {0} /\ q[n] \in Mention /\ kept[n] = Kept(m, q, kept, n)
    BY <1>1, <1>2
  <2>2. CASE Loris!IsLive(m, q[n])
    <3>1. kept[n] = Append(kept[n - 1], q[n])
      BY <2>1, <2>2 DEF Kept
    <3> QED
      BY <1>5, <2>1, <2>2, <3>1, CompactPushes
  <2>3. CASE ~Loris!IsLive(m, q[n])
    <3>1. kept[n] = kept[n - 1]
      BY <2>1, <2>3 DEF Kept
    <3> QED
      BY <1>5, <2>1, <2>3, <3>1, CompactSkips
  <2> QED
    BY <2>2, <2>3
<1> HIDE DEF Good
<1> DEFINE Reached == {n \in 0..Len(q) : Good(n)}
<1>6. Good(Len(q))
  <2>1. 0 \in Reached
    BY <1>1, <1>4
  <2>2. \A n \in 1..Len(q) : n - 1 \in Reached => n \in Reached
    BY <1>1, <1>5
  <2> HIDE DEF Reached
  <2>3. Len(q) \in Reached
    BY <1>1, <2>1, <2>2, Upward
  <2> QED
    BY <2>3 DEF Reached
<1> QED
  BY <1>3, <1>6 DEF Good

\* The result (m2, q2) of an operation on (m, q) has no mention out of turn: a
\* live mention is ahead of another only if it was so already, or the other is
\* of the connection a, which was noted.
InTurn(m, q, m2, q2, a) ==
  \A x, y \in Caller : Leads(m2, q2, x, y) => x # a /\ (y = a \/ Leads(m, q, x, y))

\* Compaction loses no entry's mention and puts none before another.
LEMMA Compacting ==
  ASSUME NEW m, NEW q, Keyed(m, q), NEW r, Compacted(m, q, Len(q), r)
  PROVE  /\ Keyed(m, r) /\ Len(r) <= Cardinality(DOMAIN m)
         /\ \A x, y : Leads(m, r, x, y) => Leads(m, q, x, y)
<1>1. /\ r \in Seq(Mention) /\ Len(r) \in Nat
      /\ Live(m, r) = 1..Len(r)
  BY LenProperties DEF Compacted, Live
<1>2. \A x, y : Leads(m, r, x, y) => Leads(m, q, x, y)
  <2> SUFFICES ASSUME NEW x, NEW y, Leads(m, r, x, y) PROVE Leads(m, q, x, y)
    OBVIOUS
  <2>1. PICK k \in 1..Len(r), l \in 1..Len(r) : k < l /\ r[k][1] = x /\ r[l][1] = y
    BY <1>1 DEF Leads
  <2>2. PICK i \in 1..Len(q), j \in 1..Len(q) : i < j /\ r[k] = q[i] /\ r[l] = q[j]
    BY <2>1 DEF Compacted
  <2>3. i \in Live(m, q) /\ j \in Live(m, q)
    BY <2>2 DEF Compacted, Live
  <2> QED
    BY <2>1, <2>2, <2>3 DEF Leads
<1>3. ASSUME NEW a \in DOMAIN m PROVE \E k \in Live(m, r) : r[k][1] = a
  <2>1. PICK i \in Live(m, q) : q[i][1] = a
    BY DEF Keyed
  <2>2. PICK k \in 1..Len(r) : r[k] = q[i]
    BY DEF Live, Compacted
  <2> QED
    BY <1>1, <2>1, <2>2
<1>4. Keyed(m, r)
  BY <1>1, <1>2, <1>3 DEF Keyed, Typed
<1>5. Len(r) <= Cardinality(DOMAIN m)
  <2> DEFINE f == [k \in 1..Len(r) |-> r[k][1]]
  <2>1. f \in Injection(1..Len(r), DOMAIN m)
    <3>1. f \in [1..Len(r) -> DOMAIN m]
      BY <1>1, LiveIs
    <3>2. ASSUME NEW k \in 1..Len(r), NEW l \in 1..Len(r), f[k] = f[l] PROVE k = l
      BY <1>1, <1>4, <3>2, OneMention
    <3> QED
      BY <3>1, <3>2 DEF Injection, IsInjective
  <2>2. IsFiniteSet(DOMAIN m)
    BY <1>4, TypedParts DEF Keyed
  <2>3. Cardinality(1..Len(r)) = Len(r)
    BY <1>1, UpTo
  <2> HIDE DEF f
  <2> QED
    BY <2>1, <2>2, <2>3, FS_Injection
<1> QED
  BY <1>2, <1>4, <1>5


\* maybe_compact brings the queue within its bound, and changes nothing else.
LEMMA MaybeCompactIs ==
  ASSUME NEW m, NEW q, Keyed(m, q), Cardinality(DOMAIN m) <= Loris!Room
  PROVE  \E r : /\ Loris!MaybeCompact([map |-> m, order |-> q]) = [map |-> m, order |-> r]
                /\ Keyed(m, r) /\ Len(r) <= Loris!OrderThreshold
                /\ \A x, y : Leads(m, r, x, y) => Leads(m, q, x, y)
<1>1. q \in Seq(Mention) /\ Len(q) \in Nat /\ Cardinality(DOMAIN m) \in Nat
  BY TypedParts DEF Keyed, Typed
<1>2. CASE Len(q) > Loris!OrderThreshold
  <2> DEFINE r == Loris!CompactOrder(m, q)
  <2>1. Loris!MaybeCompact([map |-> m, order |-> q]) = [map |-> m, order |-> r]
    BY <1>2 DEF Loris!MaybeCompact
  <2>2. Compacted(m, q, Len(q), r)
    BY <1>1, CompactIs
  <2> HIDE DEF r
  <2>3. r \in Seq(Mention) /\ Len(r) \in Nat
    BY <2>2, LenProperties DEF Compacted
  <2>4. Len(r) <= Loris!OrderThreshold
    BY <1>1, <2>2, <2>3, Compacting, LorisConstants
  <2> QED
    BY <2>1, <2>2, <2>4, Compacting
<1>3. CASE ~(Len(q) > Loris!OrderThreshold)
  <2>1. Loris!MaybeCompact([map |-> m, order |-> q]) = [map |-> m, order |-> q]
    BY <1>3 DEF Loris!MaybeCompact
  <2>2. Len(q) <= Loris!OrderThreshold
    BY <1>1, <1>3, LorisConstants
  <2> QED
    BY <2>1, <2>2
<1> QED
  BY <1>2, <1>3

\* note, before it makes room: the map m and the queue q with a noted under s.
Noting(m, a, s) == [x \in DOMAIN m \cup {a} |-> IF x = a THEN [seen |-> 0, seq |-> s] ELSE m[x]]

\* The new mention is live and last; the other live ones are as they were.
LEMMA NotingLive ==
  ASSUME NEW m, NEW q, Keyed(m, q), NEW a \in Caller, NEW s \in Nat \ {0},
         \A i \in 1..Len(q) : q[i][2] # s
  PROVE  LET Q == Append(q, <<a, s>>)
         IN  /\ Typed(Noting(m, a, s), Q)
             /\ Len(q) \in Nat /\ Len(Q) = Len(q) + 1 /\ Q[Len(q) + 1] = <<a, s>>
             /\ \A i \in 1..Len(q) : Q[i] = q[i]
             /\ Live(Noting(m, a, s), Q) = {i \in Live(m, q) : q[i][1] # a} \cup {Len(q) + 1}
<1> DEFINE Q == Append(q, <<a, s>>)
           N == Noting(m, a, s)
<1>1. <<a, s>> \in Mention
  BY DEF Mention
<1>2. q \in Seq(Mention) /\ Len(q) \in Nat
  BY TypedParts DEF Keyed, Typed
<1>3. /\ Q \in Seq(Mention) /\ Len(Q) = Len(q) + 1 /\ Q[Len(q) + 1] = <<a, s>>
      /\ \A i \in 1..Len(q) : Q[i] = q[i]
  BY <1>1, <1>2, AppendProperties
<1>4. Typed(N, Q)
  <2>1. [seen |-> 0, seq |-> s] \in Entry
    BY LorisConstants DEF Entry, Loris!Ages
  <2>2. DOMAIN m \subseteq Caller /\ \A x \in DOMAIN m : m[x] \in Entry
    BY TypedParts DEF Keyed, Typed
  <2>3. DOMAIN N = DOMAIN m \cup {a} /\ N \in [DOMAIN m \cup {a} -> Entry]
    BY <2>1, <2>2 DEF Noting
  <2> QED
    BY <1>3, <2>2, <2>3 DEF Typed
<1>5. /\ DOMAIN N = DOMAIN m \cup {a} /\ N[a].seq = s
      /\ \A x \in DOMAIN m \ {a} : N[x] = m[x]
  BY DEF Noting
<1> HIDE DEF N, Q
<1>6. ASSUME NEW i \in 1..Len(q) PROVE i \in Live(N, Q) <=> i \in Live(m, q) /\ q[i][1] # a
  <2>1. i \in 1..Len(Q) /\ Q[i] = q[i] /\ q[i][2] # s
    BY <1>2, <1>3
  <2> QED
    BY <1>5, <2>1, LiveIs
<1>7. Len(q) + 1 \in Live(N, Q)
  <2>1. Len(q) + 1 \in 1..Len(Q) /\ Q[Len(q) + 1][1] = a /\ Q[Len(q) + 1][2] = s
    BY <1>2, <1>3
  <2> QED
    BY <1>5, <2>1, LiveIs
<1>8. 1..Len(Q) = (1..Len(q)) \cup {Len(q) + 1}
  BY <1>2, <1>3
<1>9. Live(N, Q) = {i \in Live(m, q) : q[i][1] # a} \cup {Len(q) + 1}
  <2>1. Live(N, Q) \subseteq 1..Len(Q) /\ Live(m, q) \subseteq 1..Len(q)
    BY DEF Live
  <2> QED
    BY <1>6, <1>7, <1>8, <2>1
<1> QED
  BY <1>2, <1>3, <1>4, <1>9 DEF N, Q

\* Every entry keeps one live mention, and a's comes after all others.
LEMMA NotingKeyed ==
  ASSUME NEW m, NEW q, Keyed(m, q), NEW a \in Caller, NEW s \in Nat \ {0},
         \A i \in 1..Len(q) : q[i][2] # s
  PROVE  /\ Keyed(Noting(m, a, s), Append(q, <<a, s>>))
         /\ InTurn(m, q, Noting(m, a, s), Append(q, <<a, s>>), a)
<1> DEFINE Q == Append(q, <<a, s>>)
           N == Noting(m, a, s)
<1>1. /\ Typed(N, Q)
      /\ Len(q) \in Nat /\ Len(Q) = Len(q) + 1 /\ Q[Len(q) + 1] = <<a, s>>
      /\ \A i \in 1..Len(q) : Q[i] = q[i]
      /\ Live(N, Q) = {i \in Live(m, q) : q[i][1] # a} \cup {Len(q) + 1}
  BY NotingLive
<1>2. Live(m, q) \subseteq 1..Len(q) /\ Q[Len(q) + 1][1] = a
  BY <1>1 DEF Live
<1>3. DOMAIN N = DOMAIN m \cup {a}
  BY DEF Noting
<1> HIDE DEF N, Q
<1>4. ASSUME NEW x, NEW y, Leads(N, Q, x, y) PROVE x # a /\ (y = a \/ Leads(m, q, x, y))
  <2>1. PICK i \in Live(N, Q), j \in Live(N, Q) : i < j /\ Q[i][1] = x /\ Q[j][1] = y
    BY <1>4 DEF Leads
  <2>2. i # Len(q) + 1
    BY <1>1, <1>2, <2>1
  <2>3. i \in Live(m, q) /\ q[i][1] # a /\ Q[i] = q[i]
    BY <1>1, <1>2, <2>2
  <2>4. CASE j = Len(q) + 1
    BY <1>2, <2>1, <2>3, <2>4
  <2>5. CASE j # Len(q) + 1
    <3>1. j \in Live(m, q) /\ Q[j] = q[j]
      BY <1>1, <1>2, <2>5
    <3> QED
      BY <2>1, <2>3, <3>1 DEF Leads
  <2> QED
    BY <2>4, <2>5
<1>5. ASSUME NEW x \in DOMAIN N PROVE \E i \in Live(N, Q) : Q[i][1] = x
  <2>1. CASE x = a
    BY <1>1, <1>2, <2>1
  <2>2. CASE x # a
    <3>1. PICK i \in Live(m, q) : q[i][1] = x
      BY <1>3, <2>2 DEF Keyed
    <3>2. i \in Live(N, Q) /\ Q[i] = q[i]
      BY <1>1, <1>2, <2>2, <3>1
    <3> QED
      BY <3>1, <3>2
  <2> QED
    BY <2>1, <2>2
<1>6. \A x \in Caller : ~Leads(N, Q, x, x)
  BY <1>4 DEF Keyed
<1>7. Keyed(N, Q)
  BY <1>1, <1>5, <1>6 DEF Keyed
<1>8. InTurn(m, q, N, Q, a)
  BY <1>4 DEF InTurn
<1> QED
  BY <1>7, <1>8 DEF N, Q

\* evict_oldest finds the connection whose live mention is ahead of all others,
\* and leaves these as they are.
LEMMA EvictIs ==
  ASSUME NEW m, NEW q, Keyed(m, q), DOMAIN m # {}
  PROVE  \E v \in DOMAIN m : \E rest :
           LET left == Loris!Restrict(m, DOMAIN m \ {v})
           IN  /\ Loris!EvictOldestLive(m, q) = [map |-> left, order |-> rest]
               /\ Keyed(left, rest)
               /\ \A x, y : Leads(left, rest, x, y) => Leads(m, q, x, y)
               /\ \A x \in DOMAIN m \ {v} : Leads(m, q, v, x)
<1> DEFINE hits == {i \in DOMAIN q : Loris!IsLive(m, q[i])}
           k == CHOOSE i \in hits : \A j \in hits : i <= j
           v == q[k][1]
           rest == SubSeq(q, k + 1, Len(q))
           left == Loris!Restrict(m, DOMAIN m \ {v})
<1>1. Len(q) \in Nat /\ DOMAIN q = 1..Len(q) /\ q \in Seq(Mention)
  BY TypedParts DEF Keyed, Typed
<1>2. hits = Live(m, q) /\ Live(m, q) \subseteq 1..Len(q) /\ Live(m, q) # {}
  BY <1>1 DEF Live, Keyed
<1>3. k \in Live(m, q) /\ \A j \in Live(m, q) : k <= j
  <2>1. \E i \in hits : \A j \in hits : i <= j
    <3>1. hits \subseteq Nat /\ hits # {}
      BY <1>1, <1>2
    <3> HIDE DEF hits
    <3> QED
      BY <3>1, LeastElement
  <2> HIDE DEF hits
  <2> QED
    BY <1>2, <2>1
<1>4. Loris!EvictOldestLive(m, q) = [map |-> left, order |-> rest]
  BY <1>2 DEF Loris!EvictOldestLive
<1> HIDE DEF hits, k
<1>5. k \in 1..Len(q) /\ k \in 0..Len(q) /\ v \in DOMAIN m
  BY <1>1, <1>2, <1>3, LiveIs
<1>6. /\ rest \in Seq(Mention) /\ Len(rest) = Len(q) - k
      /\ \A i \in 1..(Len(q) - k) : rest[i] = q[k + i]
  BY <1>1, <1>5, Popped
<1>7. DOMAIN left = DOMAIN m \ {v} /\ \A x \in DOMAIN m \ {v} : left[x] = m[x]
  BY RestrictIs
<1>8. left \in [DOMAIN m \ {v} -> Entry]
  BY RestrictIs, TypedParts DEF Keyed
<1> HIDE DEF v, left, rest
<1>9. ASSUME NEW i \in 1..Len(rest) PROVE i \in Live(left, rest) <=> k + i \in Live(m, q)
  <2>1. rest[i] = q[k + i] /\ k + i \in 1..Len(q) /\ k + i # k
    BY <1>1, <1>5, <1>6
  <2>2. k + i \in Live(m, q) => q[k + i][1] # v
    BY <1>3, <2>1, OneMention DEF v
  <2> QED
    BY <1>7, <2>1, <2>2, LiveIs
<1>10. ASSUME NEW x, NEW y, Leads(left, rest, x, y) PROVE Leads(m, q, x, y)
  <2>1. PICK i \in Live(left, rest), j \in Live(left, rest) : i < j /\ rest[i][1] = x /\ rest[j][1] = y
    BY <1>10 DEF Leads
  <2>2. i \in 1..Len(rest) /\ j \in 1..Len(rest)
    BY DEF Live
  <2>3. k + i \in Live(m, q) /\ k + j \in Live(m, q) /\ rest[i] = q[k + i] /\ rest[j] = q[k + j]
    BY <1>6, <1>9, <2>2
  <2>4. k + i < k + j
    BY <1>5, <2>1, <2>2
  <2> QED
    BY <2>1, <2>3, <2>4 DEF Leads
<1>11. ASSUME NEW x \in DOMAIN m \ {v} PROVE \E j \in Live(m, q) : j > k /\ q[j][1] = x
  <2>1. PICK j \in Live(m, q) : q[j][1] = x
    BY DEF Keyed
  <2>2. j >= k /\ j # k /\ j \in Nat /\ k \in Nat
    BY <1>1, <1>2, <1>3, <1>5, <2>1 DEF v
  <2> QED
    BY <2>1, <2>2
<1>12. ASSUME NEW x \in DOMAIN left PROVE \E i \in Live(left, rest) : rest[i][1] = x
  <2>1. PICK j \in Live(m, q) : j > k /\ q[j][1] = x
    BY <1>7, <1>11
  <2>2. j - k \in 1..Len(rest) /\ k + (j - k) = j
    BY <1>1, <1>2, <1>5, <1>6, <2>1
  <2> QED
    BY <1>6, <1>9, <2>1, <2>2
<1>13. \A x \in DOMAIN m \ {v} : Leads(m, q, v, x)
  BY <1>3, <1>11 DEF Leads, v
<1>14. Keyed(left, rest)
  BY <1>6, <1>7, <1>8, <1>10, <1>12 DEF Keyed, Typed
<1> QED
  BY <1>4, <1>5, <1>10, <1>13, <1>14 DEF left

\* The map and the queue within their bounds.
Tracks(m, q) ==
  /\ Keyed(m, q)
  /\ Cardinality(DOMAIN m) <= Loris!Room /\ Len(q) <= Loris!OrderThreshold

\* (m2, q2) has a noted anew, and the connections of gone forgotten, whose
\* mentions were ahead of all.
NotedIn(m2, q2, a, gone) ==
  /\ Tracks(m2, q2) /\ InTurn(activity, mentions, m2, q2, a)
  /\ DOMAIN m2 = (DOMAIN activity \ gone) \cup {a}
  /\ m2[a].seen = 0 /\ (a \in DOMAIN activity => m2[a].seq # activity[a].seq)
  /\ \A x \in DOMAIN activity \ (gone \cup {a}) : m2[x] = activity[x]
  /\ a \notin gone
  /\ \A v \in gone : \A x \in DOMAIN activity \ {v} : Leads(activity, mentions, v, x)

\* MaybeCompact keeps all that.
LEMMA NotedCompact ==
  ASSUME NEW a \in Caller, NEW gone, NEW m2, NEW q2, Keyed(m2, q2), Cardinality(DOMAIN m2) <= Loris!Room,
         \A r : Tracks(m2, r) /\ (\A x, y : Leads(m2, r, x, y) => Leads(m2, q2, x, y)) => NotedIn(m2, r, a, gone)
  PROVE  \E r : /\ Loris!MaybeCompact([map |-> m2, order |-> q2]) = [map |-> m2, order |-> r]
                /\ NotedIn(m2, r, a, gone)
<1>1. PICK r : /\ Loris!MaybeCompact([map |-> m2, order |-> q2]) = [map |-> m2, order |-> r]
               /\ Keyed(m2, r) /\ Len(r) <= Loris!OrderThreshold
               /\ \A x, y : Leads(m2, r, x, y) => Leads(m2, q2, x, y)
  BY MaybeCompactIs
<1>2. Tracks(m2, r)
  BY <1>1 DEF Tracks
<1> QED
  BY <1>1, <1>2

\* note enters a, last in turn, and makes room for it if need be by forgetting
\* the connection that is first in turn.
LEMMA NoteIs ==
  ASSUME Tracks(activity, mentions), NEW a \in Caller
  PROVE  \E m2, q2, gone :
           Loris!NoteOf(a) = [map |-> m2, order |-> q2] /\ NotedIn(m2, q2, a, gone)
<1> DEFINE s == Loris!NextSeq
           D == DOMAIN activity
           N == Noting(activity, a, s)
           Q == Append(mentions, <<a, s>>)
           full == a \notin D /\ Cardinality(D \cup {a}) > Loris!Room
<1>1. /\ Keyed(activity, mentions) /\ IsFiniteSet(D) /\ Cardinality(D) \in Nat
      /\ Cardinality(D) <= Loris!Room
      /\ Loris!Room \in Nat /\ Loris!Room >= 1
  BY TypedParts, LorisConstants DEF Tracks, Keyed
<1>2. /\ s \in Nat \ {0}
      /\ \A i \in 1..Len(mentions) : mentions[i][2] # s
      /\ \A x \in D : activity[x].seq # s
  BY <1>1, NextSeqIs DEF Keyed
<1> HIDE DEF s
<1>3. Keyed(N, Q) /\ InTurn(activity, mentions, N, Q, a)
  BY <1>1, <1>2, NotingKeyed
<1>4. /\ DOMAIN N = D \cup {a} /\ N[a].seen = 0 /\ N[a].seq = s
      /\ \A x \in D \ {a} : N[x] = activity[x]
  BY DEF Noting
<1>5. Loris!NoteOf(a) = IF full THEN Loris!MaybeCompact(Loris!EvictOldestLive(N, Q))
                        ELSE Loris!MaybeCompact([map |-> N, order |-> Q])
  BY LorisCardinality DEF Loris!NoteOf, Noting, s
<1>6. /\ IsFiniteSet(D \cup {a})
      /\ Cardinality(D \cup {a}) = IF a \in D THEN Cardinality(D) ELSE Cardinality(D) + 1
  BY <1>1, FS_AddElement
<1> HIDE DEF N, Q
<1>7. CASE ~full
  <2>1. Cardinality(DOMAIN N) <= Loris!Room
    BY <1>1, <1>4, <1>6, <1>7
  <2>2. ASSUME NEW r, Tracks(N, r), \A x, y : Leads(N, r, x, y) => Leads(N, Q, x, y)
        PROVE  NotedIn(N, r, a, {})
    <3>1. InTurn(activity, mentions, N, r, a)
      BY <1>3, <2>2 DEF InTurn
    <3> QED
      BY <1>2, <1>4, <2>2, <3>1 DEF NotedIn
  <2>3. PICK r : Loris!MaybeCompact([map |-> N, order |-> Q]) = [map |-> N, order |-> r] /\ NotedIn(N, r, a, {})
    BY <1>3, <2>1, <2>2, NotedCompact
  <2> QED
    BY <1>5, <1>7, <2>3
<1>8. CASE full
  <2> DEFINE First(v, rest) ==
        /\ Loris!EvictOldestLive(N, Q) = [map |-> Loris!Restrict(N, DOMAIN N \ {v}), order |-> rest]
        /\ Keyed(Loris!Restrict(N, DOMAIN N \ {v}), rest)
        /\ \A x, y : Leads(Loris!Restrict(N, DOMAIN N \ {v}), rest, x, y) => Leads(N, Q, x, y)
        /\ \A x \in DOMAIN N \ {v} : Leads(N, Q, v, x)
  <2>0. PICK v \in DOMAIN N : \E rest : First(v, rest)
    BY <1>3, <1>4, EvictIs
  <2>1. PICK rest : First(v, rest)
    BY <2>0
  <2> DEFINE left == Loris!Restrict(N, DOMAIN N \ {v})
  <2>2. DOMAIN left = DOMAIN N \ {v} /\ \A x \in DOMAIN N \ {v} : left[x] = N[x]
    BY RestrictIs
  <2> HIDE DEF left
  <2>3. Typed(N, Q) /\ DOMAIN N \subseteq Caller
    BY <1>3 DEF Keyed, Typed
  <2>4. v # a
    <3> SUFFICES ASSUME v = a PROVE FALSE
      OBVIOUS
    <3>1. D # {}
      <4>1. Cardinality({a}) = 1
        BY FS_Singleton
      <4> HIDE DEF D
      <4> QED
        BY <1>1, <1>8, <4>1
    <3>2. PICK x \in D : TRUE
      BY <3>1
    <3>3. x \in DOMAIN N \ {v}
      BY <1>4, <1>8
    <3> QED
      BY <1>3, <2>1, <2>3, <3>3 DEF InTurn
  <2>5. v \in D /\ DOMAIN left = (D \ {v}) \cup {a}
    BY <1>4, <2>2, <2>4
  <2>6. Cardinality(DOMAIN left) <= Loris!Room
    <3>1. IsFiniteSet(D \ {v}) /\ Cardinality(D \ {v}) = Cardinality(D) - 1
      BY <1>1, <2>5, FS_RemoveElement
    <3>2. Cardinality((D \ {v}) \cup {a}) = Cardinality(D \ {v}) + 1
      BY <1>8, <3>1, FS_AddElement
    <3> HIDE DEF D
    <3> QED
      BY <1>1, <2>5, <3>1, <3>2
  <2>7. ASSUME NEW x \in D \ {v} PROVE Leads(activity, mentions, v, x)
    <3>1. x \in DOMAIN N \ {v} /\ x # a
      BY <1>4, <1>8
    <3>2. Leads(N, Q, v, x)
      BY <2>1, <3>1
    <3> QED
      BY <1>3, <2>3, <3>1, <3>2 DEF InTurn
  <2>8. ASSUME NEW r, Tracks(left, r), \A x, y : Leads(left, r, x, y) => Leads(left, rest, x, y)
        PROVE  NotedIn(left, r, a, {v})
    <3>1. InTurn(activity, mentions, left, r, a)
      BY <1>3, <2>1, <2>8 DEF InTurn, left
    <3>2. a \in DOMAIN N \ {v} /\ \A x \in D \ {v, a} : x \in DOMAIN N \ {v}
      BY <1>4, <2>4
    <3>3. left[a] = N[a] /\ \A x \in D \ {v, a} : left[x] = activity[x]
      BY <1>4, <2>2, <3>2
    <3> QED
      BY <1>2, <1>4, <2>4, <2>5, <2>7, <2>8, <3>1, <3>3 DEF NotedIn
  <2>9. Keyed(left, rest)
    BY <2>1 DEF left
  <2>10. PICK r : /\ Loris!MaybeCompact([map |-> left, order |-> rest]) = [map |-> left, order |-> r]
                  /\ NotedIn(left, r, a, {v})
    BY <2>6, <2>8, <2>9, NotedCompact
  <2> QED
    BY <1>5, <1>8, <2>1, <2>10 DEF left
<1> QED
  BY <1>7, <1>8

\* remove forgets a and disturbs nobody's turn.
LEMMA RemoveIs ==
  ASSUME Tracks(activity, mentions), NEW a
  PROVE  \E q2 :
           LET left == Loris!Restrict(activity, DOMAIN activity \ {a})
           IN  /\ Loris!MaybeCompact([map |-> left, order |-> mentions]) = [map |-> left, order |-> q2]
               /\ Tracks(left, q2)
               /\ \A x, y : Leads(left, q2, x, y) => Leads(activity, mentions, x, y)
<1> DEFINE D == DOMAIN activity
           left == Loris!Restrict(activity, D \ {a})
<1>1. Keyed(activity, mentions) /\ IsFiniteSet(D) /\ Cardinality(D) \in Nat /\ Cardinality(D) <= Loris!Room
  BY TypedParts DEF Tracks, Keyed
<1>2. /\ DOMAIN left = D \ {a} /\ \A x \in D \ {a} : left[x] = activity[x]
      /\ left = [x \in D \ {a} |-> activity[x]]
  BY RestrictIs
<1> HIDE DEF left
<1>3. Typed(left, mentions)
  <2>1. \A x \in D : activity[x] \in Entry
    BY <1>1, TypedParts DEF Keyed
  <2> QED
    BY <1>1, <1>2, <2>1 DEF Keyed, Typed
<1>4. \A i : i \in Live(left, mentions) <=> i \in Live(activity, mentions) /\ mentions[i][1] # a
  BY <1>2, LiveIs
<1>5. \A x, y : Leads(left, mentions, x, y) => Leads(activity, mentions, x, y)
  BY <1>4 DEF Leads
<1>6. Keyed(left, mentions)
  BY <1>1, <1>2, <1>3, <1>4, <1>5 DEF Keyed
<1>7. Cardinality(DOMAIN left) <= Loris!Room
  <2>1. Cardinality(D \ {a}) \in Nat /\ Cardinality(D \ {a}) <= Cardinality(D)
    BY <1>1, FS_Subset, FS_CardinalityType
  <2> HIDE DEF D
  <2> QED
    BY <1>1, <1>2, <2>1, LorisConstants
<1>8. PICK r : /\ Loris!MaybeCompact([map |-> left, order |-> mentions]) = [map |-> left, order |-> r]
               /\ Keyed(left, r) /\ Len(r) <= Loris!OrderThreshold
               /\ \A x, y : Leads(left, r, x, y) => Leads(left, mentions, x, y)
  BY <1>6, <1>7, MaybeCompactIs
<1> QED
  BY <1>5, <1>7, <1>8 DEF Tracks, left

-----------------------------------------------------------------------------
(* SlowLoris and its history *)

\* The map is bounded, holds open connections only and each with one mention
\* that counts; a connection that is judged has been looked up.
LorisInv ==
  /\ Tracks(activity, mentions)
  /\ hook \in [Caller -> Loris!Places] /\ found \in [Caller -> SUBSET Loris!Ages]
  /\ \A c \in DOMAIN activity : hook[c] # "closed"
  /\ \A c \in Caller : found[c] = {} \/ \E age \in Loris!Ages : found[c] = {age}

\* An entry says how long its connection has been silent, one that has none was
\* evicted, what is judged is that silence, and nobody's live mention is ahead
\* of that of a connection that was noted before.
Heard ==
  /\ silence \in [Caller -> Loris!Ages]
  /\ \A c \in DOMAIN activity : activity[c].seen = silence[c]
  /\ \A c \in Caller : hook[c] # "closed" => c \in DOMAIN activity \/ c \in evicted
  /\ \A c \in Caller : hook[c] = "judging" =>
                         found[c] = {silence[c]} \/ (found[c] = {} /\ c \in evicted)
  /\ \A x \in Caller : <<x, x>> \notin before
  /\ \A x, y \in Caller : Leads(activity, mentions, x, y) => <<y, x>> \notin before

\* LorisInv is what TrackingExact of SlowLoris needs: the live mentions of an
\* entry are the positions of its pair in the queue.
LEMMA LorisInvTracks == LorisInv => Loris!TrackingExact
<1> SUFFICES ASSUME LorisInv PROVE Loris!TrackingExact
  OBVIOUS
<1>1. /\ Keyed(activity, mentions) /\ Typed(activity, mentions)
      /\ Cardinality(DOMAIN activity) <= Loris!Room /\ Len(mentions) <= Loris!OrderThreshold
  BY DEF LorisInv, Tracks, Keyed
<1>2. Loris!TypeOK
  <2>1. \A c \in Caller : Loris!Cardinality(found[c]) <= 1
    <3>1. Cardinality({}) = 0 /\ \A age : Cardinality({age}) = 1
      BY FS_EmptySet, FS_Singleton
    <3> QED
      BY <3>1, LorisCardinality DEF LorisInv
  <2> QED
    BY <1>1, <2>1 DEF LorisInv, Loris!TypeOK, Typed, Entry, Mention
<1>3. ASSUME NEW a \in DOMAIN activity
      PROVE  Loris!Cardinality({i \in DOMAIN mentions : mentions[i] = <<a, activity[a].seq>>}) = 1
  <2> DEFINE T == {i \in DOMAIN mentions : mentions[i] = <<a, activity[a].seq>>}
  <2>1. T = {i \in Live(activity, mentions) : mentions[i][1] = a}
    <3>1. \A i \in 1..Len(mentions) : mentions[i] = <<mentions[i][1], mentions[i][2]>>
      BY <1>1, TypedParts
    <3>2. DOMAIN mentions = 1..Len(mentions)
      BY <1>1, TypedParts
    <3>3. \A i \in 1..Len(mentions) :
            mentions[i] = <<a, activity[a].seq>> <=> mentions[i][1] = a /\ mentions[i][2] = activity[a].seq
      BY <3>1
    <3>4. \A i : i \in T <=> i \in Live(activity, mentions) /\ mentions[i][1] = a
      BY <3>2, <3>3, LiveIs
    <3> HIDE DEF T
    <3> QED
      BY <3>4
  <2>2. PICK i \in Live(activity, mentions) : mentions[i][1] = a
    BY <1>1 DEF Keyed
  <2>3. T = {i}
    BY <1>1, <2>1, <2>2, OneMention
  <2> HIDE DEF T
  <2>4. Cardinality(T) = 1
    BY <2>3, FS_Singleton
  <2> QED
    BY <2>4, LorisCardinality DEF T
<1> QED
  BY <1>1, <1>2, <1>3, LorisCardinality DEF LorisInv, Loris!TrackingExact

\* What HStep does to the histories of SlowLoris.
Hearing ==
  /\ silence' = [c \in Caller |-> IF c \in Noted \/ hook'[c] = "closed" THEN 0 ELSE silence[c]]
  /\ evicted' = {c \in (evicted \ Noted) \cup Evicted : hook'[c] # "closed"}
  /\ before' = {p \in Caller \X Caller :
                  /\ hook'[p[1]] # "closed" /\ hook'[p[2]] # "closed"
                  /\ p[1] \notin Noted /\ (p[2] \in Noted \/ p \in before)}

\* A pair in before', in other words.
LEMMA BeforeIs ==
  ASSUME Hearing, NEW x, NEW y, <<x, y>> \in before'
  PROVE  x \notin Noted /\ (y \in Noted \/ <<x, y>> \in before)
BY DEF Hearing

\* Silence is counted in ticks.
LEMMA SilenceType ==
  ASSUME Heard, Hearing
  PROVE  silence' \in [Caller -> Loris!Ages]
<1>1. 0 \in Loris!Ages
  BY LorisConstants DEF Loris!Ages
<1> QED
  BY <1>1 DEF Heard, Hearing

\* Nobody is forgotten who was noted after someone else: see EvictsLeastRecent.
EvictsFirst == \A v \in Evicted, c \in DOMAIN activity : <<c, v>> \notin before

\* The step of a connection that notes it.
Notes(a) ==
  /\ hook[a] # "judging"
  /\ Loris!Store(Loris!NoteOf(a))
  /\ \E place \in {"open", "noted"} : hook' = [hook EXCEPT ![a] = place]
  /\ UNCHANGED found

\* It keeps the account, and makes room by forgetting the right connection.
LEMMA NotesStep ==
  ASSUME LorisInv, Heard, NEW a \in Caller, Notes(a), Hearing
  PROVE  LorisInv' /\ Heard' /\ EvictsFirst
<1> DEFINE D == DOMAIN activity
<1>1. PICK gone : NotedIn(activity', mentions', a, gone)
  <2>1. PICK m2, q2, gone : Loris!NoteOf(a) = [map |-> m2, order |-> q2] /\ NotedIn(m2, q2, a, gone)
    BY NoteIs DEF LorisInv
  <2>2. activity' = m2 /\ mentions' = q2
    BY <2>1 DEF Notes, Loris!Store
  <2> QED
    BY <2>1, <2>2
<1>2. PICK place \in {"open", "noted"} : hook' = [hook EXCEPT ![a] = place]
  BY DEF Notes
<1>3. /\ hook' \in [Caller -> Loris!Places] /\ hook'[a] = place /\ \A c \in Caller \ {a} : hook'[c] = hook[c]
      /\ hook'[a] # "closed" /\ hook'[a] # "judging" /\ found' = found
  BY <1>2 DEF LorisInv, Loris!Places, Notes
<1>4. D \subseteq Caller /\ DOMAIN activity' \subseteq Caller
  BY <1>1 DEF LorisInv, NotedIn, Tracks, Keyed, Typed
<1>5. Noted = {a}
  BY <1>1, <1>4 DEF Noted, NotedIn
<1>6. Evicted = gone \cap D
  <2>1. \A c \in D : hook'[c] # "closed"
    BY <1>3, <1>4 DEF LorisInv
  <2> QED
    BY <1>1, <2>1 DEF Evicted, NotedIn
<1>7. LorisInv'
  <2>1. Tracks(activity', mentions')
    BY <1>1 DEF NotedIn
  <2>2. \A c \in DOMAIN activity' : hook'[c] # "closed"
    BY <1>1, <1>3, <1>4 DEF NotedIn, LorisInv
  <2> QED
    BY <1>3, <2>1, <2>2 DEF LorisInv
<1>8. /\ silence'[a] = 0 /\ \A c \in Caller \ {a} : hook'[c] # "closed" => silence'[c] = silence[c]
      /\ \A c \in Caller : c \in evicted' <=> c \in (evicted \ {a}) \cup Evicted /\ hook'[c] # "closed"
  BY <1>3, <1>5 DEF Hearing, Heard
<1>9. \A c \in DOMAIN activity' : activity'[c].seen = silence'[c]
  <2>1. ASSUME NEW c \in DOMAIN activity', c # a PROVE activity'[c].seen = silence'[c]
    <3>1. c \in D \ (gone \cup {a}) /\ activity'[c] = activity[c]
      BY <1>1, <2>1 DEF NotedIn
    <3>2. hook'[c] # "closed" /\ c \in Caller \ {a}
      BY <1>3, <1>4, <2>1, <3>1 DEF LorisInv
    <3> QED
      BY <1>8, <3>1, <3>2 DEF Heard
  <2>2. activity'[a].seen = 0
    BY <1>1 DEF NotedIn
  <2> QED
    BY <1>8, <2>1, <2>2
<1>10. ASSUME NEW c \in Caller, hook'[c] # "closed" PROVE c \in DOMAIN activity' \/ c \in evicted'
  <2>1. CASE c = a
    BY <1>1, <2>1 DEF NotedIn
  <2>2. CASE c # a
    <3>1. c \in D \/ c \in evicted
      BY <1>3, <1>10, <2>2 DEF Heard
    <3> QED
      BY <1>1, <1>6, <1>8, <1>10, <2>2, <3>1 DEF NotedIn
  <2> QED
    BY <2>1, <2>2
<1>11. ASSUME NEW c \in Caller, hook'[c] = "judging"
       PROVE  found'[c] = {silence'[c]} \/ (found'[c] = {} /\ c \in evicted')
  <2>1. c # a /\ hook[c] = "judging" /\ hook'[c] # "closed"
    BY <1>3, <1>11
  <2> QED
    BY <1>3, <1>8, <2>1 DEF Heard
<1>12. \A x \in Caller : <<x, x>> \notin before'
  BY BeforeIs DEF Heard
<1>13. ASSUME NEW x \in Caller, NEW y \in Caller, Leads(activity', mentions', x, y), <<y, x>> \in before'
       PROVE  FALSE
  <2>1. y \notin Noted /\ (x \in Noted \/ <<y, x>> \in before)
    BY <1>13, BeforeIs
  <2>2. x # a /\ (y = a \/ Leads(activity, mentions, x, y))
    BY <1>1, <1>13 DEF NotedIn, InTurn
  <2> QED
    BY <1>5, <2>1, <2>2 DEF Heard
<1>14. Heard'
  <2>1. silence' \in [Caller -> Loris!Ages]
    BY SilenceType
  <2> QED
    BY <1>9, <1>10, <1>11, <1>12, <1>13, <2>1 DEF Heard
<1>15. EvictsFirst
  <2> SUFFICES ASSUME NEW v \in Evicted, NEW c \in D PROVE <<c, v>> \notin before
    BY DEF EvictsFirst
  <2>1. c = v \/ Leads(activity, mentions, v, c)
    BY <1>1, <1>6 DEF NotedIn
  <2> QED
    BY <1>4, <1>6, <2>1 DEF Heard
<1> QED
  BY <1>7, <1>14, <1>15

\* The step of a connection that closes it.
Closes(a) ==
  /\ hook[a] # "closed"
  /\ Loris!Store(Loris!MaybeCompact([map   |-> Loris!Restrict(activity, DOMAIN activity \ {a}),
                                     order |-> mentions]))
  /\ hook' = [hook EXCEPT ![a] = "closed"]
  /\ UNCHANGED found

\* It keeps the account of the others.
LEMMA ClosesStep ==
  ASSUME LorisInv, Heard, NEW a \in Caller, Closes(a), Hearing
  PROVE  LorisInv' /\ Heard' /\ EvictsFirst
<1> DEFINE D == DOMAIN activity
           left == Loris!Restrict(activity, D \ {a})
<1>1. PICK q2 : /\ Loris!MaybeCompact([map |-> left, order |-> mentions]) = [map |-> left, order |-> q2]
                /\ Tracks(left, q2)
                /\ \A x, y : Leads(left, q2, x, y) => Leads(activity, mentions, x, y)
  BY RemoveIs DEF LorisInv
<1>2. activity' = left /\ mentions' = q2
  BY <1>1 DEF Closes, Loris!Store
<1>3. DOMAIN left = D \ {a} /\ \A x \in D \ {a} : left[x] = activity[x]
  BY RestrictIs
<1> HIDE DEF left
<1>4. /\ hook' \in [Caller -> Loris!Places] /\ hook'[a] = "closed" /\ \A c \in Caller \ {a} : hook'[c] = hook[c]
      /\ found' = found
  BY DEF LorisInv, Loris!Places, Closes
<1>5. D \subseteq Caller
  BY DEF LorisInv, Tracks, Keyed, Typed
<1>6. Noted = {} /\ Evicted = {}
  BY <1>2, <1>3, <1>4, <1>5 DEF Noted, Evicted
<1>7. LorisInv'
  <2>1. Tracks(activity', mentions')
    BY <1>1, <1>2
  <2>2. \A c \in DOMAIN activity' : hook'[c] # "closed"
    BY <1>2, <1>3, <1>4, <1>5 DEF LorisInv
  <2> QED
    BY <1>4, <2>1, <2>2 DEF LorisInv
<1>8. /\ \A c \in Caller : hook'[c] # "closed" => silence'[c] = silence[c] /\ c # a /\ hook'[c] = hook[c]
      /\ \A c \in Caller : c \in evicted' <=> c \in evicted /\ hook'[c] # "closed"
  BY <1>4, <1>6 DEF Hearing, Heard
<1>9. Heard'
  <2>1. silence' \in [Caller -> Loris!Ages]
    BY SilenceType
  <2>2. \A c \in DOMAIN activity' : activity'[c].seen = silence'[c]
    BY <1>2, <1>3, <1>5, <1>7, <1>8 DEF Heard, LorisInv
  <2>3. \A c \in Caller : hook'[c] # "closed" => c \in DOMAIN activity' \/ c \in evicted'
    BY <1>2, <1>3, <1>8 DEF Heard
  <2>4. \A c \in Caller : hook'[c] = "judging" =>
                            found'[c] = {silence'[c]} \/ (found'[c] = {} /\ c \in evicted')
    BY <1>4, <1>8 DEF Heard
  <2>5. \A x, y \in Caller : <<x, y>> \in before' => <<x, y>> \in before
    BY <1>6, BeforeIs
  <2>6. \A x, y \in Caller : Leads(activity', mentions', x, y) => Leads(activity, mentions, x, y)
    BY <1>1, <1>2
  <2> QED
    BY <2>1, <2>2, <2>3, <2>4, <2>5, <2>6 DEF Heard
<1> QED
  BY <1>6, <1>7, <1>9 DEF EvictsFirst

\* The steps that leave the map alone: they look at it, or do not.
Still ==
  /\ UNCHANGED <<activity, mentions>>
  /\ hook' \in [Caller -> Loris!Places] /\ found' \in [Caller -> SUBSET Loris!Ages]
  /\ \A c \in Caller : hook'[c] = "closed" <=> hook[c] = "closed"
  /\ \A c \in Caller : found'[c] = {} \/ \E age \in Loris!Ages : found'[c] = {age}
  /\ \A c \in Caller : hook'[c] = "judging" =>
       found'[c] = IF hook[c] = "judging" THEN found[c]
                   ELSE IF c \in DOMAIN activity THEN {activity[c].seen} ELSE {}

\* They keep the account.
LEMMA StillStep ==
  ASSUME LorisInv, Heard, Still, Hearing
  PROVE  LorisInv' /\ Heard' /\ EvictsFirst
<1>1. activity' = activity /\ mentions' = mentions
  BY DEF Still
<1>2. Noted = {} /\ Evicted = {}
  BY <1>1 DEF Noted, Evicted
<1>3. LorisInv'
  <2>1. Tracks(activity', mentions')
    BY <1>1 DEF LorisInv
  <2>2. DOMAIN activity \subseteq Caller
    BY DEF LorisInv, Tracks, Keyed, Typed
  <2> QED
    BY <1>1, <2>1, <2>2 DEF LorisInv, Still
<1>4. /\ \A c \in Caller : hook'[c] # "closed" => silence'[c] = silence[c] /\ hook[c] # "closed"
      /\ \A c \in Caller : c \in evicted' <=> c \in evicted /\ hook'[c] # "closed"
  BY <1>2 DEF Hearing, Heard, Still
<1>5. Heard'
  <2>1. silence' \in [Caller -> Loris!Ages]
    BY SilenceType
  <2>2. DOMAIN activity \subseteq Caller /\ \A c \in DOMAIN activity' : hook'[c] # "closed"
    BY <1>3 DEF LorisInv, Tracks, Keyed, Typed
  <2>3. \A c \in DOMAIN activity' : activity'[c].seen = silence'[c]
    BY <1>1, <1>4, <2>2 DEF Heard
  <2>4. \A c \in Caller : hook'[c] # "closed" => c \in DOMAIN activity' \/ c \in evicted'
    BY <1>1, <1>4 DEF Heard
  <2>5. ASSUME NEW c \in Caller, hook'[c] = "judging"
        PROVE  found'[c] = {silence'[c]} \/ (found'[c] = {} /\ c \in evicted')
    <3>1. silence'[c] = silence[c] /\ hook[c] # "closed" /\ (c \in evicted => c \in evicted')
      BY <1>4, <2>5
    <3>2. CASE hook[c] = "judging"
      BY <2>5, <3>1, <3>2 DEF Heard, Still
    <3>3. CASE hook[c] # "judging" /\ c \in DOMAIN activity
      BY <2>5, <3>1, <3>3 DEF Heard, Still
    <3>4. CASE hook[c] # "judging" /\ c \notin DOMAIN activity
      BY <2>5, <3>1, <3>4 DEF Heard, Still
    <3> QED
      BY <3>2, <3>3, <3>4
  <2>6. \A x, y \in Caller : <<x, y>> \in before' => <<x, y>> \in before
    BY <1>2, BeforeIs
  <2> QED
    BY <1>1, <2>1, <2>3, <2>4, <2>5, <2>6 DEF Heard
<1> QED
  BY <1>2, <1>3, <1>5 DEF EvictsFirst

\* Time passes for the entries, for what was found and for the silence alike.
LEMMA LorisTick ==
  ASSUME LorisInv, Heard, Loris!Tick,
         silence' = [c \in Caller |-> IF hook[c] = "closed" THEN 0 ELSE Loris!Older(silence[c])],
         UNCHANGED <<evicted, before>>
  PROVE  LorisInv' /\ Heard'
<1> DEFINE D == DOMAIN activity
<1>1. /\ activity' = [a \in D |-> [activity[a] EXCEPT !.seen = Loris!Older(activity[a].seen)]]
      /\ found' = [a \in Caller |-> {Loris!Older(age) : age \in found[a]}]
      /\ mentions' = mentions /\ hook' = hook
  BY DEF Loris!Tick
<1>2. \A age \in Loris!Ages : Loris!Older(age) \in Loris!Ages
  BY LorisConstants DEF Loris!Ages, Loris!Older
<1>3. Typed(activity, mentions) /\ D \subseteq Caller
  BY DEF LorisInv, Tracks, Keyed, Typed
<1>4. \A a \in D : activity[a] \in Entry
  BY <1>3, TypedParts
<1>5. /\ DOMAIN activity' = D
      /\ \A a \in D : /\ activity'[a] \in Entry /\ activity'[a].seq = activity[a].seq
                      /\ activity'[a].seen = Loris!Older(activity[a].seen)
  BY <1>1, <1>2, <1>4 DEF Entry
<1>6. Live(activity', mentions') = Live(activity, mentions)
  <2>1. ASSUME NEW i PROVE i \in Live(activity', mentions') <=> i \in Live(activity, mentions)
    <3>1. i \in Live(activity', mentions') <=>
            i \in 1..Len(mentions) /\ mentions[i][1] \in D /\ activity'[mentions[i][1]].seq = mentions[i][2]
      <4>1. mentions' = mentions /\ DOMAIN activity' = D
        BY <1>1, <1>5
      <4>2. i \in Live(activity', mentions') <=>
              i \in 1..Len(mentions') /\ mentions'[i][1] \in DOMAIN activity'
              /\ activity'[mentions'[i][1]].seq = mentions'[i][2]
        BY LiveIs
      <4> QED
        BY <4>1, <4>2
    <3> QED
      BY <1>5, <3>1, LiveIs
  <2> QED
    BY <2>1
<1>7. \A x, y : Leads(activity', mentions', x, y) <=> Leads(activity, mentions, x, y)
  BY <1>1, <1>6 DEF Leads
<1>8. Tracks(activity', mentions')
  <2>1. Typed(activity', mentions')
    BY <1>1, <1>3, <1>5 DEF Typed
  <2> QED
    BY <1>1, <1>5, <1>6, <1>7, <2>1 DEF LorisInv, Tracks, Keyed
<1>9. ASSUME NEW c \in Caller
      PROVE  /\ found'[c] = {Loris!Older(age) : age \in found[c]}
             /\ found'[c] = {} \/ \E age \in Loris!Ages : found'[c] = {age}
  <2>1. found'[c] = {Loris!Older(age) : age \in found[c]}
    BY <1>1
  <2>2. CASE found[c] = {}
    BY <2>1, <2>2
  <2>3. ASSUME NEW age \in Loris!Ages, found[c] = {age} PROVE \E a \in Loris!Ages : found'[c] = {a}
    BY <1>2, <2>1, <2>3
  <2> QED
    BY <2>1, <2>2, <2>3 DEF LorisInv
<1>10. found' \in [Caller -> SUBSET Loris!Ages]
  BY <1>1, <1>2 DEF LorisInv
<1>11. LorisInv'
  BY <1>1, <1>5, <1>8, <1>9, <1>10 DEF LorisInv
<1>12. silence' \in [Caller -> Loris!Ages]
  <2>1. 0 \in Loris!Ages
    BY LorisConstants DEF Loris!Ages
  <2> QED
    BY <1>2, <2>1 DEF Heard
<1>13. \A c \in Caller : hook[c] # "closed" => silence'[c] = Loris!Older(silence[c])
  OBVIOUS
<1>14. Heard'
  <2>1. \A c \in DOMAIN activity' : activity'[c].seen = silence'[c]
    BY <1>3, <1>5, <1>13 DEF Heard, LorisInv
  <2>2. \A c \in Caller : hook'[c] = "judging" =>
                            found'[c] = {silence'[c]} \/ (found'[c] = {} /\ c \in evicted')
    BY <1>1, <1>9, <1>13 DEF Heard
  <2>3. \A c \in Caller : hook'[c] # "closed" => c \in DOMAIN activity' \/ c \in evicted'
    BY <1>1, <1>5 DEF Heard
  <2> QED
    BY <1>7, <1>12, <2>1, <2>2, <2>3 DEF Heard
<1> QED
  BY <1>11, <1>14

\* It holds when the server starts: nobody is tracked.
LEMMA LorisInit == HInit => LorisInv /\ Heard
<1> SUFFICES ASSUME HInit PROVE LorisInv /\ Heard
  OBVIOUS
<1>1. /\ activity = [a \in {} |-> [seen |-> 0, seq |-> 1]] /\ mentions = <<>>
      /\ hook = [a \in Caller |-> "closed"] /\ found = [a \in Caller |-> {}]
      /\ silence = [c \in Caller |-> 0] /\ evicted = {} /\ before = {}
  BY DEF HInit, ChainInit, Loris!Init
<1>2. DOMAIN activity = {} /\ Len(mentions) = 0 /\ mentions \in Seq(Mention)
  BY <1>1, EmptySeq
<1>3. Live(activity, mentions) = {}
  BY <1>2 DEF Live
<1>4. Tracks(activity, mentions)
  <2>1. activity \in [DOMAIN activity -> Entry]
    BY <1>1
  <2>2. Cardinality(DOMAIN activity) = 0
    BY <1>2, FS_EmptySet
  <2> QED
    BY <1>2, <1>3, <2>1, <2>2, LorisConstants DEF Tracks, Keyed, Typed, Leads
<1>5. LorisInv
  BY <1>1, <1>2, <1>4 DEF LorisInv, Loris!Places
<1>6. Heard
  BY <1>1, <1>2, <1>3, LorisConstants DEF Heard, Leads, Loris!Ages
<1> QED
  BY <1>5, <1>6

\* Every step of a connection notes it, closes it or leaves the map alone.
LEMMA StepHooks ==
  ASSUME LorisInv, NEW c \in Caller, Steps(c)
  PROVE  Notes(c) \/ Closes(c) \/ Still
<1>1. ASSUME UNCHANGED loris PROVE Still
  BY <1>1 DEF Still, loris, LorisInv
<1>2. ASSUME Loris!OnReserve(c) PROVE Notes(c)
  BY <1>2 DEF Loris!OnReserve, Loris!Goto, Notes
<1>3. ASSUME Loris!NoteActivity(c) \/ Loris!OnPayload(c) PROVE Notes(c)
  BY <1>3 DEF Loris!NoteActivity, Loris!OnPayload, Loris!Goto, Notes
<1>4. ASSUME Loris!OnClose(c) PROVE Closes(c)
  BY <1>4 DEF Loris!OnClose, Loris!Goto, Closes
<1>5. ASSUME Loris!CheckIdle(c) PROVE Still
  <2> DEFINE look == IF c \in DOMAIN activity THEN {activity[c].seen} ELSE {}
  <2>1. /\ hook[c] \in {"open", "failed"} /\ hook' = [hook EXCEPT ![c] = "judging"]
        /\ found' = [found EXCEPT ![c] = look] /\ UNCHANGED <<activity, mentions>>
    BY <1>5 DEF Loris!CheckIdle, Loris!Goto
  <2>2. look = {} \/ \E age \in Loris!Ages : look = {age}
    BY TypedParts DEF LorisInv, Tracks, Keyed
  <2> HIDE DEF look
  <2>3. look \in SUBSET Loris!Ages
    BY <2>2
  <2>4. hook' \in [Caller -> Loris!Places] /\ \A d \in Caller : hook'[d] = "closed" <=> hook[d] = "closed"
    BY <2>1 DEF LorisInv, Loris!Places
  <2>5. /\ found' \in [Caller -> SUBSET Loris!Ages]
        /\ \A d \in Caller : found'[d] = IF d = c THEN look ELSE found[d]
    BY <2>1, <2>3 DEF LorisInv
  <2>6. \A d \in Caller : found'[d] = {} \/ \E age \in Loris!Ages : found'[d] = {age}
    BY <2>2, <2>5 DEF LorisInv
  <2>7. ASSUME NEW d \in Caller, hook'[d] = "judging"
        PROVE  found'[d] = IF hook[d] = "judging" THEN found[d]
                           ELSE IF d \in DOMAIN activity THEN {activity[d].seen} ELSE {}
    <3>1. CASE d = c
      BY <2>1, <2>5, <3>1 DEF look
    <3>2. CASE d # c
      BY <2>1, <2>5, <2>7, <3>2 DEF LorisInv
    <3> QED
      BY <3>1, <3>2
  <2> QED
    BY <2>1, <2>4, <2>5, <2>6, <2>7 DEF Still
<1>6. ASSUME Loris!StillActive(c) \/ Loris!TimedOut(c) \/ Loris!Touched(c) PROVE Still
  <2>1. PICK place \in {"noting", "failed", "open"} :
          /\ hook[c] \in {"judging", "noted"} /\ hook' = [hook EXCEPT ![c] = place]
          /\ UNCHANGED <<activity, mentions>>
    BY <1>6 DEF Loris!StillActive, Loris!TimedOut, Loris!Touched, Loris!Goto
  <2>2. found' = [found EXCEPT ![c] = {}] \/ found' = found
    BY <1>6 DEF Loris!StillActive, Loris!TimedOut, Loris!Touched
  <2>3. hook' \in [Caller -> Loris!Places] /\ \A d \in Caller : hook'[d] = "closed" <=> hook[d] = "closed"
    BY <2>1 DEF LorisInv, Loris!Places
  <2>4. /\ found' \in [Caller -> SUBSET Loris!Ages]
        /\ \A d \in Caller : found'[d] = {} \/ found'[d] = found[d]
        /\ \A d \in Caller \ {c} : found'[d] = found[d]
    BY <2>2 DEF LorisInv
  <2>5. \A d \in Caller : hook'[d] = "judging" => d # c /\ hook[d] = "judging"
    BY <2>1 DEF LorisInv
  <2>6. \A d \in Caller : found'[d] = {} \/ \E age \in Loris!Ages : found'[d] = {age}
    BY <2>4 DEF LorisInv
  <2> QED
    BY <2>1, <2>3, <2>4, <2>5, <2>6 DEF Still
<1>7. CASE AskRateLimiter(c)
  BY <1>1, <1>7 DEF AskRateLimiter
<1>8. CASE AskSlowLoris(c)
  BY <1>2, <1>8 DEF AskSlowLoris
<1>9. CASE Report(c)
  BY <1>3, <1>5, <1>6, <1>9 DEF Report
<1>10. CASE CloseSession(c)
  BY <1>1, <1>4, <1>10 DEF CloseSession
<1> QED
  BY <1>7, <1>8, <1>9, <1>10 DEF Steps

\* A judgement of SlowLoris has its reason: see TimeoutsJustified.
Judged ==
  \A c \in Caller : hook[c] = "judging" =>
    /\ hook'[c] = "failed" => silence[c] > MaxIdle
    /\ hook'[c] = "noting" /\ silence[c] > MaxIdle => c \in evicted

\* Whatever the step of a connection, nobody is judged wrongly.
LEMMA StepJudges ==
  ASSUME LorisInv, Heard, NEW c \in Caller, Steps(c)
  PROVE  Judged
<1>1. /\ \A d \in Caller : silence[d] \in Nat /\ hook[d] \in Loris!Places
      /\ MaxIdle \in Nat
  BY LorisConstants DEF Heard, LorisInv, Loris!Ages
<1>2. ASSUME hook' = hook PROVE Judged
  BY <1>2 DEF Judged
<1>3. ASSUME NEW place, hook' = [hook EXCEPT ![c] = place], hook[c] # "judging" PROVE Judged
  BY <1>3 DEF Judged, LorisInv
<1>4. ASSUME Loris!StillActive(c) PROVE Judged
  <2>1. /\ hook[c] = "judging" /\ hook' = [hook EXCEPT ![c] = "noting"]
        /\ \A age \in found[c] : age <= MaxIdle
    BY <1>4 DEF Loris!StillActive, Loris!Goto
  <2>2. hook'[c] = "noting" /\ \A d \in Caller \ {c} : hook'[d] = hook[d]
    BY <2>1 DEF LorisInv
  <2>3. silence[c] > MaxIdle => c \in evicted
    BY <1>1, <2>1 DEF Heard
  <2> QED
    BY <2>2, <2>3 DEF Judged
<1>5. ASSUME Loris!TimedOut(c) PROVE Judged
  <2>1. /\ hook[c] = "judging" /\ hook' = [hook EXCEPT ![c] = "failed"]
        /\ \E age \in found[c] : age > MaxIdle
    BY <1>5 DEF Loris!TimedOut, Loris!Goto
  <2>2. hook'[c] = "failed" /\ \A d \in Caller \ {c} : hook'[d] = hook[d]
    BY <2>1 DEF LorisInv
  <2>3. silence[c] > MaxIdle
    BY <1>1, <2>1 DEF Heard
  <2> QED
    BY <2>2, <2>3 DEF Judged
<1>6. ASSUME \/ Loris!OnReserve(c) \/ Loris!CheckIdle(c) \/ Loris!NoteActivity(c) \/ Loris!Touched(c)
             \/ Loris!OnPayload(c) \/ Loris!OnClose(c)
      PROVE  Judged
  <2>1. hook[c] # "judging" /\ \E place : hook' = [hook EXCEPT ![c] = place]
    BY <1>6 DEF Loris!OnReserve, Loris!CheckIdle, Loris!NoteActivity, Loris!Touched, Loris!OnPayload,
                Loris!OnClose, Loris!Goto
  <2> QED
    BY <1>3, <2>1
<1>7. CASE AskRateLimiter(c)
  BY <1>2, <1>7 DEF AskRateLimiter, loris
<1>8. CASE AskSlowLoris(c)
  BY <1>6, <1>8 DEF AskSlowLoris
<1>9. CASE Report(c)
  BY <1>4, <1>5, <1>6, <1>9 DEF Report
<1>10. CASE CloseSession(c)
  BY <1>2, <1>6, <1>10 DEF CloseSession, loris
<1> QED
  BY <1>7, <1>8, <1>9, <1>10 DEF Steps

\* Nothing of SlowLoris changes.
LEMMA LorisUnchanged ==
  ASSUME LorisInv, Heard, UNCHANGED <<loris, silence, evicted, before>>
  PROVE  LorisInv' /\ Heard'
BY DEF LorisInv, Heard, loris

-----------------------------------------------------------------------------
(* The steps together *)

\* What holds of the stack at all times.
IInv == RateInv /\ LorisInv /\ Heard

\* The step of a connection asks the rate limiter, or leaves it alone.
LEMMA StepAsks == ASSUME NEW c \in Caller, Steps(c) PROVE Asking(c) \/ UNCHANGED rate
BY DEF Steps, AskRateLimiter, AskSlowLoris, Report, CloseSession

\* What HStep says of the step of one connection.
LEMMA StepIs ==
  ASSUME HStep
  PROVE  Counting /\ Hearing /\ \E c \in Caller : Steps(c)
BY DEF HStep, Counting, Hearing

\* The step of a connection keeps the invariant and does no wrong.
LEMMA StepKeeps ==
  ASSUME IInv, HStep
  PROVE  /\ IInv' /\ EvictsFirst /\ Judged
         /\ \A d \in Caller : Spent(d)
         /\ Meter!Next \/ UNCHANGED Shown
<1>1. PICK c \in Caller : Steps(c)
  BY StepIs
<1>2. RateInv /\ LorisInv /\ Heard /\ Counting /\ Hearing
  BY StepIs DEF IInv
<1>3. RateInv'
  BY <1>1, <1>2, StepAsks, AskingStep, RateUnchanged
<1>4. LorisInv' /\ Heard' /\ EvictsFirst
  BY <1>1, <1>2, StepHooks, NotesStep, ClosesStep, StillStep
<1>5. Judged
  BY <1>1, <1>2, StepJudges
<1>6. \A d \in Caller : Spent(d)
  <2>1. CASE Asking(c)
    BY <1>2, <2>1, AskingSpent
  <2>2. CASE UNCHANGED rate
    <3>1. at' = at
      BY <2>2 DEF rate
    <3> QED
      BY <3>1 DEF Spent
  <2> QED
    BY <1>1, <2>1, <2>2, StepAsks
<1>7. Meter!Next \/ UNCHANGED Shown
  <2>1. CASE Asking(c)
    BY <1>2, <2>1, MeterAsking
  <2>2. CASE UNCHANGED rate
    BY <2>2 DEF rate, Shown, Used, UsedBy
  <2> QED
    BY <1>1, <2>1, <2>2, StepAsks
<1> QED
  BY <1>3, <1>4, <1>5, <1>6, <1>7 DEF IInv

\* So does the passing of time.
LEMMA TimeKeeps ==
  ASSUME IInv, HTime
  PROVE  /\ IInv' /\ EvictsFirst /\ Judged
         /\ \A d \in Caller : Spent(d)
         /\ Meter!Tick
<1>1. /\ Tick /\ Loris!Tick /\ UNCHANGED <<guards, next, evicted, before>>
      /\ passes' = Shifted(passes)
      /\ silence' = [c \in Caller |-> IF hook[c] = "closed" THEN 0 ELSE Loris!Older(silence[c])]
  BY DEF HTime, PassTime, Shifted
<1>2. RateInv' /\ Meter!Tick
  BY <1>1, RateTick, MeterTick DEF IInv
<1>3. LorisInv' /\ Heard'
  BY <1>1, LorisTick DEF IInv
<1>4. at' = at /\ hook' = hook /\ DOMAIN activity' = DOMAIN activity
  BY <1>1 DEF Tick, Loris!Tick
<1>5. Evicted = {}
  BY <1>4 DEF Evicted
<1> QED
  BY <1>1, <1>2, <1>3, <1>4, <1>5 DEF IInv, EvictsFirst, Judged, Spent

\* The invariant holds at the start.
LEMMA StartKeeps == HInit => IInv
BY RateInit, LorisInit DEF IInv

\* Every step keeps it, and a step that does nothing does.
LEMMA AllKeep == ASSUME IInv, [HNext]_hchain PROVE IInv'
<1>1. CASE UNCHANGED hchain
  <2>1. UNCHANGED <<rate, loris, guards, next, passes, silence, evicted, before>>
    BY <1>1 DEF hchain, chain, histories
  <2>2. RateInv'
    BY <2>1, RateUnchanged DEF IInv
  <2>3. LorisInv' /\ Heard'
    BY <2>1, LorisUnchanged DEF IInv
  <2> QED
    BY <2>2, <2>3 DEF IInv
<1> QED
  BY <1>1, StepKeeps, TimeKeeps DEF HNext

\* The invariant of the stack, whatever its guards, sizes, limits and peers.
THEOREM Invariance == HSpec => []IInv
<1>1. IInv /\ [HNext]_hchain => IInv'
  BY AllKeep
<1> QED
  BY <1>1, StartKeeps, PTL DEF HSpec

\* The rate limiter and SlowLoris keep their maps within their bounds and in
\* step with their queues, with calls of many connections interleaved.
THEOREM TracksAlways == HSpec => []TracksExactly
<1>1. IInv => TracksExactly
  BY RateInvTracks, LorisInvTracks DEF IInv, TracksExactly
<1> QED
  BY <1>1, Invariance, PTL

\* No stretch of time as long as the window sees more requests pass allow than
\* global_window_limit.
THEOREM WindowAlways == HSpec => []WindowHolds
<1>1. IInv => WindowHolds
  BY RateInvWindow DEF IInv
<1> QED
  BY <1>1, Invariance, PTL

\* allow refuses only when the window, the common bucket or the address's own
\* is used up.
THEOREM LimitedJustly == HSpec => LimitedOnlyWhenSpent
<1>1. ASSUME IInv, [HNext]_hchain PROVE [\A c \in Caller : Spent(c)]_hchain
  BY <1>1, StepKeeps, TimeKeeps DEF HNext
<1>2. IInv /\ [HNext]_hchain => [\A c \in Caller : Spent(c)]_hchain
  BY <1>1
<1> QED
  BY <1>2, Invariance, PTL DEF HSpec, LimitedOnlyWhenSpent, Spent

\* The buckets of RateLimiter are the meters of TokenMeter: each call,
\* eviction or tick is a step of the meters, or none.
THEOREM MeterImplemented == HSpec => ImplementsMeter
<1>1. ASSUME IInv, [HNext]_hchain PROVE [Meter!Next]_Shown
  <2>1. CASE UNCHANGED hchain
    BY <2>1 DEF hchain, chain, rate, Shown, Used, UsedBy
  <2>2. CASE HNext
    BY <1>1, <2>2, StepKeeps, TimeKeeps DEF HNext, Meter!Next
  <2> QED
    BY <1>1, <2>1, <2>2
<1>2. IInv /\ [HNext]_hchain => [Meter!Next]_Shown
  BY <1>1
<1> QED
  BY <1>2, MeterInit, Invariance, PTL DEF HSpec, ImplementsMeter, Meter!Spec, Shown

\* Who has to make room in SlowLoris was noted before everyone else.
THEOREM EvictsJustly == HSpec => EvictsLeastRecent
<1>1. ASSUME IInv, [HNext]_hchain PROVE [EvictsFirst]_hchain
  BY <1>1, StepKeeps, TimeKeeps DEF HNext
<1>2. IInv /\ [HNext]_hchain => [EvictsFirst]_hchain
  BY <1>1
<1> QED
  BY <1>2, Invariance, PTL DEF HSpec, EvictsLeastRecent, EvictsFirst

\* SlowLoris times out who has been silent for too long and nobody else, except
\* that it lets an evicted connection off.
THEOREM TimesOutJustly == HSpec => TimeoutsJustified
<1>1. ASSUME IInv, [HNext]_hchain PROVE [Judged]_hchain
  BY <1>1, StepKeeps, TimeKeeps DEF HNext
<1>2. IInv /\ [HNext]_hchain => [Judged]_hchain
  BY <1>1
<1> QED
  BY <1>2, Invariance, PTL DEF HSpec, TimeoutsJustified, Judged
=============================================================================
