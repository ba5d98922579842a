--------------------------- MODULE DispatchProofs ---------------------------
(***************************************************************************)
(* Proofs about Dispatch for any backends, weights, hashes, rules and      *)
(* groups: that a peer is sent to a backend of the pool, that a change      *)
(* moves only the peers it means, and that turns are fair.                 *)
(***************************************************************************)
EXTENDS MCDispatch, SequenceTheorems, WellFoundedInduction, TLAPS

-----------------------------------------------------------------------------
(* Naturals: least elements and remainders *)

\* A set of naturals has a least element.
LEMMA Least ==
  ASSUME NEW T, T \subseteq Nat, T # {}
  PROVE  \E x \in T : \A y \in T : x <= y
<1> DEFINE R == OpToRel(<, Nat)
<1>1. IsWellFoundedOn(R, Nat)
  BY NatLessThanWellFounded
<1>2. \A x, y \in Nat : <<y, x>> \in R <=> y < x
  BY DEF OpToRel
<1> HIDE DEF R
<1>3. PICK x \in T : \A y \in T : <<y, x>> \notin R
  BY <1>1, WFMin
<1>4. ASSUME NEW y \in T PROVE x <= y
  <2>1. x \in Nat /\ y \in Nat /\ ~(y < x)
    BY <1>2, <1>3
  <2> QED
    BY <2>1
<1> QED
  BY <1>4

\* Induction up to m, for a property that is given as a set.
LEMMA Upward ==
  ASSUME NEW m \in Nat, NEW T, 0 \in T, \A n \in 1..m : n - 1 \in T => n \in T
  PROVE  m \in T
<1> DEFINE Bad == {n \in 0..m : n \notin T}
<1>1. ASSUME Bad # {} PROVE FALSE
  <2>1. PICK n \in Bad : \A k \in Bad : n <= k
    <3>1. Bad \subseteq Nat
      OBVIOUS
    <3> QED
      BY <1>1, <3>1, Least
  <2>2. n \in 1..m /\ n - 1 \in 0..m /\ n - 1 \notin Bad
    BY <2>1
  <2> QED
    BY <2>1, <2>2
<1> QED
  BY <1>1

\* Quotient and remainder.
LEMMA Division ==
  ASSUME NEW x \in Nat, NEW n \in Nat \ {0}
  PROVE  x = n * (x \div n) + (x % n) /\ x \div n \in Int /\ x % n \in 0..(n - 1)
OBVIOUS

\* Only 0 has a multiple of n nearer to 0 than n.
LEMMA SmallMultiple ==
  ASSUME NEW n \in Nat \ {0}, NEW d \in Int, n * d < n, -n < n * d
  PROVE  d = 0
<1>1. CASE d >= 1
  <2>1. n * d >= n
    BY <1>1
  <2> QED
    BY <2>1
<1>2. CASE d <= -1
  <2>1. n * d <= -n
    BY <1>2
  <2> QED
    BY <2>1
<1> QED
  BY <1>1, <1>2

\* The remainder is the only one.
LEMMA RemainderIs ==
  ASSUME NEW x \in Nat, NEW n \in Nat \ {0}, NEW q \in Int, NEW r \in 0..(n - 1), x = n * q + r
  PROVE  x % n = r
<1> DEFINE p == x \div n
           s == x % n
<1>1. x = n * p + s /\ p \in Int /\ s \in 0..(n - 1)
  BY Division
<1> HIDE DEF p, s
<1>2. n * (p - q) = r - s
  BY <1>1
<1>3. p - q \in Int /\ r - s < n /\ -n < r - s
  BY <1>1
<1>4. p - q = 0
  BY <1>2, <1>3, SmallMultiple
<1>5. s = r
  BY <1>1, <1>4
<1> QED
  BY <1>5 DEF s

\* Where the turn goes when the counter moves on.
LEMMA NextRemainder ==
  ASSUME NEW c \in Nat, NEW n \in Nat \ {0}
  PROVE  (c + 1) % n = IF (c % n) + 1 = n THEN 0 ELSE (c % n) + 1
<1> DEFINE q == c \div n
           r == c % n
<1>1. c = n * q + r /\ q \in Int /\ r \in 0..(n - 1)
  BY Division
<1> HIDE DEF q, r
<1>2. CASE r + 1 = n
  <2>1. c + 1 = n * (q + 1) + 0 /\ q + 1 \in Int /\ 0 \in 0..(n - 1) /\ c + 1 \in Nat
    BY <1>1, <1>2
  <2> QED
    BY <1>2, <2>1, RemainderIs DEF r
<1>3. CASE r + 1 # n
  <2>1. c + 1 = n * q + (r + 1) /\ r + 1 \in 0..(n - 1) /\ c + 1 \in Nat
    BY <1>1, <1>3
  <2>2. (c + 1) % n = r + 1
    BY <1>1, <2>1, RemainderIs
  <2> QED
    BY <1>3, <2>2 DEF r
<1> QED
  BY <1>2, <1>3

-----------------------------------------------------------------------------
(* remove_backend: what retain leaves *)

Listed == [addr : Backend, weight : Weights]

\* What the loop makes of the first n backends, given what it made of fewer.
Kept(bs, addr, f, n) ==
  IF n = 0 THEN <<>>
  ELSE IF bs[n].addr # addr THEN Append(f[n - 1], bs[n]) ELSE f[n - 1]

\* The loop runs to its end.
LEMMA KeptExists ==
  ASSUME NEW bs \in Seq(Listed), NEW addr
  PROVE  \E f \in [0..Len(bs) -> Seq(Listed)] : \A n \in 0..Len(bs) : f[n] = Kept(bs, addr, f, n)
<1> DEFINE Runs(m) == \E f \in [0..m -> Seq(Listed)] : \A n \in 0..m : f[n] = Kept(bs, addr, f, n)
<1>1. Len(bs) \in Nat /\ \A n \in 1..Len(bs) : bs[n] \in Listed
  BY LenProperties, ElementOfSeq
<1>2. Runs(0)
  <2>1. [n \in 0..0 |-> <<>>] \in [0..0 -> Seq(Listed)]
    BY EmptySeq
  <2>2. \A n \in 0..0 : [k \in 0..0 |-> <<>>][n] = Kept(bs, addr, [k \in 0..0 |-> <<>>], n)
    BY DEF Kept
  <2> QED
    BY <2>1, <2>2
<1>3. ASSUME NEW m \in 0..Len(bs), m + 1 \in 0..Len(bs), Runs(m) PROVE Runs(m + 1)
  <2>1. PICK f \in [0..m -> Seq(Listed)] : \A n \in 0..m : f[n] = Kept(bs, addr, f, n)
    BY <1>3
  <2> DEFINE g == [n \in 0..m + 1 |-> IF n <= m THEN f[n] ELSE Kept(bs, addr, f, m + 1)]
  <2>2. Kept(bs, addr, f, m + 1) \in Seq(Listed)
    <3>1. f[m] \in Seq(Listed) /\ bs[m + 1] \in Listed /\ m + 1 # 0 /\ (m + 1) - 1 = m
      BY <1>1, <1>3
    <3>2. Append(f[m], bs[m + 1]) \in Seq(Listed)
      BY <3>1, AppendProperties
    <3> QED
      BY <3>1, <3>2 DEF Kept
  <2>3. g \in [0..m + 1 -> Seq(Listed)]
    BY <2>2
  <2>4. ASSUME NEW n \in 0..m + 1 PROVE g[n] = Kept(bs, addr, g, n)
    <3>1. n # 0 => g[n - 1] = f[n - 1]
      BY <1>1
    <3>2. Kept(bs, addr, g, n) = Kept(bs, addr, f, n)
      BY <3>1 DEF Kept
    <3> HIDE DEF Kept
    <3>3. CASE n <= m
      BY <2>1, <3>2, <3>3
    <3>4. CASE n = m + 1
      BY <1>1, <3>2, <3>4
    <3> QED
      BY <3>3, <3>4
  <2> HIDE DEF g
  <2> QED
    BY <2>3, <2>4
<1> HIDE DEF Runs
<1> DEFINE Done == {m \in 0..Len(bs) : Runs(m)}
<1>4. 0 \in Done
  BY <1>1, <1>2
<1>5. ASSUME NEW n \in 1..Len(bs), n - 1 \in Done PROVE n \in Done
  <2>1. n - 1 \in 0..Len(bs) /\ (n - 1) + 1 = n /\ n \in 0..Len(bs)
    BY <1>1
  <2> QED
    BY <1>3, <1>5, <2>1
<1> HIDE DEF Done
<1>6. Len(bs) \in Done
  BY <1>1, <1>4, <1>5, Upward
<1> QED
  BY <1>6 DEF Done, Runs

\* What is kept: the others, and the first of all if it is one of them.
LEMMA WithoutIs ==
  ASSUME NEW bs \in Seq(Listed), NEW addr
  PROVE  /\ Without(bs, addr) \in Seq(Listed) /\ Len(Without(bs, addr)) <= Len(bs)
         /\ ToSet(Without(bs, addr)) = {b \in ToSet(bs) : b.addr # addr}
         /\ bs # <<>> /\ bs[1].addr # addr
              => Without(bs, addr) # <<>> /\ Without(bs, addr)[1] = bs[1]
<1> DEFINE kept == CHOOSE f : f = [n \in 0..Len(bs) |-> Kept(bs, addr, f, n)]
           Others(n) == {b \in Listed : b.addr # addr /\ \E i \in 1..n : bs[i] = b}
           Good(n) == /\ kept[n] \in Seq(Listed) /\ Len(kept[n]) <= n
                      /\ ToSet(kept[n]) = Others(n)
                      /\ n # 0 /\ bs[1].addr # addr => Len(kept[n]) # 0 /\ kept[n][1] = bs[1]
<1>1. /\ Len(bs) \in Nat /\ DOMAIN bs = 1..Len(bs)
      /\ \A n \in 1..Len(bs) : bs[n] \in Listed
  BY LenProperties, ElementOfSeq
<1>2. \A n \in 0..Len(bs) : kept[n] = Kept(bs, addr, kept, n)
  <2>1. PICK f \in [0..Len(bs) -> Seq(Listed)] : \A n \in 0..Len(bs) : f[n] = Kept(bs, addr, f, n)
    BY KeptExists
  <2>2. f = [n \in 0..Len(bs) |-> Kept(bs, addr, f, n)]
    BY <2>1
  <2>3. kept = [n \in 0..Len(bs) |-> Kept(bs, addr, kept, n)]
    BY <2>2
  <2> HIDE DEF kept
  <2> QED
    BY <2>3
<1>3. Without(bs, addr) = kept[Len(bs)]
  BY DEF Without, Kept
<1> HIDE DEF kept
<1>4. Good(0)
  <2>1. kept[0] = <<>>
    BY <1>1, <1>2 DEF Kept
  <2>2. Others(0) = {} /\ ToSet(<<>>) = {} /\ <<>> \in Seq(Listed) /\ Len(<<>>) = 0
    BY EmptySeq DEF ToSet
  <2> QED
    BY <2>1, <2>2
<1>5. ASSUME NEW n \in 1..Len(bs), Good(n - 1) PROVE Good(n)
  <2>1. n # 0 /\ bs[n] \in Listed /\ kept[n] = Kept(bs, addr, kept, n) /\ n - 1 \in Nat /\ n \in Nat
    BY <1>1, <1>2
  <2>2. Others(n) = Others(n - 1) \cup (IF bs[n].addr # addr THEN {bs[n]} ELSE {})
    <3>1. 1..n = (1..n - 1) \cup {n}
      BY <1>1
    <3> QED
      BY <2>1, <3>1
  <2>3. Len(kept[n - 1]) \in Nat /\ DOMAIN kept[n - 1] = 1..Len(kept[n - 1])
    BY <1>5, LenProperties
  <2> HIDE DEF Others
  <2>4. CASE bs[n].addr = addr
    <3>1. kept[n] = kept[n - 1]
      BY <2>1, <2>4 DEF Kept
    <3>2. bs[1].addr # addr => n - 1 # 0
      BY <2>1, <2>4
    <3> QED
      BY <1>5, <2>1, <2>2, <2>3, <2>4, <3>1, <3>2
  <2>5. CASE bs[n].addr # addr
    <3> DEFINE more == Append(kept[n - 1], bs[n])
    <3>1. kept[n] = more
      BY <2>1, <2>5 DEF Kept
    <3>2. /\ more \in Seq(Listed) /\ Len(more) = Len(kept[n - 1]) + 1
          /\ \A i \in 1..Len(kept[n - 1]) : more[i] = kept[n - 1][i]
          /\ more[Len(kept[n - 1]) + 1] = bs[n]
      BY <1>5, <2>1, AppendProperties
    <3> HIDE DEF more
    <3>3. DOMAIN more = 1..Len(kept[n - 1]) + 1
      BY <3>2, LenProperties
    <3>4. ToSet(more) = ToSet(kept[n - 1]) \cup {bs[n]}
      BY <2>3, <3>2, <3>3 DEF ToSet
    <3>5. bs[1].addr # addr => more[1] = bs[1]
      <4>1. CASE n = 1
        <5>1. Len(kept[n - 1]) = 0
          BY <1>5, <2>3, <4>1
        <5> QED
          BY <3>2, <4>1, <5>1
      <4>2. CASE n # 1
        <5>1. bs[1].addr # addr => Len(kept[n - 1]) # 0 /\ kept[n - 1][1] = bs[1]
          BY <1>5, <2>1, <4>2
        <5> QED
          BY <2>3, <3>2, <5>1
      <4> QED
        BY <4>1, <4>2
    <3> QED
      BY <1>5, <2>1, <2>2, <2>3, <2>5, <3>1, <3>2, <3>4, <3>5
  <2> QED
    BY <2>4, <2>5
<1> HIDE DEF Good
<1> DEFINE Done == {n \in 0..Len(bs) : Good(n)}
<1>6. Good(Len(bs))
  <2>1. 0 \in Done
    BY <1>1, <1>4
  <2>2. \A n \in 1..Len(bs) : n - 1 \in Done => n \in Done
    BY <1>1, <1>5
  <2> HIDE DEF Done
  <2>3. Len(bs) \in Done
    BY <1>1, <2>1, <2>2, Upward
  <2> QED
    BY <2>3 DEF Done
<1>7. Others(Len(bs)) = {b \in ToSet(bs) : b.addr # addr}
  BY <1>1 DEF ToSet
<1>8. bs # <<>> => Len(bs) # 0
  BY EmptySeq
<1>9. Without(bs, addr) = <<>> => Len(Without(bs, addr)) = 0
  BY EmptySeq
<1> QED
  BY <1>3, <1>6, <1>7, <1>8, <1>9 DEF Good

-----------------------------------------------------------------------------
(* select: the backend that a hash of the peer picks *)

\* The nodes of the ring as what they say: a hash, and the address it stands for.
PointsOf(b) == {<<NodeHash[<<b.addr, n>>], b.addr>> : n \in 0..(Replicas * b.weight - 1)}
Points(S) == UNION {PointsOf(b) : b \in S}

\* p is the point at or after the hash k, or the first of all.
Chosen(P, k, p) ==
  /\ p \in P
  /\ \/ k <= p[1] /\ \A q \in P : k <= q[1] => p[1] <= q[1]
     \/ (\A q \in P : q[1] < k) /\ \A q \in P : p[1] <= q[1]

\* x is what the pool with the backends bs gives to a key.
Picks(bs, key, x) ==
  LET P == Points(ToSet(bs))
  IN  IF P = {} THEN x = bs[1].addr
      ELSE \E p \in P : Chosen(P, KeyHash[key], p) /\ x = p[2]

\* The points of one backend.
LEMMA PointOf ==
  ASSUME NEW b, NEW p
  PROVE  p \in PointsOf(b) <=> \E n \in 0..(Replicas * b.weight - 1) : p = <<NodeHash[<<b.addr, n>>], b.addr>>
BY DEF PointsOf

\* They stand for its address.
LEMMA PointAddr == \A b : \A p \in PointsOf(b) : p[2] = b.addr
<1> SUFFICES ASSUME NEW b, NEW p \in PointsOf(b) PROVE p[2] = b.addr
  OBVIOUS
<1>1. PICK n : p = <<NodeHash[<<b.addr, n>>], b.addr>>
  BY PointOf
<1> QED
  BY <1>1

\* A node that the ring can have has a hash.
LEMMA NodeType ==
  ASSUME NEW b \in Listed, NEW n \in 0..(Replicas * b.weight - 1)
  PROVE  <<b.addr, n>> \in DOMAIN NodeHash /\ NodeHash[<<b.addr, n>>] \in Nat /\ b.addr \in Backend
<1> DEFINE addr == b.addr
           weight == b.weight
<1>1. addr \in Backend /\ weight \in Weights
  BY DEF Listed
<1>2. \A i \in 0..(Replicas * weight - 1) : <<addr, i>> \in DOMAIN NodeHash /\ NodeHash[<<addr, i>>] \in Nat
  <2> HIDE DEF addr, weight
  <2> QED
    BY <1>1, PoolAssumption
<1> QED
  BY <1>1, <1>2

\* Points are pairs, and two with the same hash are the same.
LEMMA PointsType ==
  ASSUME NEW S, S \subseteq Listed
  PROVE  /\ \A p \in Points(S) : p[1] \in Nat /\ p[2] \in Backend
         /\ \A p, q \in Points(S) : p[1] = q[1] => p = q
<1>1. ASSUME NEW p \in Points(S)
      PROVE  \E x \in DOMAIN NodeHash : /\ p = <<NodeHash[x], x[1]>>
                                        /\ x[1] \in Backend /\ NodeHash[x] \in Nat
  <2>1. PICK b \in S : p \in PointsOf(b)
    BY DEF Points
  <2>2. PICK n \in 0..(Replicas * b.weight - 1) : p = <<NodeHash[<<b.addr, n>>], b.addr>>
    BY <2>1, PointOf
  <2>3. b \in Listed
    BY <2>1
  <2> DEFINE x == <<b.addr, n>>
  <2>4. x \in DOMAIN NodeHash /\ NodeHash[x] \in Nat /\ x[1] \in Backend /\ x[1] = b.addr
    BY <2>2, <2>3, NodeType
  <2>5. p = <<NodeHash[x], x[1]>>
    BY <2>2, <2>4
  <2> HIDE DEF x
  <2> QED
    BY <2>4, <2>5
<1>2. \A p \in Points(S) : p[1] \in Nat /\ p[2] \in Backend
  <2> SUFFICES ASSUME NEW p \in Points(S) PROVE p[1] \in Nat /\ p[2] \in Backend
    OBVIOUS
  <2>1. PICK x \in DOMAIN NodeHash : p = <<NodeHash[x], x[1]>> /\ x[1] \in Backend /\ NodeHash[x] \in Nat
    BY <1>1
  <2> QED
    BY <2>1
<1>3. ASSUME NEW p \in Points(S), NEW q \in Points(S), p[1] = q[1] PROVE p = q
  <2>1. PICK x \in DOMAIN NodeHash : p = <<NodeHash[x], x[1]>>
    BY <1>1
  <2>2. PICK y \in DOMAIN NodeHash : q = <<NodeHash[y], y[1]>>
    BY <1>1
  <2>3. NodeHash[x] = NodeHash[y]
    BY <1>3, <2>1, <2>2
  <2>4. x = y
    BY <2>3, PoolAssumption
  <2> QED
    BY <2>1, <2>2, <2>4
<1> QED
  BY <1>2, <1>3

\* There is one choice.
LEMMA ChoiceUnique ==
  ASSUME NEW S, S \subseteq Listed, NEW k \in Nat, NEW p, NEW q,
         Chosen(Points(S), k, p), Chosen(Points(S), k, q)
  PROVE  p = q
<1>1. p \in Points(S) /\ q \in Points(S) /\ p[1] \in Nat /\ q[1] \in Nat
  BY PointsType DEF Chosen
<1>2. p[1] <= q[1] /\ q[1] <= p[1]
  BY <1>1 DEF Chosen
<1> QED
  BY <1>1, <1>2, PointsType

\* What is chosen of many is chosen of fewer that it is among.
LEMMA ChoiceOfFewer ==
  ASSUME NEW S, NEW T, S \subseteq T, T \subseteq Listed, NEW k \in Nat, NEW p,
         Chosen(Points(T), k, p), p \in Points(S)
  PROVE  Chosen(Points(S), k, p)
<1>1. Points(S) \subseteq Points(T)
  BY DEF Points
<1>2. \A q \in Points(T) : q[1] \in Nat
  BY PointsType
<1> QED
  BY <1>1, <1>2 DEF Chosen

\* A backend more gets some of the peers; nobody else moves.
LEMMA AddMoves ==
  ASSUME NEW bs \in Seq(Listed), bs # <<>>, NEW b \in Listed, NEW key \in Key, NEW x, NEW y,
         Picks(bs, key, x), Picks(Append(bs, b), key, y)
  PROVE  y = x \/ y = b.addr
<1> DEFINE S == ToSet(bs)
           T == ToSet(Append(bs, b))
           k == KeyHash[key]
<1>1. /\ Append(bs, b) \in Seq(Listed) /\ Len(Append(bs, b)) = Len(bs) + 1
      /\ \A i \in 1..Len(bs) : Append(bs, b)[i] = bs[i]
      /\ Append(bs, b)[Len(bs) + 1] = b
  BY AppendProperties
<1>2. /\ Len(bs) \in Nat \ {0} /\ DOMAIN bs = 1..Len(bs) /\ \A i \in 1..Len(bs) : bs[i] \in Listed
      /\ DOMAIN Append(bs, b) = 1..Len(bs) + 1
  BY <1>1, LenProperties, EmptySeq, ElementOfSeq
<1>3. T = S \cup {b} /\ S \subseteq Listed
  BY <1>1, <1>2 DEF ToSet
<1>4. Append(bs, b)[1] = bs[1] /\ k \in Nat
  <2>1. 1 \in 1..Len(bs)
    BY <1>2
  <2> QED
    BY <1>1, <2>1, PoolAssumption
<1> HIDE DEF S, T, k
<1>5. Points(T) = Points(S) \cup PointsOf(b)
  BY <1>3 DEF Points
<1>6. CASE Points(T) = {}
  BY <1>4, <1>5, <1>6 DEF Picks, S, T
<1>7. CASE Points(T) # {}
  <2>1. PICK q \in Points(T) : Chosen(Points(T), k, q) /\ y = q[2]
    BY <1>7 DEF Picks, T, k
  <2>2. CASE q \in PointsOf(b)
    BY <2>1, <2>2, PointAddr
  <2>3. CASE q \in Points(S)
    <3>1. PICK p \in Points(S) : Chosen(Points(S), k, p) /\ x = p[2]
      BY <2>3 DEF Picks, S, k
    <3>2. Chosen(Points(S), k, q)
      <4>1. T \subseteq Listed /\ S \subseteq T
        BY <1>3
      <4> QED
        BY <1>4, <2>1, <2>3, <4>1, ChoiceOfFewer
    <3>3. p = q
      BY <1>3, <1>4, <3>1, <3>2, ChoiceUnique
    <3> QED
      BY <2>1, <3>1, <3>3
  <2> QED
    BY <1>5, <2>1, <2>2, <2>3
<1> QED
  BY <1>6, <1>7

\* When a backend is removed, the peers of the others stay.
LEMMA RemoveMoves ==
  ASSUME NEW bs \in Seq(Listed), bs # <<>>, NEW addr, NEW key \in Key, NEW x, NEW y,
         Without(bs, addr) # <<>>, x # addr,
         Picks(bs, key, x), Picks(Without(bs, addr), key, y)
  PROVE  y = x
<1> DEFINE S == ToSet(Without(bs, addr))
           T == ToSet(bs)
           k == KeyHash[key]
<1>1. /\ S = {b \in T : b.addr # addr}
      /\ bs[1].addr # addr => Without(bs, addr)[1] = bs[1]
  BY WithoutIs
<1>2. T \subseteq Listed /\ k \in Nat
  <2>1. DOMAIN bs = 1..Len(bs) /\ \A i \in 1..Len(bs) : bs[i] \in Listed
    BY LenProperties, ElementOfSeq
  <2> QED
    BY <2>1, PoolAssumption DEF ToSet
<1> HIDE DEF S, T, k
<1>3. Points(S) = {p \in Points(T) : p[2] # addr}
  <2>1. \A b \in T : \A p \in PointsOf(b) : p[2] = b.addr
    BY PointAddr
  <2> QED
    BY <1>1, <2>1 DEF Points
<1>4. CASE Points(T) = {}
  BY <1>1, <1>3, <1>4 DEF Picks, S, T
<1>5. CASE Points(T) # {}
  <2>1. PICK p \in Points(T) : Chosen(Points(T), k, p) /\ x = p[2]
    BY <1>5 DEF Picks, T, k
  <2>2. p \in Points(S)
    BY <1>3, <2>1
  <2>3. Chosen(Points(S), k, p)
    BY <1>1, <1>2, <2>1, <2>2, ChoiceOfFewer
  <2>4. PICK q \in Points(S) : Chosen(Points(S), k, q) /\ y = q[2]
    BY <2>2 DEF Picks, S, k
  <2>5. p = q
    BY <1>1, <1>2, <2>3, <2>4, ChoiceUnique
  <2> QED
    BY <2>1, <2>4, <2>5
<1> QED
  BY <1>4, <1>5

-----------------------------------------------------------------------------
(* The ring *)

\* Nodes and Hashed for given backends and nodes.
RingOf(bs) ==
  UNION {{[hash |-> NodeHash[<<bs[i].addr, n>>], idx |-> i] : n \in 0..(Replicas * bs[i].weight - 1)}
         : i \in DOMAIN bs}
HashedIn(bs, nodes, key) ==
  LET after == {n \in nodes : n.hash >= KeyHash[key]}
  IN  IF nodes = {} THEN bs[1].addr
      ELSE IF after = {} THEN bs[First(nodes).idx].addr
      ELSE bs[First(after).idx].addr

\* A ring has a first node.
LEMMA FirstIs ==
  ASSUME NEW nodes, nodes # {}, \A n \in nodes : n.hash \in Nat
  PROVE  First(nodes) \in nodes /\ \A m \in nodes : First(nodes).hash <= m.hash
<1> DEFINE H == {n.hash : n \in nodes}
<1>1. H \subseteq Nat /\ H # {}
  OBVIOUS
<1>2. PICK h \in H : \A g \in H : h <= g
  BY <1>1, Least
<1>3. PICK n \in nodes : n.hash = h
  OBVIOUS
<1>4. \E k \in nodes : \A m \in nodes : k.hash <= m.hash
  BY <1>2, <1>3
<1> QED
  BY <1>4 DEF First

\* A node stands for a point of the backend it indexes, and every point has one.
LEMMA NodesArePoints ==
  ASSUME NEW bs \in Seq(Listed)
  PROVE  /\ \A n \in RingOf(bs) : /\ n.idx \in DOMAIN bs /\ n.hash \in Nat
                                  /\ <<n.hash, bs[n.idx].addr>> \in Points(ToSet(bs))
         /\ \A p \in Points(ToSet(bs)) : \E n \in RingOf(bs) : n.hash = p[1]
<1>1. \A i \in DOMAIN bs : bs[i] \in Listed /\ bs[i] \in ToSet(bs)
  BY LenProperties, ElementOfSeq DEF ToSet
<1>2. ASSUME NEW n \in RingOf(bs)
      PROVE  n.idx \in DOMAIN bs /\ n.hash \in Nat /\ <<n.hash, bs[n.idx].addr>> \in Points(ToSet(bs))
  <2>1. PICK i \in DOMAIN bs : \E k \in 0..(Replicas * bs[i].weight - 1) :
                                  n = [hash |-> NodeHash[<<bs[i].addr, k>>], idx |-> i]
    BY DEF RingOf
  <2>2. PICK k \in 0..(Replicas * bs[i].weight - 1) :
               n = [hash |-> NodeHash[<<bs[i].addr, k>>], idx |-> i]
    BY <2>1
  <2>3. n.idx = i /\ n.hash = NodeHash[<<bs[i].addr, k>>]
    BY <2>2
  <2>4. n.hash \in Nat
    BY <1>1, <2>3, NodeType
  <2>5. <<n.hash, bs[i].addr>> \in PointsOf(bs[i])
    BY <2>3, PointOf
  <2> QED
    BY <1>1, <2>3, <2>4, <2>5 DEF Points
<1>3. ASSUME NEW p \in Points(ToSet(bs)) PROVE \E n \in RingOf(bs) : n.hash = p[1]
  <2>1. PICK i \in DOMAIN bs : p \in PointsOf(bs[i])
    BY DEF Points, ToSet
  <2>2. PICK k \in 0..(Replicas * bs[i].weight - 1) : p = <<NodeHash[<<bs[i].addr, k>>], bs[i].addr>>
    BY <2>1, PointOf
  <2> DEFINE n == [hash |-> NodeHash[<<bs[i].addr, k>>], idx |-> i]
  <2>3. n \in RingOf(bs)
    BY DEF RingOf
  <2> QED
    BY <2>2, <2>3
<1> QED
  BY <1>2, <1>3

\* What select finds on the ring is what the points say.
LEMMA HashedPicks ==
  ASSUME NEW bs \in Seq(Listed), NEW key \in Key
  PROVE  Picks(bs, key, HashedIn(bs, RingOf(bs), key))
<1> DEFINE nodes == RingOf(bs)
           P     == Points(ToSet(bs))
           k     == KeyHash[key]
           after == {n \in nodes : n.hash >= k}
<1>1. k \in Nat
  BY PoolAssumption
<1>2. /\ \A n \in nodes : n.hash \in Nat /\ <<n.hash, bs[n.idx].addr>> \in P
      /\ \A p \in P : \E n \in nodes : n.hash = p[1]
  BY NodesArePoints
<1>3. HashedIn(bs, nodes, key) = IF nodes = {} THEN bs[1].addr
                                 ELSE IF after = {} THEN bs[First(nodes).idx].addr
                                 ELSE bs[First(after).idx].addr
  BY DEF HashedIn
<1>4. P = {} <=> nodes = {}
  BY <1>2
<1> HIDE DEF nodes, P, k
<1>5. CASE nodes = {}
  BY <1>3, <1>4, <1>5 DEF Picks, P, nodes
<1>6. CASE nodes # {}
  <2> DEFINE n == IF after = {} THEN First(nodes) ELSE First(after)
             p == <<n.hash, bs[n.idx].addr>>
  <2>1. /\ n \in nodes
        /\ after = {} => \A m \in nodes : n.hash <= m.hash
        /\ after # {} => n \in after /\ \A m \in after : n.hash <= m.hash
    <3>1. First(nodes) \in nodes /\ \A m \in nodes : First(nodes).hash <= m.hash
      BY <1>2, <1>6, FirstIs
    <3>2. after # {} => First(after) \in after /\ \A m \in after : First(after).hash <= m.hash
      BY <1>2, FirstIs
    <3> QED
      BY <3>1, <3>2
  <2>2. HashedIn(bs, nodes, key) = bs[n.idx].addr
    BY <1>3, <1>6
  <2> HIDE DEF n
  <2>3. p \in P /\ p[1] = n.hash /\ p[2] = bs[n.idx].addr /\ n.hash \in Nat
    BY <1>2, <2>1
  <2> HIDE DEF p
  <2>4. Chosen(P, k, p)
    <3>1. CASE after = {}
      <4>1. ASSUME NEW q \in P PROVE q[1] < k /\ p[1] <= q[1]
        <5>1. PICK m \in nodes : m.hash = q[1]
          BY <1>2
        <5>2. m.hash \in Nat /\ ~(m.hash >= k) /\ n.hash <= m.hash
          BY <1>2, <2>1, <3>1
        <5> QED
          BY <1>1, <2>3, <5>1, <5>2
      <4> QED
        BY <2>3, <4>1 DEF Chosen
    <3>2. CASE after # {}
      <4>1. k <= p[1] /\ \A q \in P : k <= q[1] => p[1] <= q[1]
        BY <1>1, <1>2, <2>1, <2>3, <3>2
      <4> QED
        BY <2>3, <4>1 DEF Chosen
    <3> QED
      BY <3>1, <3>2
  <2> QED
    BY <1>4, <1>6, <2>2, <2>3, <2>4 DEF Picks, P, k, nodes
<1> QED
  BY <1>5, <1>6 DEF nodes

\* It is one of the backends.
LEMMA PickIsListed ==
  ASSUME NEW bs \in Seq(Listed), bs # <<>>, NEW key \in Key, NEW x, Picks(bs, key, x)
  PROVE  \E i \in DOMAIN bs : bs[i].addr = x
<1>1. 1 \in DOMAIN bs
  BY LenProperties, EmptySeq
<1>2. \A p \in Points(ToSet(bs)) : \E i \in DOMAIN bs : bs[i].addr = p[2]
  BY PointAddr DEF Points, ToSet
<1> QED
  BY <1>1, <1>2 DEF Picks

-----------------------------------------------------------------------------
(* The invariant *)

\* The ring is always that of the list of backends: no index outlives it.
IInv == PoolTypeOK /\ TableTypeOK /\ ring = Nodes(backends)

\* What a list of backends needs to be the pool's.
LEMMA RingType ==
  ASSUME NEW bs \in Seq(Listed), Len(bs) <= MaxBackends, strategy' = strategy,
         strategy \in {"roundRobin", "consistentHash"},
         backends' = bs, ring' = Nodes(bs), counter' \in 0..(CounterMod - 1)
  PROVE  PoolTypeOK' /\ ring' = Nodes(backends)'
<1>1. Nodes(bs) = IF strategy = "roundRobin" THEN {} ELSE RingOf(bs)
  BY DEF Nodes, RingOf
<1>2. Nodes(backends)' = Nodes(bs)
  BY DEF Nodes
<1>3. \A n \in Nodes(bs) : n.idx \in DOMAIN bs
  BY <1>1, NodesArePoints
<1> QED
  BY <1>2, <1>3 DEF PoolTypeOK, Listed

\* The program starts with an empty pool and an empty table.
LEMMA InitIInv == Init => IInv
<1> SUFFICES ASSUME Init PROVE IInv
  OBVIOUS
<1>1. <<>> \in Seq(Listed) /\ <<>> \in Seq(Rule) /\ Len(<<>>) = 0 /\ DOMAIN <<>> = {}
  <2>1. <<>> \in Seq(Listed) /\ <<>> \in Seq(Rule) /\ Len(<<>>) = 0
    BY EmptySeq
  <2> QED
    BY <2>1, LenProperties
<1>2. Nodes(<<>>) = {}
  BY <1>1 DEF Nodes
<1>3. PoolTypeOK
  BY <1>1, PoolAssumption DEF Init, PoolInit, PoolTypeOK, Listed
<1>4. TableTypeOK
  <2>1. DOMAIN groups = {}
    BY DEF Init, TableInit
  <2>2. groups \in [DOMAIN groups -> IpGroup]
    BY DEF Init, TableInit
  <2> QED
    BY <1>1, <2>1, <2>2, RoutingAssumption DEF Init, TableInit, TableTypeOK
<1> QED
  BY <1>2, <1>3, <1>4 DEF Init, PoolInit, IInv

\* The table keeps its type.
LEMMA TableStep == ASSUME TableTypeOK, TableNext PROVE TableTypeOK'
<1>1. ASSUME NEW name \in GroupName, NEW g \in IpGroup, AddGroup(name, g) PROVE TableTypeOK'
  <2>1. DOMAIN groups' = DOMAIN groups \cup {name}
    BY <1>1 DEF AddGroup
  <2>2. groups' \in [DOMAIN groups' -> IpGroup]
    <3>1. \A n \in DOMAIN groups : groups[n] \in IpGroup
      BY DEF TableTypeOK
    <3> QED
      BY <1>1, <2>1, <3>1 DEF AddGroup
  <2> QED
    BY <1>1, <2>1, <2>2 DEF AddGroup, TableTypeOK
<1>2. ASSUME NEW r \in Rule, AddRule(r) \/ PrependRule(r) PROVE TableTypeOK'
  <2>1. <<r>> \in Seq(Rule) /\ Len(<<r>>) = 1
    OBVIOUS
  <2>2. rules' \in Seq(Rule) /\ Len(rules') = Len(rules) + 1 /\ Len(rules) \in Nat
    <3>1. rules \in Seq(Rule) /\ Len(rules) \in Nat
      BY LenProperties DEF TableTypeOK
    <3>2. Append(rules, r) \in Seq(Rule) /\ Len(Append(rules, r)) = Len(rules) + 1
      BY <3>1, AppendProperties
    <3>3. <<r>> \o rules \in Seq(Rule) /\ Len(<<r>> \o rules) = 1 + Len(rules)
      BY <2>1, <3>1, ConcatProperties
    <3>4. rules' = Append(rules, r) \/ rules' = <<r>> \o rules
      BY <1>2 DEF AddRule, PrependRule
    <3>5. 1 + Len(rules) = Len(rules) + 1
      BY <3>1
    <3> QED
      BY <3>1, <3>2, <3>3, <3>4, <3>5
  <2>3. Len(rules) < MaxRules /\ UNCHANGED <<groups, default>>
    BY <1>2 DEF AddRule, PrependRule
  <2> QED
    BY <2>2, <2>3, RoutingAssumption DEF TableTypeOK
<1>3. ASSUME NEW action \in Action, SetDefault(action) PROVE TableTypeOK'
  BY <1>3 DEF SetDefault, TableTypeOK
<1> QED
  BY <1>1, <1>2, <1>3 DEF TableNext

\* The pool keeps its type, and its ring that of the new list.
LEMMA PoolStep == ASSUME IInv, PoolNext PROVE PoolTypeOK' /\ ring' = Nodes(backends)'
<1>1. /\ strategy \in {"roundRobin", "consistentHash"} /\ backends \in Seq(Listed)
      /\ Len(backends) \in Nat /\ Len(backends) <= MaxBackends
      /\ counter \in 0..(CounterMod - 1) /\ MaxBackends \in Nat /\ CounterMod \in Nat \ {0}
  BY LenProperties, PoolAssumption DEF IInv, PoolTypeOK, Listed
<1>2. ASSUME NEW addr \in Backend, NEW weight \in Weights, AddBackend(addr, weight)
      PROVE  PoolTypeOK' /\ ring' = Nodes(backends)'
  <2> DEFINE b == [addr |-> addr, weight |-> weight]
  <2>1. b \in Listed
    BY DEF Listed
  <2>2. /\ Append(backends, b) \in Seq(Listed) /\ Len(Append(backends, b)) = Len(backends) + 1
    BY <1>1, <2>1, AppendProperties
  <2>3. /\ backends' = Append(backends, b) /\ ring' = Nodes(Append(backends, b))
        /\ UNCHANGED <<strategy, counter>> /\ Len(backends) < MaxBackends
    BY <1>2 DEF AddBackend
  <2> DEFINE more == Append(backends, b)
  <2>4. more \in Seq(Listed) /\ Len(more) <= MaxBackends
    BY <1>1, <2>2, <2>3
  <2>5. backends' = more /\ ring' = Nodes(more) /\ UNCHANGED <<strategy, counter>>
    BY <2>3
  <2> HIDE DEF b, more
  <2> QED
    BY <1>1, <2>4, <2>5, RingType
<1>3. ASSUME NEW addr \in Backend, RemoveBackend(addr) PROVE PoolTypeOK' /\ ring' = Nodes(backends)'
  <2>1. Without(backends, addr) \in Seq(Listed) /\ Len(Without(backends, addr)) <= Len(backends)
    BY <1>1, WithoutIs
  <2>2. Len(Without(backends, addr)) \in Nat
    BY <2>1, LenProperties
  <2>3. /\ backends' = Without(backends, addr) /\ ring' = Nodes(Without(backends, addr))
        /\ UNCHANGED <<strategy, counter>>
    BY <1>3 DEF RemoveBackend
  <2> QED
    BY <1>1, <2>1, <2>2, <2>3, RingType
<1>4. CASE SelectTurn
  <2>1. counter' = (counter + 1) % CounterMod /\ UNCHANGED <<strategy, backends, ring>>
    BY <1>4 DEF SelectTurn
  <2>2. counter' \in 0..(CounterMod - 1)
    BY <1>1, <2>1, Division
  <2>3. ring' = Nodes(backends)
    BY <2>1 DEF IInv
  <2> QED
    BY <1>1, <2>1, <2>2, <2>3, RingType
<1> QED
  BY <1>2, <1>3, <1>4 DEF PoolNext

\* Every step preserves the invariant.
LEMMA StepIInv == IInv /\ [Next]_vars => IInv'
<1> SUFFICES ASSUME IInv, [Next]_vars PROVE IInv'
  OBVIOUS
<1>1. CASE TableNext /\ UNCHANGED poolVars
  BY <1>1, TableStep DEF IInv, PoolTypeOK, Nodes, poolVars
<1>2. CASE PoolNext /\ UNCHANGED tableVars
  BY <1>2, PoolStep DEF IInv, TableTypeOK, tableVars
<1>3. CASE UNCHANGED vars
  <2>1. UNCHANGED poolVars /\ UNCHANGED tableVars
    BY <1>3 DEF vars
  <2>2. PoolTypeOK' /\ ring' = Nodes(backends)'
    BY <2>1 DEF IInv, PoolTypeOK, Nodes, poolVars
  <2>3. TableTypeOK'
    BY <2>1 DEF IInv, TableTypeOK, tableVars
  <2> QED
    BY <2>2, <2>3 DEF IInv
<1> QED
  BY <1>1, <1>2, <1>3 DEF Next

\* Every reachable state satisfies the inductive invariant.
THEOREM Invariance == Spec => []IInv
BY InitIInv, StepIInv, PTL DEF Spec

-----------------------------------------------------------------------------
(* The choice *)

\* What the pool does for a peer by its hash.
LEMMA HashedNow ==
  ASSUME IInv, strategy = "consistentHash", NEW key \in Key
  PROVE  Picks(backends, key, Hashed(key))
<1>1. Hashed(key) = HashedIn(backends, ring, key)
  BY DEF Hashed, HashedIn
<1>2. ring = RingOf(backends) /\ backends \in Seq(Listed)
  BY DEF IInv, Nodes, RingOf, PoolTypeOK, Listed
<1> QED
  BY <1>1, <1>2, HashedPicks

\* The same after the step.
LEMMA HashedThen ==
  ASSUME IInv', strategy' = "consistentHash", NEW key \in Key
  PROVE  Picks(backends', key, Hashed(key)')
<1>1. Hashed(key)' = HashedIn(backends', ring', key)
  BY DEF Hashed, HashedIn
<1>2. ring' = RingOf(backends') /\ backends' \in Seq(Listed)
  BY DEF IInv, Nodes, RingOf, PoolTypeOK, Listed
<1> QED
  BY <1>1, <1>2, HashedPicks

\* The peer has a key.
LEMMA KeyType == \A peer \in Peer : KeyOf[peer] \in Key
BY DispatchAssumption

\* The invariant says that every index is one of the list's.
LEMMA IInvChoice == IInv => ChoiceValid
<1> SUFFICES ASSUME IInv PROVE ChoiceValid
  OBVIOUS
<1>1. /\ strategy \in {"roundRobin", "consistentHash"} /\ backends \in Seq(Listed)
      /\ Len(backends) \in Nat /\ DOMAIN backends = 1..Len(backends) /\ counter \in Nat
  BY LenProperties, PoolAssumption DEF IInv, PoolTypeOK, Listed
<1>2. ASSUME NEW peer \in Peer, Resolve(peer) = ToPool, backends # <<>>
      PROVE  SentTo(peer) \subseteq Members /\ SentTo(peer) # {}
  <2>1. CASE strategy = "roundRobin"
    <3>1. Len(backends) # 0
      BY <1>1, <1>2, EmptySeq
    <3>2. Turn \in DOMAIN backends
      <4>1. counter % Len(backends) \in 0..(Len(backends) - 1)
        BY <1>1, <3>1, Division
      <4> QED
        BY <1>1, <4>1 DEF Turn
    <3>3. SentTo(peer) = {backends[Turn].addr}
      BY <1>2, <2>1 DEF SentTo
    <3> QED
      BY <3>2, <3>3 DEF Members
  <2>2. CASE strategy = "consistentHash"
    <3>1. SentTo(peer) = {Hashed(KeyOf[peer])}
      BY <1>2, <2>2 DEF SentTo
    <3>2. KeyOf[peer] \in Key
      BY KeyType
    <3>3. \E i \in DOMAIN backends : backends[i].addr = Hashed(KeyOf[peer])
      BY <1>1, <1>2, <2>2, <3>2, HashedNow, PickIsListed
    <3> QED
      BY <3>1, <3>3 DEF Members
  <2> QED
    BY <1>1, <2>1, <2>2
<1>3. ASSUME NEW peer \in Peer, Resolve(peer) = ToPool, backends = <<>> PROVE SentTo(peer) = {}
  BY <1>3 DEF SentTo
<1> QED
  BY <1>2, <1>3 DEF ChoiceValid, IInv

\* No index outlives the list it was made for, whatever is added and removed: a
\* peer that is sent to the pool gets a backend that is in it now, and is turned
\* away only when it is empty (load_balancer.rs: rebuild_ring and select).
THEOREM ChoiceCorrect == Spec => []ChoiceValid
BY Invariance, IInvChoice, PTL

-----------------------------------------------------------------------------
(* Stability: the table *)

\* Matches for given groups; the least of a set of indices; and the first rule
\* that matches.
MatchesIn(gs, rule, peer) ==
  /\ \A range \in rule.ports : peer.port \in range[1]..range[2]
  /\ \/ rule.group = {} /\ rule.ips = {}
     \/ peer.ip \in rule.ips
     \/ \E name \in rule.group : name \in DOMAIN gs /\ InGroup(gs[name], peer.ip)
MatchingIn(gs, rs, peer) == {i \in DOMAIN rs : MatchesIn(gs, rs[i], peer)}
ResolveIn(gs, rs, d, peer) ==
  LET M == MatchingIn(gs, rs, peer)
  IN  IF M = {} THEN d ELSE rs[CHOOSE i \in M : \A j \in M : i <= j].action

\* They are what the model's operators say of the table.
LEMMA MatchesIs == \A r, peer : Matches(r, peer) = MatchesIn(groups, r, peer)
BY DEF Matches, MatchesIn

\* The rules that match.
LEMMA MatchingIs == \A peer : Matching(peer) = MatchingIn(groups, rules, peer)
BY DEF Matching, MatchingIn, Matches, MatchesIn

\* The answer, before a step and after it.
LEMMA ResolveIs ==
  \A peer : /\ Resolve(peer) = ResolveIn(groups, rules, default, peer)
            /\ Resolve(peer)' = ResolveIn(groups', rules', default', peer)
BY DEF Resolve, ResolveIn, Matching, MatchingIn, Matches, MatchesIn

\* The first rule that matches decides.
LEMMA FirstDecides ==
  ASSUME NEW gs, NEW rs \in Seq(Rule), NEW d, NEW peer, NEW i \in MatchingIn(gs, rs, peer),
         \A j \in MatchingIn(gs, rs, peer) : i <= j
  PROVE  ResolveIn(gs, rs, d, peer) = rs[i].action
<1> DEFINE M == MatchingIn(gs, rs, peer)
           k == CHOOSE k \in M : \A j \in M : k <= j
<1>1. M \subseteq Nat
  BY LenProperties DEF MatchingIn
<1>2. k \in M /\ \A j \in M : k <= j
  OBVIOUS
<1>3. k = i
  BY <1>1, <1>2
<1>4. M # {} /\ ResolveIn(gs, rs, d, peer) = rs[k].action
  BY DEF ResolveIn
<1> QED
  BY <1>3, <1>4

\* Without one, the default does.
LEMMA DefaultDecides ==
  ASSUME NEW gs, NEW rs, NEW d, NEW peer, MatchingIn(gs, rs, peer) = {}
  PROVE  ResolveIn(gs, rs, d, peer) = d
BY DEF ResolveIn

\* A rule that matches has a first one that does.
LEMMA FirstExists ==
  ASSUME NEW gs, NEW rs \in Seq(Rule), NEW peer, MatchingIn(gs, rs, peer) # {}
  PROVE  \E i \in MatchingIn(gs, rs, peer) : \A j \in MatchingIn(gs, rs, peer) : i <= j
<1>1. MatchingIn(gs, rs, peer) \subseteq Nat
  BY LenProperties DEF MatchingIn
<1> QED
  BY <1>1, Least

\* A rule at the end decides for those that no rule matched.
LEMMA AppendedRule ==
  ASSUME NEW gs, NEW rs \in Seq(Rule), NEW r \in Rule, NEW d, NEW peer,
         MatchesIn(gs, r, peer) => MatchingIn(gs, rs, peer) # {}
  PROVE  ResolveIn(gs, Append(rs, r), d, peer) = ResolveIn(gs, rs, d, peer)
<1> DEFINE more == Append(rs, r)
           M == MatchingIn(gs, rs, peer)
           N == MatchingIn(gs, more, peer)
<1>1. /\ Len(rs) \in Nat /\ DOMAIN rs = 1..Len(rs) /\ more \in Seq(Rule) /\ DOMAIN more = 1..Len(rs) + 1
      /\ \A i \in 1..Len(rs) : more[i] = rs[i]
      /\ more[Len(rs) + 1] = r
  BY LenProperties, AppendProperties
<1> HIDE DEF more
<1>2. M \subseteq 1..Len(rs) /\ N = M \cup (IF MatchesIn(gs, r, peer) THEN {Len(rs) + 1} ELSE {})
  BY <1>1 DEF MatchingIn
<1>3. CASE M = {}
  <2>1. N = {}
    BY <1>2, <1>3
  <2> QED
    BY <1>3, <2>1, DefaultDecides DEF more
<1>4. CASE M # {}
  <2>1. PICK i \in M : \A j \in M : i <= j
    BY <1>4, FirstExists
  <2>2. i \in N /\ (\A j \in N : i <= j) /\ more[i] = rs[i]
    BY <1>1, <1>2, <2>1
  <2>3. ResolveIn(gs, rs, d, peer) = rs[i].action
    BY <2>1, FirstDecides
  <2>4. ResolveIn(gs, more, d, peer) = more[i].action
    BY <1>1, <2>2, FirstDecides
  <2> QED
    BY <2>2, <2>3, <2>4 DEF more
<1> QED
  BY <1>3, <1>4

\* A rule before all others decides for those that it matches.
LEMMA PrependedRule ==
  ASSUME NEW gs, NEW rs \in Seq(Rule), NEW r \in Rule, NEW d, NEW peer, ~MatchesIn(gs, r, peer)
  PROVE  ResolveIn(gs, <<r>> \o rs, d, peer) = ResolveIn(gs, rs, d, peer)
<1> DEFINE more == <<r>> \o rs
           M == MatchingIn(gs, rs, peer)
           N == MatchingIn(gs, more, peer)
<1>1. Len(rs) \in Nat /\ DOMAIN rs = 1..Len(rs)
  BY LenProperties
<1>2. <<r>> \in Seq(Rule) /\ Len(<<r>>) = 1 /\ <<r>>[1] = r
  OBVIOUS
<1>3. /\ more \in Seq(Rule) /\ Len(more) = 1 + Len(rs)
      /\ \A i \in 1..1 + Len(rs) : more[i] = IF i <= 1 THEN <<r>>[i] ELSE rs[i - 1]
  BY <1>1, <1>2, ConcatProperties
<1> HIDE DEF more
<1>4. DOMAIN more = 1..1 + Len(rs)
  BY <1>3, LenProperties
<1>5. \A i \in 1..1 + Len(rs) : i \in N <=> i # 1 /\ i - 1 \in M
  <2> SUFFICES ASSUME NEW i \in 1..1 + Len(rs) PROVE i \in N <=> i # 1 /\ i - 1 \in M
    OBVIOUS
  <2>1. CASE i = 1
    BY <1>1, <1>2, <1>3, <1>4, <2>1 DEF MatchingIn
  <2>2. CASE i # 1
    <3>1. more[i] = rs[i - 1] /\ i - 1 \in DOMAIN rs
      BY <1>1, <1>3, <2>2
    <3> QED
      BY <1>4, <2>2, <3>1 DEF MatchingIn
  <2> QED
    BY <2>1, <2>2
<1>6. N \subseteq 1..1 + Len(rs) /\ M \subseteq 1..Len(rs)
  BY <1>1, <1>4 DEF MatchingIn
<1>7. \A i \in M : i + 1 \in N
  <2> SUFFICES ASSUME NEW i \in M PROVE i + 1 \in N
    OBVIOUS
  <2>1. i + 1 \in 1..1 + Len(rs) /\ i + 1 # 1 /\ (i + 1) - 1 = i
    BY <1>1, <1>6
  <2> QED
    BY <1>5, <2>1
<1>8. CASE M = {}
  <2>1. N = {}
    BY <1>5, <1>6, <1>8
  <2> QED
    BY <1>8, <2>1, DefaultDecides DEF more
<1>9. CASE M # {}
  <2>1. PICK i \in M : \A j \in M : i <= j
    BY <1>9, FirstExists
  <2>2. i + 1 \in N /\ i \in 1..Len(rs) /\ i + 1 \in 1..1 + Len(rs)
    BY <1>1, <1>6, <1>7, <2>1
  <2>3. \A j \in N : i + 1 <= j
    <3> SUFFICES ASSUME NEW j \in N PROVE i + 1 <= j
      OBVIOUS
    <3>1. j - 1 \in M /\ j \in Nat
      BY <1>5, <1>6
    <3> QED
      BY <2>1, <2>2, <3>1
  <2>4. more[i + 1] = rs[i]
    <3>1. ~(i + 1 <= 1) /\ (i + 1) - 1 = i
      BY <1>1, <2>2
    <3> QED
      BY <1>3, <2>2, <3>1
  <2>5. ResolveIn(gs, rs, d, peer) = rs[i].action
    BY <2>1, FirstDecides
  <2>6. ResolveIn(gs, more, d, peer) = more[i + 1].action
    <3> DEFINE k == i + 1
    <3>1. k \in MatchingIn(gs, more, peer) /\ \A j \in MatchingIn(gs, more, peer) : k <= j
      BY <2>2, <2>3
    <3> HIDE DEF k
    <3>2. ResolveIn(gs, more, d, peer) = more[k].action
      BY <1>3, <3>1, FirstDecides
    <3> QED
      BY <3>2 DEF k
  <2> QED
    BY <2>4, <2>5, <2>6 DEF more
<1> QED
  BY <1>8, <1>9

\* A step of the table sends a peer elsewhere only by what it does.
LEMMA TableStable ==
  ASSUME TableTypeOK, TableNext, NEW peer, Resolve(peer)' # Resolve(peer)
  PROVE  TableMeans(peer)
<1>1. rules \in Seq(Rule)
  BY DEF TableTypeOK
<1>2. ASSUME NEW name \in GroupName, NEW g \in IpGroup, AddGroup(name, g), ~TableMeans(peer) PROVE FALSE
  <2>1. rules' = rules /\ default' = default /\ DOMAIN groups' = DOMAIN groups \cup {name}
    BY <1>2 DEF AddGroup
  <2>2. \A i \in DOMAIN rules : \A n \in rules[i].group :
          ~(n \in DOMAIN groups' /\ (n \in DOMAIN groups => groups'[n] # groups[n]))
    BY <1>2 DEF TableMeans
  <2>3. \A i \in DOMAIN rules : MatchesIn(groups', rules[i], peer) = MatchesIn(groups, rules[i], peer)
    <3> SUFFICES ASSUME NEW i \in DOMAIN rules
                 PROVE  MatchesIn(groups', rules[i], peer) = MatchesIn(groups, rules[i], peer)
      OBVIOUS
    <3>1. \A n \in rules[i].group : /\ n \in DOMAIN groups' <=> n \in DOMAIN groups
                                    /\ n \in DOMAIN groups => groups'[n] = groups[n]
      BY <2>1, <2>2
    <3> QED
      BY <3>1 DEF MatchesIn
  <2>4. MatchingIn(groups', rules, peer) = MatchingIn(groups, rules, peer)
    BY <2>3 DEF MatchingIn
  <2>5. ResolveIn(groups', rules, default, peer) = ResolveIn(groups, rules, default, peer)
    BY <2>4 DEF ResolveIn
  <2> QED
    BY <2>1, <2>5, ResolveIs
<1>3. ASSUME NEW r \in Rule, AddRule(r), ~TableMeans(peer) PROVE FALSE
  <2>1. rules' = Append(rules, r) /\ UNCHANGED <<groups, default>>
    BY <1>3 DEF AddRule
  <2>2. Matches(r, peer) => Matching(peer) # {}
    BY <1>3, <2>1 DEF TableMeans
  <2>3. MatchesIn(groups, r, peer) => MatchingIn(groups, rules, peer) # {}
    BY <2>2, MatchesIs, MatchingIs
  <2>4. ResolveIn(groups, Append(rules, r), default, peer) = ResolveIn(groups, rules, default, peer)
    BY <1>1, <2>3, AppendedRule
  <2> QED
    BY <2>1, <2>4, ResolveIs
<1>4. ASSUME NEW r \in Rule, PrependRule(r), ~TableMeans(peer) PROVE FALSE
  <2>1. rules' = <<r>> \o rules /\ UNCHANGED <<groups, default>>
    BY <1>4 DEF PrependRule
  <2>2. ~MatchesIn(groups, r, peer)
    BY <1>4, <2>1, MatchesIs DEF TableMeans
  <2>3. ResolveIn(groups, <<r>> \o rules, default, peer) = ResolveIn(groups, rules, default, peer)
    BY <1>1, <2>2, PrependedRule
  <2> QED
    BY <2>1, <2>3, ResolveIs
<1>5. ASSUME NEW action \in Action, SetDefault(action), ~TableMeans(peer) PROVE FALSE
  <2>1. UNCHANGED <<rules, groups>>
    BY <1>5 DEF SetDefault
  <2>2. default' # default => MatchingIn(groups, rules, peer) # {}
    BY <1>5, MatchingIs DEF TableMeans
  <2>3. ResolveIn(groups, rules, default', peer) = ResolveIn(groups, rules, default, peer)
    BY <2>2 DEF ResolveIn
  <2> QED
    BY <2>1, <2>3, ResolveIs
<1> QED
  BY <1>2, <1>3, <1>4, <1>5 DEF TableNext

-----------------------------------------------------------------------------
(* Stability: the pool *)

\* A step of the pool gives a peer another backend only by what it does.
LEMMA PoolStable ==
  ASSUME IInv, IInv', PoolNext, strategy = "consistentHash", NEW peer \in Peer,
         Resolve(peer) = ToPool, Resolve(peer)' = ToPool,
         NEW old, NEW new, old = SentTo(peer), new = SentTo(peer)', new # old
  PROVE  PoolMeans(old, new)
<1> DEFINE key == KeyOf[peer]
           x == Hashed(key)
           y == Hashed(key)'
<1>1. key \in Key /\ backends \in Seq(Listed)
  BY KeyType DEF IInv, PoolTypeOK, Listed
<1>2. strategy' = "consistentHash"
  BY DEF PoolNext, AddBackend, RemoveBackend, SelectTurn
<1>3. /\ backends = <<>> => old = {}
      /\ backends # <<>> => old = {x}
  BY DEF SentTo
<1>4. /\ backends' = <<>> => new = {}
      /\ backends' # <<>> => new = {y}
  BY <1>2 DEF SentTo
<1>5. Picks(backends, key, x) /\ Picks(backends', key, y)
  BY <1>1, <1>2, HashedNow, HashedThen
<1> HIDE DEF key, x, y
<1>6. ASSUME NEW addr \in Backend, NEW weight \in Weights, AddBackend(addr, weight)
      PROVE  PoolMeans(old, new)
  <2> DEFINE b == [addr |-> addr, weight |-> weight]
  <2>1. b \in Listed /\ b.addr = addr
    BY DEF Listed
  <2>2. backends' = Append(backends, b)
    BY <1>6 DEF AddBackend
  <2> HIDE DEF b
  <2>3. /\ backends' \in Seq(Listed) /\ backends' # <<>>
        /\ Len(backends') = Len(backends) + 1 /\ Len(backends) \in Nat
        /\ backends'[Len(backends')] = b
    BY <1>1, <2>1, <2>2, AppendProperties, LenProperties
  <2>4. Last(backends') = b
    BY <2>3 DEF Last
  <2>5. y = b.addr
    <3>1. CASE backends = <<>>
      <4>1. \E i \in DOMAIN backends' : backends'[i].addr = y
        BY <1>1, <1>5, <2>3, PickIsListed
      <4>2. Len(backends) = 0 /\ DOMAIN backends' = 1..Len(backends')
        BY <2>3, <3>1, LenProperties, EmptySeq
      <4>3. DOMAIN backends' = {Len(backends')}
        BY <2>3, <4>2
      <4> QED
        BY <2>3, <4>1, <4>3
    <3>2. CASE backends # <<>>
      <4>1. y = x \/ y = b.addr
        <5>1. Picks(Append(backends, b), key, y)
          BY <1>5, <2>2
        <5> QED
          BY <1>1, <1>5, <2>1, <3>2, <5>1, AddMoves
      <4> QED
        BY <1>3, <1>4, <2>3, <3>2, <4>1
    <3> QED
      BY <3>1, <3>2
  <2>6. Len(backends') > Len(backends) /\ new = {Last(backends').addr}
    BY <1>4, <2>3, <2>4, <2>5
  <2> QED
    BY <2>6 DEF PoolMeans
<1>7. ASSUME NEW addr \in Backend, RemoveBackend(addr)
      PROVE  PoolMeans(old, new)
  <2>1. backends' = Without(backends, addr) /\ addr \in Members
    BY <1>7 DEF RemoveBackend
  <2>2. backends # <<>>
    <3>1. DOMAIN backends # {}
      BY <2>1 DEF Members
    <3> QED
      BY <1>1, <3>1, LenProperties, EmptySeq
  <2>3. CASE backends' = <<>>
    BY <1>4, <2>3 DEF PoolMeans
  <2>4. CASE backends' # <<>> /\ x # addr
    <3>1. y = x
      BY <1>1, <1>5, <2>1, <2>2, <2>4, RemoveMoves
    <3> QED
      BY <1>3, <1>4, <2>2, <2>4, <3>1
  <2>5. CASE x = addr
    <3>1. \A i \in DOMAIN backends' : backends'[i].addr # addr
      BY <1>1, <2>1, WithoutIs DEF ToSet
    <3>2. addr \notin Members'
      BY <3>1 DEF Members
    <3> QED
      BY <1>3, <2>2, <2>5, <3>2 DEF PoolMeans
  <2> QED
    BY <2>3, <2>4, <2>5
<1>8. ~SelectTurn
  BY DEF SelectTurn
<1> QED
  BY <1>6, <1>7, <1>8 DEF PoolNext

\* What a step may do to the peers of a hashed pool.
Stable ==
  \A peer \in Peer : strategy = "consistentHash" /\ SentTo(peer)' # SentTo(peer) =>
    \/ Resolve(peer)' # Resolve(peer) /\ TableMeans(peer)
    \/ Resolve(peer)' = ToPool /\ PoolMeans(SentTo(peer), SentTo(peer)')

\* Every step of the table or the pool is stable.
LEMMA StepStable == IInv /\ IInv' /\ [Next]_vars => [Stable]_vars
<1> SUFFICES ASSUME IInv, IInv', Next, NEW peer \in Peer,
                    strategy = "consistentHash", SentTo(peer)' # SentTo(peer)
             PROVE  \/ Resolve(peer)' # Resolve(peer) /\ TableMeans(peer)
                    \/ Resolve(peer)' = ToPool /\ PoolMeans(SentTo(peer), SentTo(peer)')
  BY DEF Stable
<1>1. CASE TableNext /\ UNCHANGED poolVars
  <2>1. Resolve(peer)' # Resolve(peer)
    BY <1>1 DEF SentTo, Turn, Hashed, poolVars
  <2> QED
    BY <1>1, <2>1, TableStable DEF IInv
<1>2. CASE PoolNext /\ UNCHANGED tableVars
  <2>1. Resolve(peer)' = Resolve(peer)
    BY <1>2, ResolveIs DEF tableVars
  <2>2. Resolve(peer) = ToPool
    <3>1. Resolve(peer) # ToPool => SentTo(peer)' = {Resolve(peer)} /\ SentTo(peer) = {Resolve(peer)}
      BY <2>1 DEF SentTo
    <3> QED
      BY <3>1
  <2> QED
    BY <1>2, <2>1, <2>2, PoolStable
<1> QED
  BY <1>1, <1>2 DEF Next

\* A change of the table or of a hashed pool moves only the peers that it means,
\* for any hash without collisions and any weights (load_balancer.rs: the ring is
\* built anew at each change; routing.rs: the first rule that matches).
THEOREM DispatchStable == Spec => StableDispatch
<1>1. StableDispatch <=> [][Stable]_vars
  BY DEF StableDispatch, Stable
<1> QED
  BY Invariance, StepStable, <1>1, PTL DEF Spec

-----------------------------------------------------------------------------
(* Turns *)

\* The backend after the last is the first.
Around(i, n) == IF i > n THEN i - n ELSE i

\* Counting on from any turn of the history leads to the turn that is next.
TurnsFit ==
  /\ turns \in Seq(1..Len(backends)) /\ Len(turns) <= Len(backends)
  /\ \A i \in 1..Len(turns) : Around(turns[i] + (Len(turns) + 1 - i), Len(backends)) = Turn

\* Then no two of them are the same.
LEMMA TurnsAreFair == IInv /\ TurnsFit => RoundRobinFair
<1> SUFFICES ASSUME IInv, TurnsFit PROVE RoundRobinFair
  OBVIOUS
<1> DEFINE n == Len(backends)
<1>1. n \in Nat /\ Len(turns) \in Nat /\ Len(turns) <= n /\ DOMAIN turns = 1..Len(turns)
  BY LenProperties DEF IInv, PoolTypeOK, TurnsFit
<1>2. \A i \in 1..Len(turns) : turns[i] \in 1..n /\ Around(turns[i] + (Len(turns) + 1 - i), n) = Turn
  BY ElementOfSeq DEF TurnsFit
<1> HIDE DEF n
<1>3. ASSUME NEW i \in 1..Len(turns), NEW j \in 1..Len(turns), turns[i] = turns[j] PROVE i = j
  <2> DEFINE t == turns[i]
             a == Len(turns) + 1 - i
             b == Len(turns) + 1 - j
  <2>1. a \in 1..n /\ b \in 1..n /\ t \in 1..n /\ Around(t + a, n) = Around(t + b, n)
    BY <1>1, <1>2, <1>3
  <2> HIDE DEF t
  <2>2. a = b
    BY <1>1, <2>1 DEF Around
  <2> QED
    BY <1>1, <2>2
<1> QED
  BY <1>1, <1>3 DEF RoundRobinFair, IsInjective, n

\* A call of select moves the turn on, unless the counter wraps.
LEMMA TurnMoves ==
  ASSUME IInv, SelectTurn, Turning, ~Wrapping
  PROVE  /\ Len(backends) \in Nat \ {0} /\ Turn \in 1..Len(backends)
         /\ Turn' = Around(Turn + 1, Len(backends))
<1> DEFINE n == Len(backends)
<1>1. n \in Nat \ {0} /\ counter \in 0..(CounterMod - 1) /\ CounterMod \in Nat \ {0}
  BY LenProperties, EmptySeq, PoolAssumption DEF IInv, PoolTypeOK, SelectTurn
<1>2. counter' = (counter + 1) % CounterMod /\ Len(backends') = n
  BY DEF SelectTurn
<1>3. counter' = counter + 1
  <2>1. CASE counter + 1 = CounterMod
    <3>1. counter + 1 = CounterMod * 1 + 0 /\ 0 \in 0..(CounterMod - 1) /\ counter + 1 \in Nat
      BY <1>1, <2>1
    <3>2. counter' = 0
      BY <1>1, <1>2, <3>1, RemainderIs
    <3> QED
      BY <1>1, <2>1, <3>2 DEF Wrapping
  <2>2. CASE counter + 1 # CounterMod
    <3>1. counter + 1 = CounterMod * 0 + (counter + 1) /\ counter + 1 \in 0..(CounterMod - 1)
      BY <1>1, <2>2
    <3> QED
      BY <1>1, <1>2, <3>1, RemainderIs
  <2> QED
    BY <2>1, <2>2
<1> HIDE DEF n
<1>4. counter % n \in 0..(n - 1)
  BY <1>1, Division
<1>5. (counter + 1) % n = IF (counter % n) + 1 = n THEN 0 ELSE (counter % n) + 1
  <2>1. counter \in Nat
    BY <1>1
  <2> QED
    BY <1>1, <2>1, NextRemainder
<1>6. Turn = (counter % n) + 1 /\ Turn' = ((counter + 1) % n) + 1
  BY <1>2, <1>3 DEF Turn, n
<1> QED
  BY <1>1, <1>4, <1>5, <1>6 DEF Around, n

\* The history takes the turn in, and lets go of the oldest when it is full.
LEMMA TurnTaken ==
  ASSUME IInv, TurnsFit, SelectTurn, Turning, ~Wrapping, turns' = Append(LastTurns, Turn)
  PROVE  TurnsFit'
<1> DEFINE n == Len(backends)
           m == Len(LastTurns)
<1>1. n \in Nat \ {0} /\ Turn \in 1..n /\ Turn' = Around(Turn + 1, n) /\ backends' = backends
  BY TurnMoves DEF SelectTurn
<1>2. /\ turns \in Seq(1..n) /\ Len(turns) \in Nat /\ Len(turns) <= n
      /\ \A i \in 1..Len(turns) : turns[i] \in 1..n /\ Around(turns[i] + (Len(turns) + 1 - i), n) = Turn
  BY LenProperties, ElementOfSeq DEF TurnsFit
<1>3. /\ LastTurns \in Seq(1..n) /\ m \in Nat /\ m < n
      /\ \A i \in 1..m : LastTurns[i] \in 1..n /\ Around(LastTurns[i] + (m + 1 - i), n) = Turn
  <2>1. CASE Len(turns) < n
    BY <1>2, <2>1 DEF LastTurns
  <2>2. CASE ~(Len(turns) < n)
    <3>1. LastTurns = Tail(turns) /\ Len(turns) = n /\ turns # <<>>
      BY <1>1, <1>2, <2>2, EmptySeq DEF LastTurns
    <3>2. /\ Tail(turns) \in Seq(1..n) /\ Len(Tail(turns)) = n - 1
          /\ \A i \in 1..n - 1 : Tail(turns)[i] = turns[i + 1]
      BY <1>2, <3>1, HeadTailProperties
    <3>3. ASSUME NEW i \in 1..n - 1
          PROVE  LastTurns[i] \in 1..n /\ Around(LastTurns[i] + ((n - 1) + 1 - i), n) = Turn
      <4>1. i + 1 \in 1..Len(turns) /\ LastTurns[i] = turns[i + 1]
        BY <1>1, <3>1, <3>2
      <4>2. (n - 1) + 1 - i = Len(turns) + 1 - (i + 1)
        BY <1>1, <3>1
      <4> QED
        BY <1>2, <4>1, <4>2
    <3> QED
      BY <1>1, <3>1, <3>2, <3>3
  <2> QED
    BY <2>1, <2>2
<1> HIDE DEF n, m
<1>4. /\ turns' \in Seq(1..n) /\ Len(turns') = m + 1
      /\ \A i \in 1..m : turns'[i] = LastTurns[i]
      /\ turns'[m + 1] = Turn
  BY <1>1, <1>3, AppendProperties DEF m
<1>5. ASSUME NEW i \in 1..m + 1 PROVE Around(turns'[i] + ((m + 1) + 1 - i), n) = Turn'
  <2>1. CASE i = m + 1
    <3>1. turns'[i] = Turn /\ (m + 1) + 1 - i = 1
      BY <1>3, <1>4, <2>1
    <3> QED
      BY <1>1, <3>1
  <2>2. CASE i # m + 1
    <3> DEFINE t == LastTurns[i]
               k == m + 1 - i
    <3>1. i \in 1..m /\ turns'[i] = t /\ t \in 1..n /\ k \in 1..n - 1 /\ (m + 1) + 1 - i = k + 1
          /\ Around(t + k, n) = Turn
      BY <1>1, <1>3, <1>4, <2>2
    <3> HIDE DEF t, k
    <3>2. Around(t + (k + 1), n) = Around(Around(t + k, n) + 1, n)
      BY <1>1, <3>1 DEF Around
    <3> QED
      BY <1>1, <3>1, <3>2
  <2> QED
    BY <1>3, <2>1, <2>2
<1> QED
  BY <1>1, <1>3, <1>4, <1>5 DEF TurnsFit, n

\* A history of nothing fits any pool.
LEMMA NoTurns == ASSUME IInv', turns' = <<>> PROVE TurnsFit'
<1>1. Len(backends') \in Nat /\ Len(turns') = 0 /\ turns' \in Seq(1..Len(backends'))
  BY LenProperties, EmptySeq DEF IInv, PoolTypeOK
<1> QED
  BY <1>1 DEF TurnsFit

\* Every step keeps the history fit.
LEMMA StepFits == IInv /\ IInv' /\ TurnsFit /\ [HNext]_<<vars, turns>> => TurnsFit'
<1> SUFFICES ASSUME IInv, IInv', TurnsFit, [HNext]_<<vars, turns>> PROVE TurnsFit'
  OBVIOUS
<1>1. CASE turns' = turns /\ UNCHANGED poolVars
  BY <1>1 DEF TurnsFit, Turn, poolVars
<1>2. CASE UNCHANGED <<vars, turns>>
  BY <1>1, <1>2 DEF vars
<1>3. CASE HNext
  <2>1. Next /\ turns' = IF Turning /\ ~Wrapping THEN Append(LastTurns, Turn)
                         ELSE IF UNCHANGED poolVars THEN turns ELSE <<>>
    BY <1>3 DEF HNext
  <2>2. CASE Turning /\ ~Wrapping
    <3>1. SelectTurn
      BY <2>1, <2>2 DEF Next, PoolNext, AddBackend, RemoveBackend, poolVars, Turning
    <3> QED
      BY <2>1, <2>2, <3>1, TurnTaken
  <2>3. CASE ~(Turning /\ ~Wrapping)
    BY <1>1, <2>1, <2>3, NoTurns
  <2> QED
    BY <2>2, <2>3
<1> QED
  BY <1>2, <1>3

\* As long as the pool stays as it is, any as many calls as it has members give
\* each a turn, for any number of members and wherever the counter stands, but
\* for a wrap of the counter (load_balancer.rs: select, round robin).
THEOREM TurnsCorrect == HSpec => []RoundRobinFair
<1>1. HInit => IInv /\ TurnsFit
  <2> SUFFICES ASSUME HInit PROVE IInv /\ TurnsFit
    OBVIOUS
  <2>1. IInv
    BY InitIInv DEF HInit
  <2>2. Len(backends) \in Nat /\ Len(turns) = 0 /\ turns \in Seq(1..Len(backends))
    BY <2>1, LenProperties, EmptySeq DEF HInit, IInv, PoolTypeOK
  <2> QED
    BY <2>1, <2>2 DEF TurnsFit
<1>2. IInv /\ TurnsFit /\ [HNext]_<<vars, turns>> => IInv' /\ TurnsFit'
  <2>1. [HNext]_<<vars, turns>> => [Next]_vars
    BY DEF HNext
  <2> QED
    BY <2>1, StepIInv, StepFits
<1> QED
  BY <1>1, <1>2, TurnsAreFair, PTL DEF HSpec
=============================================================================
