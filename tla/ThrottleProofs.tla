--------------------------- MODULE ThrottleProofs ---------------------------
(***************************************************************************)
(* Proofs about Throttle, for any finite set of connections, any addresses *)
(* and any limits.                                                         *)
(***************************************************************************)
EXTENDS Throttle, FiniteSetTheorems, TLAPS

\* The inductive invariant: the accounting alone is preserved by every step,
\* the caps need it to know what the comparisons in acquire have compared.
IInv == TypeOK /\ CountsExact /\ GlobalCap /\ PerIpCap

-----------------------------------------------------------------------------
\* The connections at some locations are a finite set; moving one connection
\* in, out or within changes the cardinality by one or not at all.
LEMMA AtFinite ==
  ASSUME NEW locs
  PROVE  IsFiniteSet(At(locs)) /\ Cardinality(At(locs)) \in Nat
BY ConnAssumption, FS_Subset, FS_CardinalityType DEF At

LEMMA Move ==
  ASSUME TypeOK, NEW c \in Conn, NEW loc \in Locations, Goto(c, loc), NEW locs
  PROVE  /\ Cardinality(At(locs)') \in Nat
         /\ pc[c] \in locs /\ loc \in locs => At(locs)' = At(locs)
         /\ pc[c] \notin locs /\ loc \notin locs => At(locs)' = At(locs)
         /\ pc[c] \notin locs /\ loc \in locs =>
              /\ At(locs)' = At(locs) \cup {c}
              /\ Cardinality(At(locs)') = Cardinality(At(locs)) + 1
         /\ pc[c] \in locs /\ loc \notin locs =>
              /\ At(locs)' = At(locs) \ {c}
              /\ Cardinality(At(locs)') = Cardinality(At(locs)) - 1
<1>1. At(locs)' = {d \in Conn : (IF d = c THEN loc ELSE pc[d]) \in locs}
  BY DEF At, Goto, TypeOK
<1>2. IsFiniteSet(At(locs))
  BY AtFinite
<1>7. Cardinality(At(locs)') \in Nat
  BY <1>1, ConnAssumption, FS_Subset, FS_CardinalityType
<1>3. CASE pc[c] \in locs /\ loc \in locs
  BY <1>1, <1>3, <1>7 DEF At
<1>4. CASE pc[c] \notin locs /\ loc \notin locs
  BY <1>1, <1>4, <1>7 DEF At
<1>5. CASE pc[c] \notin locs /\ loc \in locs
  <2>1. At(locs)' = At(locs) \cup {c} /\ c \notin At(locs)
    BY <1>1, <1>5 DEF At
  <2> QED
    BY <2>1, <1>2, <1>5, <1>7, FS_AddElement
<1>6. CASE pc[c] \in locs /\ loc \notin locs
  <2>1. At(locs)' = At(locs) \ {c} /\ c \in At(locs)
    BY <1>1, <1>6 DEF At
  <2> QED
    BY <2>1, <1>2, <1>6, <1>7, FS_RemoveElement
<1> QED
  BY <1>7, <1>3, <1>4, <1>5, <1>6

LEMMA TrackedFinite ==
  ASSUME NEW ip
  PROVE  IsFiniteSet(Tracked(ip)) /\ Cardinality(Tracked(ip)) \in Nat
<1>1. Tracked(ip) \subseteq At({"held", "releaseIp"})
  BY DEF Tracked
<1> QED
  BY <1>1, AtFinite, FS_Subset, FS_CardinalityType

\* A step of c that neither enters nor leaves the map's count of its address
\* leaves Tracked alone; one that does changes the set of that address only.
LEMMA TrackedStays ==
  ASSUME TypeOK, NEW c \in Conn, NEW loc \in Locations, Goto(c, loc), NEW ip,
         (pc[c] \in {"held", "releaseIp"}) <=> (loc \in {"held", "releaseIp"})
  PROVE  Tracked(ip)' = Tracked(ip)
<1>1. At({"held", "releaseIp"})' = At({"held", "releaseIp"})
  BY Move
<1> QED
  BY <1>1 DEF Tracked

LEMMA TrackedEnters ==
  ASSUME TypeOK, NEW c \in Conn, Goto(c, "held"), pc[c] = "globalTaken", NEW ip
  PROVE  Cardinality(Tracked(ip)') = IF ip = IpOf[c] THEN Cardinality(Tracked(ip)) + 1
                                     ELSE Cardinality(Tracked(ip))
<1>1. At({"held", "releaseIp"})' = At({"held", "releaseIp"}) \cup {c}
  BY Move DEF Locations
<1>2. c \notin At({"held", "releaseIp"})
  BY DEF At
<1>3. CASE ip = IpOf[c]
  <2>1. Tracked(ip)' = Tracked(ip) \cup {c} /\ c \notin Tracked(ip)
    BY <1>1, <1>2, <1>3 DEF Tracked
  <2> QED
    BY <2>1, <1>3, TrackedFinite, FS_AddElement
<1>4. CASE ip # IpOf[c]
  <2>1. Tracked(ip)' = Tracked(ip)
    BY <1>1, <1>4 DEF Tracked
  <2> QED
    BY <2>1, <1>4
<1> QED
  BY <1>3, <1>4

LEMMA TrackedLeaves ==
  ASSUME TypeOK, NEW c \in Conn, Goto(c, "idle"), pc[c] = "releaseIp", NEW ip
  PROVE  Cardinality(Tracked(ip)') = IF ip = IpOf[c] THEN Cardinality(Tracked(ip)) - 1
                                     ELSE Cardinality(Tracked(ip))
<1>1. At({"held", "releaseIp"})' = At({"held", "releaseIp"}) \ {c}
  BY Move DEF Locations
<1>2. c \in At({"held", "releaseIp"})
  BY DEF At
<1>3. CASE ip = IpOf[c]
  <2>1. Tracked(ip)' = Tracked(ip) \ {c} /\ c \in Tracked(ip)
    BY <1>1, <1>2, <1>3 DEF Tracked
  <2> QED
    BY <2>1, <1>3, TrackedFinite, FS_RemoveElement
<1>4. CASE ip # IpOf[c]
  <2>1. Tracked(ip)' = Tracked(ip)
    BY <1>1, <1>4 DEF Tracked
  <2> QED
    BY <2>1, <1>4
<1> QED
  BY <1>3, <1>4

\* What the two ways of writing the map do to the counts it holds.
LEMMA StoreCount ==
  ASSUME TypeOK, NEW i \in Ip, NEW n \in Nat, Store(i, n)
  PROVE  /\ DOMAIN perIp' \subseteq Ip
         /\ perIp' \in [DOMAIN perIp' -> Nat]
         /\ \A ip \in Ip : Count(ip)' = IF ip = i THEN n ELSE Count(ip)
BY DEF Store, Count, TypeOK

LEMMA ReleaseCount ==
  ASSUME TypeOK, NEW c \in Conn, ReleasePerIp(c)
  PROVE  /\ DOMAIN perIp' \subseteq Ip
         /\ perIp' \in [DOMAIN perIp' -> Nat]
         /\ \A ip \in Ip : Count(ip)' = IF ip = IpOf[c] /\ Count(ip) > 0
                                        THEN Count(ip) - 1 ELSE Count(ip)
<1> DEFINE i == IpOf[c]
<1>1. i \in Ip
  BY IpAssumption
<1>2. CASE Count(i) > 1
  <2>1. i \in DOMAIN perIp /\ perIp' = [perIp EXCEPT ![i] = @ - 1]
    BY <1>2 DEF ReleasePerIp, Count
  <2> QED
    BY <2>1, <1>1, <1>2 DEF Count, TypeOK
<1>3. CASE ~(Count(i) > 1)
  <2>1. perIp' = [x \in DOMAIN perIp \ {i} |-> perIp[x]]
    BY <1>3 DEF ReleasePerIp, Restrict
  <2>2. Count(i) \in Nat /\ Count(i) <= 1
    BY <1>1, <1>3 DEF Count, TypeOK
  <2> QED
    BY <2>1, <2>2, <1>1 DEF Count, TypeOK
<1> QED
  BY <1>2, <1>3

-----------------------------------------------------------------------------
LEMMA InitIInv == Init => IInv
<1> SUFFICES ASSUME Init PROVE IInv
  OBVIOUS
<1>1. \A locs : "idle" \notin locs => At(locs) = {}
  BY DEF Init, At
<1>2. Counted = {} /\ Admitted = {} /\ At({"undoPerIp"}) = {} /\ At({"held", "releaseIp"}) = {}
  BY <1>1 DEF Counted, Admitted
<1>3. \A ip : Tracked(ip) = {}
  BY <1>2 DEF Tracked
<1>4. Cardinality({}) = 0
  BY FS_EmptySet
<1>5. TypeOK
  BY DEF Init, TypeOK, Locations
<1>6. CountsExact
  BY <1>2, <1>3, <1>4 DEF Init, CountsExact, Count
<1>7. GlobalCap /\ PerIpCap
  BY <1>2, <1>3, <1>4, LimitAssumption DEF GlobalCap, PerIpCap
<1> QED
  BY <1>5, <1>6, <1>7 DEF IInv

\* The step that counts globally: the value fetch_add returned bounds the
\* number of admitted calls, whatever the others have done meanwhile.
LEMMA AcquireGlobalStep ==
  ASSUME IInv, NEW c \in Conn, AcquireGlobal(c)
  PROVE  IInv'
<1> DEFINE loc == IF global + 1 > MaxGlobal THEN "undoGlobal" ELSE "globalTaken"
<1> USE DEF IInv
<1>1. loc \in Locations /\ Goto(c, loc) /\ pc[c] = "idle"
  BY DEF AcquireGlobal, Locations
<1>2. TypeOK'
  BY <1>1 DEF AcquireGlobal, TypeOK, Goto
<1>3. Cardinality(Counted') = Cardinality(Counted) + 1
  BY <1>1, Move DEF Counted
<1>4. \A ip : Tracked(ip)' = Tracked(ip)
  BY <1>1, TrackedStays
<1>5. CountsExact'
  BY <1>3, <1>4 DEF CountsExact, AcquireGlobal, Count
<1>6. PerIpCap'
  BY <1>4 DEF PerIpCap
<1>7. GlobalCap'
  <2>1. CASE global + 1 > MaxGlobal
    <3>1. Admitted' = Admitted
      BY <1>1, <2>1, Move DEF Admitted
    <3> QED
      BY <3>1 DEF GlobalCap
  <2>2. CASE ~(global + 1 > MaxGlobal)
    <3>1. Cardinality(Admitted') = Cardinality(Admitted) + 1
      BY <1>1, <2>2, Move DEF Admitted
    <3>2. Cardinality(Admitted) <= Cardinality(Counted)
      <4>1. Admitted \subseteq Counted
        BY DEF Admitted, Counted, At
      <4> QED
        BY <4>1, AtFinite, FS_Subset DEF Counted
    <3>3. Cardinality(Admitted) \in Nat
      BY AtFinite DEF Admitted
    <3> QED
      BY <2>2, <3>1, <3>2, <3>3, LimitAssumption DEF GlobalCap, CountsExact, TypeOK
  <2> QED
    BY <2>1, <2>2
<1> QED
  BY <1>2, <1>5, <1>6, <1>7

\* The three steps that subtract from the global counter.
LEMMA GlobalDecrementStep ==
  ASSUME IInv, NEW c \in Conn, UndoGlobal(c) \/ UndoPerIp(c) \/ ReleaseGlobal(c)
  PROVE  IInv'
<1> DEFINE loc == IF pc[c] = "held" THEN "releaseIp" ELSE "idle"
<1> USE DEF IInv
<1>1. /\ loc \in Locations /\ Goto(c, loc)
      /\ pc[c] \in {"undoGlobal", "undoPerIp", "held"}
      /\ global' = global - 1 /\ UNCHANGED perIp
  BY DEF UndoGlobal, UndoPerIp, ReleaseGlobal, Locations
<1>2. Cardinality(Counted') = Cardinality(Counted) - 1 /\ Cardinality(Counted') \in Nat
  BY <1>1, Move DEF Counted
<1>3. \A ip : Tracked(ip)' = Tracked(ip)
  BY <1>1, TrackedStays
<1>4. CountsExact'
  BY <1>1, <1>2, <1>3 DEF CountsExact, Count
<1>5. TypeOK'
  BY <1>1, <1>2, <1>4 DEF TypeOK, Goto, CountsExact
<1>6. PerIpCap'
  BY <1>3 DEF PerIpCap
<1>7. GlobalCap'
  <2>1. Cardinality(Admitted') <= Cardinality(Admitted)
    BY <1>1, Move, AtFinite DEF Admitted
  <2> QED
    BY <1>1, <2>1, Move, AtFinite, LimitAssumption DEF GlobalCap, Admitted
<1> QED
  BY <1>4, <1>5, <1>6, <1>7

LEMMA AcquirePerIpStep ==
  ASSUME IInv, NEW c \in Conn, AcquirePerIp(c)
  PROVE  IInv'
<1> USE DEF IInv
<1>1. Goto(c, "held") /\ pc[c] = "globalTaken" /\ "held" \in Locations /\ IpOf[c] \in Ip
  BY IpAssumption DEF AcquirePerIp, Locations
<1>2. Count(IpOf[c]) \in Nat
  BY <1>1 DEF Count, TypeOK
<1>3. /\ DOMAIN perIp' \subseteq Ip
      /\ perIp' \in [DOMAIN perIp' -> Nat]
      /\ \A ip \in Ip : Count(ip)' = IF ip = IpOf[c] THEN Count(IpOf[c]) + 1 ELSE Count(ip)
  BY <1>1, <1>2, StoreCount DEF AcquirePerIp
<1>4. TypeOK'
  BY <1>1, <1>3 DEF TypeOK, Goto, AcquirePerIp
<1>5. /\ Counted' = Counted
      /\ Admitted' = Admitted
      /\ At({"undoPerIp"})' = At({"undoPerIp"})
  BY <1>1, Move DEF Counted, Admitted
<1>6. \A ip : Cardinality(Tracked(ip)') = IF ip = IpOf[c] THEN Cardinality(Tracked(ip)) + 1
                                          ELSE Cardinality(Tracked(ip))
  BY <1>1, TrackedEnters
<1>7. CountsExact'
  BY <1>3, <1>5, <1>6 DEF CountsExact, AcquirePerIp
<1>8. PerIpCap'
  BY <1>1, <1>6 DEF PerIpCap, CountsExact, AcquirePerIp
<1> QED
  BY <1>4, <1>5, <1>7, <1>8 DEF GlobalCap

LEMMA RejectPerIpStep ==
  ASSUME IInv, NEW c \in Conn, RejectPerIp(c)
  PROVE  IInv'
<1> USE DEF IInv
<1>1. Goto(c, "undoPerIp") /\ pc[c] = "globalTaken" /\ "undoPerIp" \in Locations /\ IpOf[c] \in Ip
  BY IpAssumption DEF RejectPerIp, Locations
<1>2. Count(IpOf[c]) \in Nat
  BY <1>1 DEF Count, TypeOK
<1>3. /\ DOMAIN perIp' \subseteq Ip
      /\ perIp' \in [DOMAIN perIp' -> Nat]
      /\ \A ip \in Ip : Count(ip)' = Count(ip)
  BY <1>1, <1>2, StoreCount DEF RejectPerIp
<1>4. TypeOK'
  BY <1>1, <1>3 DEF TypeOK, Goto, RejectPerIp
<1>5. Counted' = Counted /\ Admitted' = Admitted
  BY <1>1, Move DEF Counted, Admitted
<1>6. \A ip : Tracked(ip)' = Tracked(ip)
  BY <1>1, TrackedStays
<1>7. CountsExact'
  BY <1>3, <1>5, <1>6 DEF CountsExact, RejectPerIp
<1> QED
  BY <1>4, <1>5, <1>6, <1>7 DEF GlobalCap, PerIpCap

LEMMA ReleasePerIpStep ==
  ASSUME IInv, NEW c \in Conn, ReleasePerIp(c)
  PROVE  IInv'
<1> USE DEF IInv
<1>1. Goto(c, "idle") /\ pc[c] = "releaseIp" /\ "idle" \in Locations /\ IpOf[c] \in Ip
  BY IpAssumption DEF ReleasePerIp, Locations
<1>2. /\ DOMAIN perIp' \subseteq Ip
      /\ perIp' \in [DOMAIN perIp' -> Nat]
      /\ \A ip \in Ip : Count(ip)' = IF ip = IpOf[c] /\ Count(ip) > 0
                                     THEN Count(ip) - 1 ELSE Count(ip)
  BY <1>1, ReleaseCount
<1>3. TypeOK'
  BY <1>1, <1>2 DEF TypeOK, Goto, ReleasePerIp
<1>4. /\ Counted' = Counted
      /\ Admitted' = Admitted
      /\ At({"undoPerIp"})' = At({"undoPerIp"})
  BY <1>1, Move DEF Counted, Admitted
<1>5. \A ip : Cardinality(Tracked(ip)') = IF ip = IpOf[c] THEN Cardinality(Tracked(ip)) - 1
                                          ELSE Cardinality(Tracked(ip))
  BY <1>1, TrackedLeaves
<1>6. Count(IpOf[c]) > 0
  <2>1. c \in Tracked(IpOf[c])
    BY <1>1 DEF Tracked, At
  <2>2. Cardinality(Tracked(IpOf[c])) # 0
    BY <2>1, TrackedFinite, FS_EmptySet
  <2> QED
    BY <1>1, <2>2, TrackedFinite DEF CountsExact
<1>7. CountsExact'
  BY <1>2, <1>4, <1>5, <1>6 DEF CountsExact, ReleasePerIp
<1>8. PerIpCap'
  BY <1>5, TrackedFinite, LimitAssumption DEF PerIpCap
<1> QED
  BY <1>3, <1>4, <1>7, <1>8 DEF GlobalCap

LEMMA StepIInv == IInv /\ [Next]_vars => IInv'
<1> SUFFICES ASSUME IInv, [Next]_vars PROVE IInv'
  OBVIOUS
<1>1. CASE UNCHANGED vars
  BY <1>1 DEF vars, IInv, TypeOK, CountsExact, GlobalCap, PerIpCap,
              Counted, Admitted, Tracked, At, Count
<1>2. ASSUME NEW c \in Conn, AcquireGlobal(c) PROVE IInv'
  BY <1>2, AcquireGlobalStep
<1>3. ASSUME NEW c \in Conn, UndoGlobal(c) \/ UndoPerIp(c) \/ ReleaseGlobal(c) PROVE IInv'
  BY <1>3, GlobalDecrementStep
<1>4. ASSUME NEW c \in Conn, AcquirePerIp(c) PROVE IInv'
  BY <1>4, AcquirePerIpStep
<1>5. ASSUME NEW c \in Conn, RejectPerIp(c) PROVE IInv'
  BY <1>5, RejectPerIpStep
<1>6. ASSUME NEW c \in Conn, ReleasePerIp(c) PROVE IInv'
  BY <1>6, ReleasePerIpStep
<1> QED
  BY <1>1, <1>2, <1>3, <1>4, <1>5, <1>6 DEF Next, Acquiring

-----------------------------------------------------------------------------
\* Every reachable state satisfies the inductive invariant.
THEOREM Invariance == Spec => []IInv
<1>1. Init => IInv
  BY InitIInv
<1>2. IInv /\ [Next]_vars => IInv'
  BY StepIInv
<1> QED
  BY <1>1, <1>2, PTL DEF Spec

\* Throttle::global and Throttle::per_ip keep their types: no fetch_sub of
\* acquire or release ever takes the counter below zero.
THEOREM TypeCorrect == Spec => []TypeOK
<1>1. IInv => TypeOK
  BY DEF IInv
<1> QED
  BY <1>1, Invariance, PTL

\* With a positive per-IP limit no entry of per_ip is ever empty, so the map is
\* as large as the set of addresses that hold a connection (or whose release
\* is at the last step), and no larger.
THEOREM TrackedIpsAreOpen == Spec => []NoEmptyEntry
<1>1. Init => NoEmptyEntry
  BY DEF Init, NoEmptyEntry
<1>2. NoEmptyEntry /\ IInv /\ [Next]_vars => NoEmptyEntry'
  <2> SUFFICES ASSUME MaxPerIp > 0, NoEmptyEntry, IInv, [Next]_vars PROVE NoEmptyEntry'
    BY DEF NoEmptyEntry
  <2>1. CASE UNCHANGED perIp
    BY <2>1 DEF NoEmptyEntry
  <2>2. ASSUME NEW c \in Conn, NEW n \in Nat, n > 0, Store(IpOf[c], n)
        PROVE  NoEmptyEntry'
    BY <2>2 DEF NoEmptyEntry, Store
  <2>3. ASSUME NEW c \in Conn, AcquirePerIp(c) \/ RejectPerIp(c) PROVE NoEmptyEntry'
    <3>1. Count(IpOf[c]) \in Nat
      BY IpAssumption DEF IInv, TypeOK, Count
    <3>2. PICK n \in Nat : n > 0 /\ Store(IpOf[c], n)
      BY <2>3, <3>1, LimitAssumption DEF AcquirePerIp, RejectPerIp
    <3> QED
      BY <3>2, <2>2
  <2>4. ASSUME NEW c \in Conn, ReleasePerIp(c) PROVE NoEmptyEntry'
    <3>1. CASE Count(IpOf[c]) > 1
      BY <2>4, <3>1 DEF ReleasePerIp, NoEmptyEntry, Count, IInv, TypeOK
    <3>2. CASE ~(Count(IpOf[c]) > 1)
      BY <2>4, <3>2 DEF ReleasePerIp, NoEmptyEntry, Restrict
    <3> QED
      BY <3>1, <3>2
  <2> QED
    BY <2>1, <2>3, <2>4 DEF Next, Acquiring, AcquireGlobal, UndoGlobal, UndoPerIp,
                            ReleaseGlobal, vars
<1> QED
  BY <1>1, <1>2, Invariance, PTL DEF Spec

\* The counters of acquire and release mean the same thing after every
\* interleaving: calls in flight globally, admitted connections per address.
THEOREM AccountingCorrect == Spec => []Accounting
<1>1. IInv => TypeOK /\ CountsExact
  BY DEF IInv
<1> QED
  BY <1>1, Invariance, TrackedIpsAreOpen, PTL DEF Accounting

\* acquire never lets more than max_connections_global connections past the
\* global check, nor more than max_connections_per_ip into an address's count.
THEOREM CapsHold == Spec => []LimitsHold
<1>1. IInv => LimitsHold
  BY DEF IInv, LimitsHold
<1> QED
  BY <1>1, Invariance, PTL

\* The abstract specification counts with its own instance of FiniteSets.
LEMMA CapCardinality == \A S : Cap!Cardinality(S) = Cardinality(S)
BY DEF Cap!Cardinality, Cardinality

\* acquire and release implement the abstract cap: every admission happens
\* while there is room globally and for the address.
THEOREM Refinement == Spec => ImplementsCap
<1>1. Init => Cap!Init
  BY DEF Init, Cap!Init, At
<1>2. IInv /\ [Next]_vars => [Cap!Next]_(At({"held"}))
  <2> SUFFICES ASSUME IInv, [Next]_vars PROVE Cap!Next \/ At({"held"})' = At({"held"})
    OBVIOUS
  <2>1. CASE UNCHANGED vars
    BY <2>1 DEF vars, At
  <2>2. ASSUME NEW c \in Conn, AcquirePerIp(c) PROVE Cap!Admit(c)
    <3>1. Goto(c, "held") /\ pc[c] = "globalTaken" /\ "held" \in Locations /\ IpOf[c] \in Ip
      BY <2>2, IpAssumption DEF AcquirePerIp, Locations
    <3>2. c \notin At({"held"}) /\ At({"held"})' = At({"held"}) \cup {c}
      <4>1. c \notin At({"held"})
        BY <3>1 DEF At
      <4> QED
        BY <3>1, <4>1, Move DEF IInv
    <3>3. Cardinality(At({"held"})) < MaxGlobal
      <4>1. At({"held"}) \subseteq Admitted \ {c} /\ c \in Admitted
        BY <3>1 DEF Admitted, At
      <4>2. IsFiniteSet(Admitted) /\ Cardinality(Admitted) \in Nat
        BY AtFinite DEF Admitted
      <4>3. /\ IsFiniteSet(Admitted \ {c})
            /\ Cardinality(Admitted \ {c}) = Cardinality(Admitted) - 1
        BY <4>1, <4>2, FS_RemoveElement
      <4>4. Cardinality(At({"held"})) <= Cardinality(Admitted \ {c})
        BY <4>1, <4>3, FS_Subset
      <4> QED
        BY <4>2, <4>3, <4>4, AtFinite, LimitAssumption DEF IInv, GlobalCap
    <3>4. Cardinality(Cap!HeldBy(IpOf[c])) < MaxPerIp
      <4>1. Cap!HeldBy(IpOf[c]) \subseteq Tracked(IpOf[c])
        BY DEF Cap!HeldBy, Tracked, At
      <4>2. Cardinality(Cap!HeldBy(IpOf[c])) <= Cardinality(Tracked(IpOf[c]))
        BY <4>1, TrackedFinite, FS_Subset
      <4>3. Cardinality(Cap!HeldBy(IpOf[c])) \in Nat
        BY <4>1, TrackedFinite, FS_Subset, FS_CardinalityType
      <4>4. Count(IpOf[c]) = Cardinality(Tracked(IpOf[c])) /\ Count(IpOf[c]) + 1 <= MaxPerIp
        BY <2>2, <3>1 DEF IInv, CountsExact, AcquirePerIp
      <4> QED
        BY <4>2, <4>3, <4>4, TrackedFinite, LimitAssumption
    <3> QED
      BY <3>2, <3>3, <3>4, CapCardinality DEF Cap!Admit
  <2>3. ASSUME NEW c \in Conn, ReleaseGlobal(c) PROVE Cap!Release(c)
    <3>1. Goto(c, "releaseIp") /\ pc[c] = "held" /\ "releaseIp" \in Locations
      BY <2>3 DEF ReleaseGlobal, Locations
    <3>2. c \in At({"held"}) /\ At({"held"})' = At({"held"}) \ {c}
      <4>1. c \in At({"held"})
        BY <3>1 DEF At
      <4> QED
        BY <3>1, <4>1, Move DEF IInv
    <3> QED
      BY <3>2 DEF Cap!Release
  <2>4. ASSUME NEW c \in Conn,
               \/ AcquireGlobal(c) \/ UndoGlobal(c) \/ RejectPerIp(c)
               \/ UndoPerIp(c) \/ ReleasePerIp(c)
        PROVE  At({"held"})' = At({"held"})
    <3>1. PICK loc \in Locations : Goto(c, loc) /\ loc # "held" /\ pc[c] # "held"
      BY <2>4 DEF AcquireGlobal, UndoGlobal, RejectPerIp, UndoPerIp, ReleasePerIp, Locations
    <3> QED
      BY <3>1, Move DEF IInv
  <2> QED
    BY <2>1, <2>2, <2>3, <2>4 DEF Next, Acquiring, Cap!Next
<1> QED
  BY <1>1, <1>2, Invariance, PTL DEF Spec, ImplementsCap, Cap!Spec

\* acquire refuses for the global limit only when the connections held and the
\* calls in progress together fill it; alone, only when it is really reached.
THEOREM RefusalsJustified == Spec => RefusalJustified
<1> DEFINE Held == At({"held"})
           A(c) == pc[c] = "idle" /\ pc'[c] = "undoGlobal" =>
                     /\ Cardinality(Held) + Cardinality(Busy) >= MaxGlobal
                     /\ Busy = {} => Cardinality(Held) = MaxGlobal
<1>1. IInv => Cardinality(Counted) = Cardinality(Held) + Cardinality(Busy)
  <2>1. Counted = Held \cup Busy /\ Held \cap Busy = {}
    BY DEF Counted, Busy, At
  <2>2. IsFiniteSet(Held) /\ IsFiniteSet(Busy)
    BY AtFinite DEF Busy
  <2>3. Cardinality(Held \cap Busy) = 0
    BY <2>1, FS_EmptySet
  <2>4. Cardinality(Held) \in Nat /\ Cardinality(Busy) \in Nat
    BY AtFinite DEF Busy
  <2>5. Cardinality(Held \cup Busy) =
          Cardinality(Held) + Cardinality(Busy) - Cardinality(Held \cap Busy)
    BY <2>2, FS_Union
  <2> QED
    BY <2>1, <2>3, <2>4, <2>5
<1>2. IInv => Cardinality(Held) <= MaxGlobal
  <2>1. Held \subseteq Admitted
    BY DEF Admitted, At
  <2> QED
    BY <2>1, AtFinite, FS_Subset, LimitAssumption DEF IInv, GlobalCap, Admitted
<1>3. IInv /\ [Next]_vars => \A c \in Conn : A(c)
  <2> SUFFICES ASSUME IInv, [Next]_vars, NEW c \in Conn,
                      pc[c] = "idle", pc'[c] = "undoGlobal"
               PROVE  /\ Cardinality(Held) + Cardinality(Busy) >= MaxGlobal
                      /\ Busy = {} => Cardinality(Held) = MaxGlobal
    OBVIOUS
  <2>1. AcquireGlobal(c)
    <3>1. PICK d \in Conn : \/ AcquireGlobal(d) \/ UndoGlobal(d) \/ AcquirePerIp(d)
                            \/ RejectPerIp(d) \/ UndoPerIp(d) \/ ReleaseGlobal(d)
                            \/ ReleasePerIp(d)
      BY DEF vars, Next, Acquiring
    <3>2. PICK loc : Goto(d, loc) /\ (loc = "undoGlobal" => AcquireGlobal(d))
      BY <3>1 DEF AcquireGlobal, UndoGlobal, AcquirePerIp, RejectPerIp,
                  UndoPerIp, ReleaseGlobal, ReleasePerIp
    <3>3. d = c /\ loc = "undoGlobal"
      BY <3>2 DEF Goto, IInv, TypeOK
    <3> QED
      BY <3>2, <3>3
  <2>2. global + 1 > MaxGlobal
    BY <2>1 DEF AcquireGlobal, Goto, IInv, TypeOK
  <2>3. Cardinality(Held) \in Nat /\ Cardinality(Busy) \in Nat
    BY AtFinite DEF Busy
  <2>4. Cardinality(Held) + Cardinality(Busy) >= MaxGlobal
    BY <1>1, <2>2, <2>3, LimitAssumption DEF IInv, CountsExact
  <2>5. ASSUME Busy = {} PROVE Cardinality(Busy) = 0
    BY <2>5, FS_EmptySet
  <2> QED
    BY <1>2, <2>3, <2>4, <2>5, LimitAssumption
<1> QED
  BY <1>3, Invariance, PTL DEF Spec, RefusalJustified
=============================================================================
