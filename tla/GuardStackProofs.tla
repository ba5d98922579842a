-------------------------- MODULE GuardStackProofs --------------------------
(***************************************************************************)
(* Proofs about GuardStack for any number of connections and guards.       *)
(*                                                                         *)
(* The invariant is a statement about one session: what the guards have    *)
(* been told of it is determined by the place its control state is at and  *)
(* by how far the loop there has come.  A step concerns one session, so    *)
(* that each action has one lemma, about the session that moves.           *)
(***************************************************************************)
EXTENDS GuardStack, FiniteSetTheorems, TLAPS

-----------------------------------------------------------------------------
(* The inductive invariant, as a predicate on the control state c of a     *)
(* session and on what the guards have been told, t.                       *)

Fresh(t) == t.reserved = {} /\ t.established = {} /\ t.closes = NoCloses
Held(t) == {g \in t.reserved : t.closes[g] = 0}
ClosedUpTo(n) == [g \in Guard |-> IF g <= n THEN 1 ELSE 0]

\* reserve has not returned: nobody has been told more than the loop has.
Reserving(c, t) ==
  /\ c.at = "accepted" => ~c.allowed /\ ~c.closed /\ Fresh(t)
  /\ c.at = "reserving" =>
       /\ ~c.allowed /\ ~c.closed /\ c.idx >= 1
       /\ t.reserved = 1..(c.idx - 1) /\ t.established = {} /\ t.closes = NoCloses
  /\ c.at = "rollback" =>
       ~c.allowed /\ c.idx <= N /\ Held(t) = 1..c.idx /\ t.established = {}
  /\ c.at = "rejected" => ~c.allowed /\ Held(t) = {}

\* The session is open.
Living(c, t) ==
  /\ c.at = "handshake" =>
       /\ ~c.closed
       /\ IF c.allowed THEN Fresh(t)
          ELSE t.reserved = Guard /\ t.established = {} /\ t.closes = NoCloses
  /\ c.at = "establishing" =>
       /\ ~c.allowed /\ ~c.closed /\ c.idx >= 1
       /\ t.reserved = Guard /\ t.established = 1..(c.idx - 1) /\ t.closes = NoCloses
  /\ c.at \in {"serving", "activity"} =>
       /\ ~c.closed
       /\ IF c.allowed THEN Fresh(t)
          ELSE t.reserved = Guard /\ t.established = Guard /\ t.closes = NoCloses

\* The session is being dropped: the flag `closed' tells whether the guards
\* have been told, and a session that nobody has closed has a drop to come.
Ending(c, t) ==
  /\ c.at = "dropping" =>
       IF c.allowed THEN Fresh(t)
       ELSE /\ t.reserved = Guard
            /\ t.closes = IF c.closed THEN ClosedUpTo(N) ELSE NoCloses
            /\ ~c.closed => c.drops > 0
  /\ c.at = "closing" =>
       /\ ~c.allowed /\ c.closed /\ c.idx >= 1
       /\ t.reserved = Guard /\ t.closes = ClosedUpTo(c.idx - 1)
  /\ c.at = "done" => IF c.allowed THEN Fresh(t) ELSE Held(t) = {}

Consistent(c, t) == Reserving(c, t) /\ Living(c, t) /\ Ending(c, t)

IInv == TypeOK /\ \A s \in Session : Consistent(conn[s], told[s])

\* The state of every session is as it should be after a step of s if that of
\* s is, and the step leaves the others alone.
Moves(s) ==
  /\ conn' \in [Session -> ConnType]
  /\ told' \in [Session -> ToldType]
  /\ Consistent(conn'[s], told'[s])
  /\ \A r \in Session \ {s} : conn'[r] = conn[r] /\ told'[r] = told[r]

-----------------------------------------------------------------------------
(* The two ways a step changes the state, and what is left to show for it. *)

\* A step that moves only the control state of s.
LEMMA ControlStep ==
  ASSUME IInv, NEW s \in Session, NEW c \in ConnType,
         conn' = [conn EXCEPT ![s] = c], UNCHANGED told, Consistent(c, told[s])
  PROVE  Moves(s)
BY DEF IInv, TypeOK, Moves

\* A step that calls a hook of a guard for s as well.
LEMMA HookStep ==
  ASSUME IInv, NEW s \in Session, NEW c \in ConnType, NEW t \in ToldType,
         conn' = [conn EXCEPT ![s] = c], told' = [told EXCEPT ![s] = t],
         Consistent(c, t)
  PROVE  Moves(s)
BY DEF IInv, TypeOK, Moves

LEMMA Types ==
  ASSUME IInv, NEW s \in Session
  PROVE  /\ conn[s] \in ConnType /\ told[s] \in ToldType /\ N \in Nat
         /\ Consistent(conn[s], told[s])
BY StackAssumption DEF IInv, TypeOK

\* The records c that Goto(s, p, i) may leave in conn[s].
Moved(s, p, i) ==
  {c \in ConnType : /\ c.at = p /\ c.idx = i /\ c.allowed = conn[s].allowed
                    /\ c.closed = conn[s].closed /\ c.drops = conn[s].drops}

LEMMA GotoMoves ==
  ASSUME IInv, NEW s \in Session, NEW p \in Places, NEW i \in 0..N+1, Goto(s, p, i)
  PROVE  \E c \in Moved(s, p, i) : conn' = [conn EXCEPT ![s] = c]
<1> DEFINE c == [conn[s] EXCEPT !.at = p, !.idx = i]
<1>1. c \in Moved(s, p, i)
  BY Types DEF ConnType, Moved
<1>2. conn' = [conn EXCEPT ![s] = c]
  BY DEF Goto, IInv, TypeOK
<1> QED
  BY <1>1, <1>2

\* The two lemmas above for the actions that are written with Goto.
LEMMA GotoStep ==
  ASSUME IInv, NEW s \in Session, NEW p \in Places, NEW i \in 0..N+1, Goto(s, p, i),
         UNCHANGED told, \A c \in Moved(s, p, i) : Consistent(c, told[s])
  PROVE  Moves(s)
BY GotoMoves, ControlStep DEF Moved

LEMMA GotoHookStep ==
  ASSUME IInv, NEW s \in Session, NEW p \in Places, NEW i \in 0..N+1, Goto(s, p, i),
         NEW t \in ToldType, told' = [told EXCEPT ![s] = t],
         \A c \in Moved(s, p, i) : Consistent(c, t)
  PROVE  Moves(s)
<1>1. PICK c \in Moved(s, p, i) : conn' = [conn EXCEPT ![s] = c]
  BY GotoMoves
<1>2. c \in ConnType /\ Consistent(c, t)
  BY <1>1 DEF Moved
<1> QED
  BY <1>1, <1>2, HookStep

\* What a hook of guard g leaves in told[s].
LEMMA HookTypes ==
  ASSUME IInv, NEW s \in Session, NEW g \in Guard
  PROVE  /\ [told[s] EXCEPT !.reserved = @ \cup {g}] \in ToldType
         /\ [told[s] EXCEPT !.established = @ \cup {g}] \in ToldType
         /\ [told[s] EXCEPT !.closes[g] = @ + 1] \in ToldType
<1>1. told[s].closes \in [Guard -> Nat] /\ told[s] \in ToldType
  BY Types DEF ToldType
<1>2. [told[s].closes EXCEPT ![g] = @ + 1] \in [Guard -> Nat]
  BY <1>1
<1>3. [told[s] EXCEPT !.closes = [told[s].closes EXCEPT ![g] = @ + 1]] \in ToldType
  BY <1>1, <1>2 DEF ToldType
<1>4. /\ [told[s] EXCEPT !.reserved = @ \cup {g}] \in ToldType
      /\ [told[s] EXCEPT !.established = @ \cup {g}] \in ToldType
  BY <1>1 DEF ToldType
<1> QED
  BY <1>3, <1>4

-----------------------------------------------------------------------------
(* GuardStack::reserve *)

LEMMA ReserveAllowedStep ==
  ASSUME IInv, NEW s \in Session, ReserveAllowed(s) PROVE Moves(s)
<1> DEFINE c == [conn[s] EXCEPT !.at = "handshake", !.allowed = TRUE]
<1>1. c \in ConnType /\ conn' = [conn EXCEPT ![s] = c]
  BY Types DEF ReserveAllowed, ConnType, Places, IInv, TypeOK
<1>2. c.at = "handshake" /\ c.allowed /\ c.closed = conn[s].closed
  BY Types DEF ConnType
<1>3. ~conn[s].closed /\ Fresh(told[s])
  BY Types DEF ReserveAllowed, At, Consistent, Reserving
<1>4. Consistent(c, told[s])
  BY <1>2, <1>3 DEF Consistent, Reserving, Living, Ending
<1> HIDE DEF c
<1> QED
  BY <1>1, <1>4, ControlStep DEF ReserveAllowed

LEMMA ReserveBeginStep ==
  ASSUME IInv, NEW s \in Session, ReserveBegin(s) PROVE Moves(s)
<1>1. ~conn[s].allowed /\ ~conn[s].closed /\ Fresh(told[s]) /\ N \in Nat
  BY Types DEF ReserveBegin, At, Consistent, Reserving
<1>2. \A c \in Moved(s, "reserving", 1) : Consistent(c, told[s])
  BY <1>1 DEF Moved, Consistent, Reserving, Living, Ending, Fresh
<1> QED
  BY <1>1, <1>2, GotoStep DEF ReserveBegin, Places

LEMMA OnReserveStep ==
  ASSUME IInv, NEW s \in Session, OnReserve(s) PROVE Moves(s)
<1> DEFINE g == conn[s].idx
           t == [told[s] EXCEPT !.reserved = @ \cup {g}]
<1>1. /\ ~conn[s].allowed /\ ~conn[s].closed /\ g \in Guard /\ N \in Nat
      /\ told[s].reserved = 1..(g - 1) /\ told[s].established = {}
      /\ told[s].closes = NoCloses
  BY Types DEF OnReserve, At, Consistent, Reserving, Guard, ConnType
<1>2. t \in ToldType /\ told' = [told EXCEPT ![s] = t]
  BY <1>1, HookTypes DEF OnReserve, IInv, TypeOK
<1>3. t.reserved = 1..g /\ t.established = {} /\ t.closes = NoCloses
  BY <1>1, Types DEF ToldType, Guard
<1> HIDE DEF t
<1>4. \A c \in Moved(s, "reserving", g + 1) : Consistent(c, t)
  BY <1>1, <1>3 DEF Moved, Consistent, Reserving, Living, Ending, Guard
<1>5. g + 1 \in 0..N+1 /\ Goto(s, "reserving", g + 1)
  BY <1>1 DEF OnReserve, Guard
<1> HIDE DEF g
<1> QED
  BY <1>2, <1>4, <1>5, GotoHookStep DEF Places

LEMMA OnReserveRefusedStep ==
  ASSUME IInv, NEW s \in Session, OnReserveRefused(s) PROVE Moves(s)
<1> DEFINE g == conn[s].idx
<1>1. /\ ~conn[s].allowed /\ g \in Guard /\ N \in Nat
      /\ told[s].reserved = 1..(g - 1) /\ told[s].established = {}
      /\ told[s].closes = NoCloses
  BY Types DEF OnReserveRefused, At, Consistent, Reserving, Guard, ConnType
<1>2. Held(told[s]) = 1..(g - 1)
  BY <1>1 DEF Held, NoCloses, Guard
<1>3. \A c \in Moved(s, "rollback", g - 1) : Consistent(c, told[s])
  BY <1>1, <1>2 DEF Moved, Consistent, Reserving, Living, Ending, Guard
<1> QED
  BY <1>1, <1>3, GotoStep DEF OnReserveRefused, Places, Guard

LEMMA RollbackStep ==
  ASSUME IInv, NEW s \in Session, Rollback(s) PROVE Moves(s)
<1> DEFINE g == conn[s].idx
           t == [told[s] EXCEPT !.closes[g] = @ + 1]
<1>1. /\ ~conn[s].allowed /\ g \in Guard /\ N \in Nat
      /\ Held(told[s]) = 1..g /\ told[s].established = {}
  BY Types DEF Rollback, At, Consistent, Reserving, Guard, ConnType
<1>2. t \in ToldType /\ told' = [told EXCEPT ![s] = t]
  BY <1>1, HookTypes DEF Rollback, IInv, TypeOK
<1>3. /\ t.reserved = told[s].reserved /\ t.established = {}
      /\ t.closes = [told[s].closes EXCEPT ![g] = @ + 1]
      /\ told[s].closes \in [Guard -> Nat] /\ told[s].reserved \subseteq Guard
  BY <1>1, Types DEF ToldType
<1>4. Held(t) = 1..(g - 1)
  BY <1>1, <1>3 DEF Held, Guard
<1> HIDE DEF t
<1>5. \A c \in Moved(s, "rollback", g - 1) : Consistent(c, t)
  BY <1>1, <1>3, <1>4 DEF Moved, Consistent, Reserving, Living, Ending, Guard
<1>6. g - 1 \in 0..N+1 /\ Goto(s, "rollback", g - 1)
  BY <1>1 DEF Rollback, Guard
<1> HIDE DEF g
<1> QED
  BY <1>2, <1>5, <1>6, GotoHookStep DEF Places

LEMMA RejectedStep ==
  ASSUME IInv, NEW s \in Session, Rejected(s) PROVE Moves(s)
<1>1. ~conn[s].allowed /\ Held(told[s]) = {} /\ N \in Nat
  BY Types DEF Rejected, At, Consistent, Reserving
<1>2. \A c \in Moved(s, "rejected", 0) : Consistent(c, told[s])
  BY <1>1 DEF Moved, Consistent, Reserving, Living, Ending
<1> QED
  BY <1>1, <1>2, GotoStep DEF Rejected, Places

LEMMA ReserveOkStep ==
  ASSUME IInv, NEW s \in Session, ReserveOk(s) PROVE Moves(s)
<1>1. /\ ~conn[s].allowed /\ ~conn[s].closed /\ N \in Nat
      /\ told[s].reserved = Guard /\ told[s].established = {}
      /\ told[s].closes = NoCloses
  BY Types DEF ReserveOk, At, Consistent, Reserving, Guard
<1>2. \A c \in Moved(s, "handshake", 0) : Consistent(c, told[s])
  BY <1>1 DEF Moved, Consistent, Reserving, Living, Ending
<1> QED
  BY <1>1, <1>2, GotoStep DEF ReserveOk, Places

-----------------------------------------------------------------------------
(* GuardSession::mark_established and the activity reports *)

LEMMA MarkEstablishedStep ==
  ASSUME IInv, NEW s \in Session, MarkEstablished(s) PROVE Moves(s)
<1>1. /\ ~conn[s].closed /\ N \in Nat /\ conn[s].allowed \in BOOLEAN
      /\ IF conn[s].allowed THEN Fresh(told[s])
         ELSE /\ told[s].reserved = Guard /\ told[s].established = {}
              /\ told[s].closes = NoCloses
  BY Types DEF MarkEstablished, At, Consistent, Living, ConnType
<1>2. CASE conn[s].allowed
  <2>1. \A c \in Moved(s, "serving", 0) : Consistent(c, told[s])
    BY <1>1, <1>2 DEF Moved, Consistent, Reserving, Living, Ending
  <2> QED
    BY <1>1, <1>2, <2>1, GotoStep DEF MarkEstablished, Places
<1>3. CASE ~conn[s].allowed
  <2>1. told[s].established = 1..(1 - 1)
    BY <1>1, <1>3
  <2>2. \A c \in Moved(s, "establishing", 1) : Consistent(c, told[s])
    BY <1>1, <1>3, <2>1 DEF Moved, Consistent, Reserving, Living, Ending
  <2> QED
    BY <1>1, <1>3, <2>2, GotoStep DEF MarkEstablished, Places
<1> QED
  BY <1>1, <1>2, <1>3

LEMMA OnEstablishedStep ==
  ASSUME IInv, NEW s \in Session, OnEstablished(s) PROVE Moves(s)
<1> DEFINE g == conn[s].idx
           t == [told[s] EXCEPT !.established = @ \cup {g}]
<1>1. /\ ~conn[s].allowed /\ ~conn[s].closed /\ g \in Guard /\ N \in Nat
      /\ told[s].reserved = Guard /\ told[s].established = 1..(g - 1)
      /\ told[s].closes = NoCloses
  BY Types DEF OnEstablished, At, Consistent, Living, Guard, ConnType
<1>2. t \in ToldType /\ told' = [told EXCEPT ![s] = t]
  BY <1>1, HookTypes DEF OnEstablished, IInv, TypeOK
<1>3. t.reserved = Guard /\ t.established = 1..g /\ t.closes = NoCloses
  BY <1>1, Types DEF ToldType, Guard
<1> HIDE DEF t
<1>4. \A c \in Moved(s, "establishing", g + 1) : Consistent(c, t)
  BY <1>1, <1>3 DEF Moved, Consistent, Reserving, Living, Ending, Guard
<1>5. g + 1 \in 0..N+1 /\ Goto(s, "establishing", g + 1)
  BY <1>1 DEF OnEstablished, Guard
<1> HIDE DEF g
<1> QED
  BY <1>2, <1>4, <1>5, GotoHookStep DEF Places

LEMMA AttachStep ==
  ASSUME IInv, NEW s \in Session, Attach(s) PROVE Moves(s)
<1>1. /\ ~conn[s].allowed /\ ~conn[s].closed /\ N \in Nat
      /\ told[s].reserved = Guard /\ told[s].established = Guard
      /\ told[s].closes = NoCloses
  BY Types DEF Attach, At, Consistent, Living, Guard
<1>2. \A c \in Moved(s, "serving", 0) : Consistent(c, told[s])
  BY <1>1 DEF Moved, Consistent, Reserving, Living, Ending
<1> QED
  BY <1>1, <1>2, GotoStep DEF Attach, Places

LEMMA ActivitySteps ==
  ASSUME IInv, NEW s \in Session, Report(s) \/ OnActivity(s) PROVE Moves(s)
<1>1. /\ conn[s].at \in {"serving", "activity"} /\ ~conn[s].closed
      /\ IF conn[s].allowed THEN Fresh(told[s])
         ELSE /\ told[s].reserved = Guard /\ told[s].established = Guard
              /\ told[s].closes = NoCloses
      /\ N \in Nat /\ conn[s].idx \in 0..N+1
  BY Types DEF Report, OnActivity, At, Consistent, Living, ConnType
<1>2. \A p \in {"serving", "activity"}, i \in 0..N+1 :
        \A c \in Moved(s, p, i) : Consistent(c, told[s])
  BY <1>1 DEF Moved, Consistent, Reserving, Living, Ending
<1>3. PICK p \in {"serving", "activity"}, i \in 0..N+1 : Goto(s, p, i) /\ UNCHANGED told
  BY <1>1 DEF Report, OnActivity
<1> QED
  BY <1>2, <1>3, GotoStep DEF Places

-----------------------------------------------------------------------------
(* The drops and GuardSession::close *)

LEMMA DropSteps ==
  ASSUME IInv, NEW s \in Session,
         DropSession(s) \/ DropConnection(s) \/ IntoStream(s)
  PROVE  Moves(s)
<1>1. /\ conn[s].at \in {"handshake", "establishing", "serving"} /\ ~conn[s].closed
      /\ IF conn[s].allowed THEN Fresh(told[s])
         ELSE told[s].reserved = Guard /\ told[s].closes = NoCloses
  BY Types DEF DropSession, DropConnection, IntoStream, At, Consistent, Living
<1>2. PICK n \in {1, 2}, taken \in BOOLEAN : Drop(s, n, taken)
  BY DEF DropSession, DropConnection, IntoStream
<1> DEFINE c == [conn[s] EXCEPT !.at = "dropping", !.idx = 0, !.drops = n, !.stream = taken]
<1>3. c \in ConnType /\ conn' = [conn EXCEPT ![s] = c]
  <2>1. c \in ConnType
    <3>1. conn[s] \in ConnType /\ 0 \in 0..N+1 /\ n \in 0..2 /\ "dropping" \in Places
      BY Types DEF Places
    <3>2. [conn[s] EXCEPT !.at = "dropping", !.idx = 0, !.drops = n] \in ConnType
      BY <3>1 DEF ConnType
    <3>3. [[conn[s] EXCEPT !.at = "dropping", !.idx = 0, !.drops = n]
              EXCEPT !.stream = taken] \in ConnType
      BY <3>2, Zenon DEF ConnType
    <3> QED
      BY <3>3
  <2>2. conn' = [conn EXCEPT ![s] = c]
    BY <1>2 DEF Drop, IInv, TypeOK
  <2> QED
    BY <2>1, <2>2
<1>4. /\ c.at = "dropping" /\ c.drops > 0 /\ c.allowed = conn[s].allowed
      /\ c.closed = conn[s].closed
  BY Types DEF ConnType
<1>5. Consistent(c, told[s])
  BY <1>1, <1>4 DEF Consistent, Reserving, Living, Ending
<1> HIDE DEF c
<1> QED
  BY <1>3, <1>5, ControlStep DEF DropSession, DropConnection, IntoStream

\* Dropping the stream changes nothing the invariant speaks of.
LEMMA DropStreamStep ==
  ASSUME IInv, NEW s \in Session, DropStream(s) PROVE Moves(s)
<1> DEFINE c == [conn[s] EXCEPT !.stream = FALSE]
<1>1. c \in ConnType /\ conn' = [conn EXCEPT ![s] = c]
  BY Types DEF DropStream, ConnType, IInv, TypeOK
<1>2. /\ c.at = conn[s].at /\ c.idx = conn[s].idx /\ c.allowed = conn[s].allowed
      /\ c.closed = conn[s].closed /\ c.drops = conn[s].drops
  BY Types DEF ConnType
<1> HIDE DEF c
<1>3. Consistent(c, told[s])
  BY <1>2, Types DEF Consistent, Reserving, Living, Ending
<1> QED
  BY <1>1, <1>3, ControlStep DEF DropStream

LEMMA CloseStep ==
  ASSUME IInv, NEW s \in Session, Close(s) PROVE Moves(s)
<1>1. /\ conn[s].at = "dropping" /\ conn[s].drops \in {1, 2} /\ N \in Nat
      /\ IF conn[s].allowed THEN Fresh(told[s])
         ELSE /\ told[s].reserved = Guard
              /\ told[s].closes = IF conn[s].closed THEN ClosedUpTo(N) ELSE NoCloses
  BY Types DEF Close, At, Consistent, Ending, ConnType
<1>2. CASE conn[s].allowed \/ conn[s].closed
  <2> DEFINE c == [conn[s] EXCEPT !.drops = @ - 1]
  <2>1. c \in ConnType /\ conn' = [conn EXCEPT ![s] = c]
    BY <1>1, <1>2, Types DEF Close, ConnType, IInv, TypeOK
  <2>2. c.at = "dropping" /\ c.allowed = conn[s].allowed /\ c.closed = conn[s].closed
    BY <1>1, Types DEF ConnType
  <2> HIDE DEF c
  <2>3. Consistent(c, told[s])
    BY <1>1, <1>2, <2>2 DEF Consistent, Reserving, Living, Ending
  <2> QED
    BY <2>1, <2>3, ControlStep DEF Close
<1>3. CASE ~conn[s].allowed /\ ~conn[s].closed
  <2> DEFINE c == [conn[s] EXCEPT !.drops = @ - 1, !.closed = TRUE,
                                  !.at = "closing", !.idx = 1]
  <2>1. c \in ConnType /\ conn' = [conn EXCEPT ![s] = c]
    BY <1>1, <1>3, Types DEF Close, ConnType, Places, IInv, TypeOK
  <2>2. c.at = "closing" /\ c.idx = 1 /\ ~c.allowed /\ c.closed
    BY <1>3, Types DEF ConnType
  <2>3. told[s].closes = ClosedUpTo(0)
    BY <1>1, <1>3 DEF ClosedUpTo, NoCloses, Guard
  <2> HIDE DEF c
  <2>4. Consistent(c, told[s])
    BY <1>1, <1>3, <2>2, <2>3 DEF Consistent, Reserving, Living, Ending
  <2> QED
    BY <2>1, <2>4, ControlStep DEF Close
<1> QED
  BY <1>2, <1>3

LEMMA OnCloseStep ==
  ASSUME IInv, NEW s \in Session, OnClose(s) PROVE Moves(s)
<1> DEFINE g == conn[s].idx
           t == [told[s] EXCEPT !.closes[g] = @ + 1]
<1>1. /\ ~conn[s].allowed /\ conn[s].closed /\ g \in Guard /\ N \in Nat
      /\ told[s].reserved = Guard /\ told[s].closes = ClosedUpTo(g - 1)
  BY Types DEF OnClose, At, Consistent, Ending, Guard, ConnType
<1>2. t \in ToldType /\ told' = [told EXCEPT ![s] = t]
  BY <1>1, HookTypes DEF OnClose, IInv, TypeOK
<1>3. t.reserved = Guard /\ t.closes = [told[s].closes EXCEPT ![g] = @ + 1]
  BY <1>1, Types DEF ToldType
<1>4. t.closes = ClosedUpTo(g)
  BY <1>1, <1>3 DEF ClosedUpTo, Guard
<1> HIDE DEF t
<1>5. \A c \in Moved(s, "closing", g + 1) : Consistent(c, t)
  <2> SUFFICES ASSUME NEW c \in Moved(s, "closing", g + 1) PROVE Consistent(c, t)
    OBVIOUS
  <2>1. /\ c.at = "closing" /\ c.idx >= 1 /\ c.idx - 1 = g
        /\ c.allowed = conn[s].allowed /\ c.closed = conn[s].closed
    <3>1. /\ c.at = "closing" /\ c.idx = g + 1
          /\ c.allowed = conn[s].allowed /\ c.closed = conn[s].closed
      BY DEF Moved
    <3>2. g \in Nat /\ g >= 1
      BY <1>1 DEF Guard
    <3> HIDE DEF g
    <3> QED
      BY <3>1, <3>2
  <2>2. t.closes = ClosedUpTo(c.idx - 1)
    BY <1>4, <2>1
  <2>3. Ending(c, t)
    <3> HIDE DEF g
    <3> QED
      BY <1>1, <1>3, <2>1, <2>2 DEF Ending
  <2>4. Reserving(c, t) /\ Living(c, t)
    BY <2>1 DEF Reserving, Living
  <2> QED
    BY <2>3, <2>4 DEF Consistent
<1>6. g + 1 \in 0..N+1 /\ Goto(s, "closing", g + 1)
  BY <1>1 DEF OnClose, Guard
<1> HIDE DEF g
<1> QED
  BY <1>2, <1>5, <1>6, GotoHookStep DEF Places

LEMMA CloseReturnsStep ==
  ASSUME IInv, NEW s \in Session, CloseReturns(s) PROVE Moves(s)
<1>1. /\ ~conn[s].allowed /\ conn[s].closed /\ N \in Nat
      /\ told[s].reserved = Guard /\ told[s].closes = ClosedUpTo(N)
  BY Types DEF CloseReturns, At, Consistent, Ending
<1>2. \A c \in Moved(s, "dropping", 0) : Consistent(c, told[s])
  BY <1>1 DEF Moved, Consistent, Reserving, Living, Ending
<1> QED
  BY <1>1, <1>2, GotoStep DEF CloseReturns, Places

LEMMA DroppedStep ==
  ASSUME IInv, NEW s \in Session, Dropped(s) PROVE Moves(s)
<1>1. /\ N \in Nat
      /\ IF conn[s].allowed THEN Fresh(told[s]) ELSE told[s].closes = ClosedUpTo(N)
  BY Types DEF Dropped, At, Consistent, Ending
<1>2. ~conn[s].allowed => Held(told[s]) = {}
  BY <1>1, Types DEF Held, ClosedUpTo, Guard, ToldType
<1>3. \A c \in Moved(s, "done", 0) : Consistent(c, told[s])
  BY <1>1, <1>2 DEF Moved, Consistent, Reserving, Living, Ending
<1> QED
  BY <1>1, <1>3, GotoStep DEF Dropped, Places

-----------------------------------------------------------------------------
(* The invariant and what follows from it *)

LEMMA SessionSteps ==
  ASSUME IInv, NEW s \in Session, Runs(s) \/ Chooses(s) PROVE Moves(s) /\ UNCHANGED allow
<1>1. Moves(s)
  BY ReserveAllowedStep, ReserveBeginStep, OnReserveStep, OnReserveRefusedStep,
     RollbackStep, RejectedStep, ReserveOkStep, MarkEstablishedStep,
     OnEstablishedStep, AttachStep, ActivitySteps, DropSteps, DropStreamStep,
     CloseStep, OnCloseStep, CloseReturnsStep, DroppedStep DEF Runs, Chooses
<1>2. UNCHANGED allow
  BY DEF Runs, Chooses, ReserveAllowed, ReserveBegin, OnReserve, OnReserveRefused,
     Rollback, Rejected, ReserveOk, MarkEstablished, OnEstablished, Attach, Report,
     OnActivity, DropSession, DropConnection, IntoStream, DropStream, Close, OnClose,
     CloseReturns, Dropped
<1> QED
  BY <1>1, <1>2

LEMMA InitIInv == Init => IInv
<1> SUFFICES ASSUME Init PROVE IInv
  OBVIOUS
<1>1. TypeOK
  BY StackAssumption DEF Init, TypeOK, ConnType, ToldType, Places, NoCloses
<1>2. ASSUME NEW s \in Session PROVE Consistent(conn[s], told[s])
  BY DEF Init, Consistent, Reserving, Living, Ending, Fresh
<1> QED
  BY <1>1, <1>2 DEF IInv

LEMMA StepIInv == IInv /\ [Next]_vars => IInv'
<1> SUFFICES ASSUME IInv, [Next]_vars PROVE IInv'
  OBVIOUS
<1>1. CASE UNCHANGED <<conn, told>> /\ allow' \subseteq Ip
  BY <1>1 DEF IInv, TypeOK
<1>2. CASE UNCHANGED vars
  BY <1>1, <1>2 DEF vars, IInv, TypeOK
<1>3. ASSUME NEW ip \in Ip, Allow(ip) \/ Remove(ip) PROVE IInv'
  BY <1>1, <1>3 DEF Allow, Remove, IInv, TypeOK
<1>4. CASE Clear
  BY <1>1, <1>4 DEF Clear
<1>5. ASSUME NEW s \in Session, Runs(s) \/ Chooses(s) PROVE IInv'
  BY <1>5, SessionSteps DEF Moves, IInv, TypeOK
<1> QED
  BY <1>2, <1>3, <1>4, <1>5 DEF Next

\* In every reachable state each session is where its guards think it is.
THEOREM Invariance == Spec => []IInv
BY InitIInv, StepIInv, PTL DEF Spec

\* The loops of reserve, mark_established and close stay within the guards.
THEOREM TypeCorrect == Spec => []TypeOK
<1>1. IInv => TypeOK
  BY DEF IInv
<1> QED
  BY <1>1, Invariance, PTL

\* A session that GuardStack::reserve has allowed without asking the guards
\* never reaches one of them, whatever is done to the allowlist.
THEOREM AllowedStaysUntouched == Spec => []AllowedUntouched
<1>1. IInv => AllowedUntouched
  <2> SUFFICES ASSUME IInv, NEW s \in Session, conn[s].allowed PROVE Untold(s)
    BY DEF AllowedUntouched
  <2>1. conn[s].at \in Places /\ Consistent(conn[s], told[s])
    BY Types DEF ConnType
  <2>2. Fresh(told[s])
    BY <2>1 DEF Places, Consistent, Reserving, Living, Ending
  <2> QED
    BY <2>2 DEF Fresh, Untold
<1> QED
  BY <1>1, Invariance, PTL

\* Every handler runs under a complete session: all guards hold it and have
\* been told that it is established.
THEOREM HandlersAreGuarded == Spec => []ServedIsGuarded
<1>1. IInv => ServedIsGuarded
  <2> SUFFICES ASSUME IInv, NEW s \in Session, At(s, "serving") \/ At(s, "activity"),
                      ~conn[s].allowed
               PROVE  HeldBy(s) = Guard /\ told[s].established = Guard
    BY DEF ServedIsGuarded
  <2>1. /\ told[s].reserved = Guard /\ told[s].established = Guard
        /\ told[s].closes = NoCloses
    BY Types DEF At, Consistent, Living
  <2> QED
    BY <2>1 DEF HeldBy, NoCloses
<1> QED
  BY <1>1, Invariance, PTL

\* Whichever guard refuses, and however a session ends, no guard keeps a
\* reservation; and the rollback of reserve goes from the last guard down.
THEOREM NothingLeaks == Spec => []NoLeak
<1>1. IInv => NoLeak
  <2> SUFFICES ASSUME IInv, NEW s \in Session
               PROVE  /\ At(s, "rejected") \/ At(s, "done") => HeldBy(s) = {}
                      /\ At(s, "rollback") => HeldBy(s) = 1..conn[s].idx
    BY DEF NoLeak
  <2>1. HeldBy(s) = Held(told[s]) /\ Consistent(conn[s], told[s])
    BY Types DEF HeldBy, Held
  <2>2. Fresh(told[s]) => Held(told[s]) = {}
    BY DEF Fresh, Held
  <2> QED
    BY <2>1, <2>2 DEF At, Consistent, Reserving, Ending
<1> QED
  BY <1>1, Invariance, PTL

-----------------------------------------------------------------------------
(* The contract with the guards *)

LEMMA ContractInit == Init => Contract!Init
BY DEF Init, Contract!Init, NoCloses

\* A hook is called only when the contract allows it.
LEMMA ContractHooks ==
  ASSUME IInv, NEW s \in Session, NEW g \in Guard, g = conn[s].idx,
         OnReserve(s) \/ OnEstablished(s) \/ Rollback(s) \/ OnClose(s)
  PROVE  Contract!Next
<1>0. told[s] \in ToldType /\ N \in Nat /\ g \in 0..N+1
  BY Types DEF ConnType
<1>1. CASE OnReserve(s)
  <2>1. g \in Guard /\ g \notin told[s].reserved
    BY <1>0, <1>1, Types DEF OnReserve, At, Consistent, Reserving, Guard
  <2>2. told' = [told EXCEPT ![s].reserved = @ \cup {g}]
    BY <1>1 DEF OnReserve
  <2>3. Contract!OnReserve(s, g)
    BY <2>1, <2>2, <1>0 DEF Contract!OnReserve, IInv, TypeOK, ToldType
  <2> QED
    BY <2>1, <2>3 DEF Contract!Next, Guard
<1>2. CASE OnEstablished(s)
  <2>1. /\ g \in Guard /\ told[s].reserved = Guard /\ told[s].closes = NoCloses
        /\ told[s].established = 1..(g - 1)
    BY <1>0, <1>2, Types DEF OnEstablished, At, Consistent, Living, Guard
  <2>2. g \in told[s].reserved \ told[s].established /\ told[s].closes[g] = 0
    BY <2>1 DEF Guard, NoCloses
  <2>3. told' = [told EXCEPT ![s].established = @ \cup {g}]
    BY <1>2 DEF OnEstablished
  <2>4. Contract!OnEstablished(s, g)
    BY <2>2, <2>3, <1>0 DEF Contract!OnEstablished, IInv, TypeOK, ToldType
  <2> QED
    BY <2>1, <2>4 DEF Contract!Next, Guard
<1>3. ASSUME Rollback(s) \/ OnClose(s) PROVE Contract!Next
  <2>1. g \in Guard /\ g \in told[s].reserved /\ told[s].closes[g] = 0
    <3>1. CASE Rollback(s)
      <4>1. g \in 1..g /\ Held(told[s]) = 1..g /\ g \in Guard
        BY <1>0, <3>1, Types DEF Rollback, At, Consistent, Reserving, Guard
      <4> QED
        BY <4>1 DEF Held
    <3>2. CASE OnClose(s)
      <4>1. /\ g \in Guard /\ told[s].reserved = Guard
            /\ told[s].closes = ClosedUpTo(g - 1)
        BY <1>0, <3>2, Types DEF OnClose, At, Consistent, Ending, Guard
      <4> QED
        BY <4>1 DEF ClosedUpTo, Guard
    <3> QED
      BY <1>3, <3>1, <3>2
  <2> DEFINE t == [told[s] EXCEPT !.closes[g] = @ + 1]
             one == [told[s].closes EXCEPT ![g] = 1]
  <2>2. told' = [told EXCEPT ![s] = t]
    BY <1>3 DEF Rollback, OnClose, IInv, TypeOK
  <2>3. /\ t.reserved = told[s].reserved /\ t.established = told[s].established
        /\ t.closes = [told[s].closes EXCEPT ![g] = @ + 1]
    BY <1>0 DEF ToldType
  <2>4. t.closes = one
    BY <2>1, <2>3
  <2> HIDE DEF t
  <2>5. /\ [r \in Session |-> told'[r].reserved] = [r \in Session |-> told[r].reserved]
        /\ [r \in Session |-> told'[r].established] =
             [r \in Session |-> told[r].established]
        /\ [r \in Session |-> told'[r].closes] =
             [[r \in Session |-> told[r].closes] EXCEPT ![s] = one]
    BY <2>2, <2>3, <2>4 DEF IInv, TypeOK
  <2>6. Contract!OnClose(s, g)
    BY <2>1, <2>5 DEF Contract!OnClose
  <2> QED
    BY <2>1, <2>6 DEF Contract!Next, Guard
<1> QED
  BY <1>1, <1>2, <1>3

LEMMA ContractStep == IInv /\ [Next]_vars => [Contract!Next]_Contract!vars
<1> SUFFICES ASSUME IInv, [Next]_vars PROVE Contract!Next \/ UNCHANGED Contract!vars
  OBVIOUS
<1>1. CASE UNCHANGED told
  BY <1>1 DEF Contract!vars
<1>2. ASSUME NEW s \in Session,
             OnReserve(s) \/ OnEstablished(s) \/ Rollback(s) \/ OnClose(s)
      PROVE  Contract!Next
  <2>1. conn[s].idx \in Guard
    BY <1>2, Types DEF OnReserve, OnEstablished, Rollback, OnClose, At, Consistent,
       Reserving, Living, Ending, ConnType, Guard
  <2> QED
    BY <1>2, <2>1, ContractHooks
<1>3. \/ UNCHANGED told
      \/ \E s \in Session : OnReserve(s) \/ OnEstablished(s) \/ Rollback(s) \/ OnClose(s)
  BY DEF vars, Next, Allow, Remove, Clear, Runs, Chooses, ReserveAllowed, ReserveBegin,
     OnReserveRefused, Rejected, ReserveOk, MarkEstablished, Attach, Report, OnActivity,
     DropSession, DropConnection, IntoStream, DropStream, Close, CloseReturns, Dropped
<1> QED
  BY <1>1, <1>2, <1>3

\* The stack implements the contract of its guards: each sees at most one
\* on_reserve that succeeds, then at most one on_established, then one on_close,
\* although reserve rolls back, two drops close each session, and the allowlist
\* and the other connections change in between.
THEOREM Refinement == Spec => KeepsContract
<1>1. Init => Contract!Init
  BY ContractInit
<1>2. IInv /\ [Next]_vars => [Contract!Next]_Contract!vars
  BY ContractStep
<1> QED
  BY <1>1, <1>2, Invariance, PTL DEF Spec, KeepsContract, Contract!Spec

-----------------------------------------------------------------------------
(* The limits of the guards, for handlers that leave the stream alone *)

WithinCaps == \A g \in Guard : Cardinality(Holds(g)) <= Cap[g]
NoStreams == \A s \in Session : ~conn[s].stream

LEMMA HoldsFinite == \A g : IsFiniteSet(Holds(g)) /\ Cardinality(Holds(g)) \in Nat
BY FS_Subset, FS_CardinalityType, StackAssumption DEF Holds

\* No step but a successful on_reserve makes a guard hold a session.
LEMMA HoldsShrinks ==
  ASSUME IInv, [Next]_vars, ~ \E s \in Session : OnReserve(s), NEW g \in Guard
  PROVE  Holds(g)' \subseteq Holds(g)
<1>1. CASE UNCHANGED told
  BY <1>1 DEF Holds, HeldBy
<1>2. ASSUME NEW s \in Session, OnEstablished(s) PROVE Holds(g)' \subseteq Holds(g)
  <2>1. \A r \in Session : /\ told'[r].reserved = told[r].reserved
                           /\ told'[r].closes = told[r].closes
    BY <1>2 DEF OnEstablished, IInv, TypeOK, ToldType
  <2> QED
    BY <2>1 DEF Holds, HeldBy
<1>3. ASSUME NEW s \in Session, Rollback(s) \/ OnClose(s)
      PROVE  Holds(g)' \subseteq Holds(g)
  <2> DEFINE k == conn[s].idx
             t == [told[s] EXCEPT !.closes[k] = @ + 1]
  <2>1. told' = [told EXCEPT ![s] = t]
    BY <1>3 DEF Rollback, OnClose, IInv, TypeOK
  <2>2. /\ t.reserved = told[s].reserved
        /\ t.closes = [told[s].closes EXCEPT ![k] = @ + 1]
        /\ told[s].closes \in [Guard -> Nat]
    BY Types DEF ToldType
  <2> HIDE DEF t, k
  <2>3. \A r \in Session : /\ told'[r].reserved = told[r].reserved
                           /\ told'[r].closes[g] = 0 => told[r].closes[g] = 0
    BY <2>1, <2>2 DEF IInv, TypeOK
  <2> QED
    BY <2>3 DEF Holds, HeldBy
<1>4. \/ UNCHANGED told
      \/ \E s \in Session : OnEstablished(s) \/ Rollback(s) \/ OnClose(s)
  BY DEF vars, Next, Allow, Remove, Clear, Runs, Chooses, ReserveAllowed, ReserveBegin,
     OnReserveRefused, Rejected, ReserveOk, MarkEstablished, Attach, Report, OnActivity,
     DropSession, DropConnection, IntoStream, DropStream, Close, CloseReturns, Dropped
<1> QED
  BY <1>1, <1>2, <1>3, <1>4

LEMMA CapsStep == WithinCaps /\ IInv /\ [Next]_vars => WithinCaps'
<1> SUFFICES ASSUME WithinCaps, IInv, [Next]_vars, NEW g \in Guard
             PROVE  Cardinality(Holds(g)') <= Cap[g]
  BY DEF WithinCaps
<1>1. CASE ~ \E s \in Session : OnReserve(s)
  <2>1. Holds(g)' \subseteq Holds(g)
    BY <1>1, HoldsShrinks
  <2> QED
    BY <2>1, HoldsFinite, FS_Subset, FS_CardinalityType, StackAssumption DEF WithinCaps
<1>2. ASSUME NEW s \in Session, OnReserve(s) PROVE Cardinality(Holds(g)') <= Cap[g]
  <2> DEFINE k == conn[s].idx
             t == [told[s] EXCEPT !.reserved = @ \cup {k}]
  <2>1. told' = [told EXCEPT ![s] = t]
    BY <1>2 DEF OnReserve, IInv, TypeOK
  <2>2. t.reserved = told[s].reserved \cup {k} /\ t.closes = told[s].closes
    BY Types DEF ToldType
  <2> HIDE DEF t
  <2>3. Holds(g)' \subseteq (IF g = k THEN Holds(g) \cup {s} ELSE Holds(g))
    BY <2>1, <2>2 DEF Holds, HeldBy, IInv, TypeOK
  <2>4. CASE g = k
    <3>1. Cardinality(Holds(g)) < Cap[g]
      BY <1>2, <2>4 DEF OnReserve
    <3>2. Cardinality(Holds(g) \cup {s}) <= Cardinality(Holds(g)) + 1
      <4>1. IsFiniteSet(Holds(g)) /\ Cardinality(Holds(g)) \in Nat
        BY HoldsFinite
      <4>2. Cardinality(Holds(g) \cup {s}) =
              IF s \in Holds(g) THEN Cardinality(Holds(g)) ELSE Cardinality(Holds(g)) + 1
        BY <4>1, FS_AddElement
      <4> QED
        BY <4>1, <4>2
    <3>3. IsFiniteSet(Holds(g) \cup {s})
      BY HoldsFinite, FS_AddElement
    <3>4. Cardinality(Holds(g)') <= Cardinality(Holds(g) \cup {s})
      BY <2>3, <2>4, <3>3, FS_Subset
    <3>5. Cardinality(Holds(g)') \in Nat /\ Cardinality(Holds(g) \cup {s}) \in Nat
      BY <2>3, <2>4, <3>3, FS_Subset, FS_CardinalityType
    <3> QED
      BY <3>1, <3>2, <3>4, <3>5, HoldsFinite, StackAssumption
  <2>5. CASE g # k
    BY <2>3, <2>5, HoldsFinite, FS_Subset, FS_CardinalityType, StackAssumption
       DEF WithinCaps
  <2> QED
    BY <2>4, <2>5
<1> QED
  BY <1>1, <1>2

\* Unless a handler takes the stream out of its Connection, the connections
\* that are served stay within the limit of every guard that has one.
THEOREM CapsServed == HandlersTakeStream = FALSE => (Spec => []ServedWithinCap)
<1> SUFFICES ASSUME HandlersTakeStream = FALSE PROVE Spec => []ServedWithinCap
  OBVIOUS
<1>1. Init => WithinCaps /\ NoStreams
  <2> SUFFICES ASSUME Init PROVE WithinCaps /\ NoStreams
    OBVIOUS
  <2>1. \A g \in Guard : Holds(g) = {}
    BY DEF Init, Holds, HeldBy
  <2>2. ASSUME NEW g \in Guard PROVE Cardinality(Holds(g)) <= Cap[g]
    <3>1. Cardinality(Holds(g)) = 0 /\ Cap[g] \in Nat
      BY <2>1, FS_EmptySet, StackAssumption
    <3> QED
      BY <3>1
  <2>3. NoStreams
    BY DEF Init, NoStreams
  <2> QED
    BY <2>2, <2>3 DEF WithinCaps
<1>2. NoStreams /\ IInv /\ [Next]_vars => NoStreams'
  <2> SUFFICES ASSUME NoStreams, IInv, [Next]_vars PROVE NoStreams'
    OBVIOUS
  <2>1. CASE UNCHANGED conn
    BY <2>1 DEF NoStreams
  <2>2. ASSUME NEW s \in Session, NEW p, NEW i, Goto(s, p, i) PROVE NoStreams'
    BY <2>2 DEF Goto, NoStreams, IInv, TypeOK, ConnType
  <2>3. ASSUME NEW s \in Session, ReserveAllowed(s) PROVE NoStreams'
    BY <2>3 DEF ReserveAllowed, NoStreams, IInv, TypeOK, ConnType
  <2>4. ASSUME NEW s \in Session, DropSession(s) \/ DropConnection(s) PROVE NoStreams'
    BY <2>4 DEF DropSession, DropConnection, Drop, NoStreams, IInv, TypeOK, ConnType
  <2>5. ASSUME NEW s \in Session, DropStream(s) PROVE NoStreams'
    BY <2>5 DEF DropStream, NoStreams
  <2>6. ASSUME NEW s \in Session, Close(s) PROVE NoStreams'
    BY <2>6 DEF Close, NoStreams, IInv, TypeOK, ConnType
  <2>7. \/ UNCHANGED conn
        \/ \E s \in Session :
             \/ \E p, i : Goto(s, p, i)
             \/ ReserveAllowed(s) \/ DropSession(s) \/ DropConnection(s)
             \/ DropStream(s) \/ Close(s)
    BY DEF vars, Next, Allow, Remove, Clear, Runs, Chooses, ReserveBegin, OnReserve,
       OnReserveRefused, Rollback, Rejected, ReserveOk, MarkEstablished, OnEstablished,
       Attach, Report, OnActivity, IntoStream, OnClose, CloseReturns, Dropped
  <2> QED
    BY <2>1, <2>2, <2>3, <2>4, <2>5, <2>6, <2>7
<1>3. IInv /\ WithinCaps /\ NoStreams => ServedWithinCap
  <2> SUFFICES ASSUME IInv, WithinCaps, NoStreams, NEW g \in Guard
               PROVE  Cardinality({s \in Served : ~conn[s].allowed}) <= Cap[g]
    BY DEF ServedWithinCap
  <2>1. {s \in Served : ~conn[s].allowed} \subseteq Holds(g)
    BY Types DEF Served, NoStreams, At, Consistent, Living, Holds, HeldBy, NoCloses
  <2> QED
    BY <2>1, HoldsFinite, FS_Subset, FS_CardinalityType, StackAssumption DEF WithinCaps
<1> QED
  BY <1>1, <1>2, <1>3, CapsStep, Invariance, PTL DEF Spec
=============================================================================
