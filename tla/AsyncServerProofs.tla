------------------------- MODULE AsyncServerProofs -------------------------
(***************************************************************************)
(* Proofs about AsyncServer for any number of connections and any limit:   *)
(* the account of the permits, and the implementation of GracefulServer.   *)
(***************************************************************************)
EXTENDS AsyncServer, FiniteSetTheorems, TLAPS

\* The invariant is inductive as it stands: the type invariant ties `current'
\* to the connection being admitted, and the account of the permits follows
\* each connection from AcquirePermit to Release.
IInv == TypeOK /\ PermitsExact /\ SessionWithTask

States == {"away", "backlog", "accepted", "handshake", "serving", "releasing", "closed"}
Reserving == IF server = "reserving" THEN 1 ELSE 0

-----------------------------------------------------------------------------
LEMMA InFinite == \A S : IsFiniteSet(In(S)) /\ Cardinality(In(S)) \in Nat
BY FS_Subset, FS_CardinalityType, AsyncAssumption DEF In

\* How the connections that hold a permit change when c changes its state.
LEMMA HoldingChanges ==
  ASSUME TypeOK, NEW c \in Conn, NEW st \in States, Become(c, st)
  PROVE  /\ (c \in Holding) = (st \in {"handshake", "serving", "releasing"}) =>
              Holding' = Holding
         /\ c \notin Holding /\ st \in {"handshake", "serving", "releasing"} =>
              Cardinality(Holding') = Cardinality(Holding) + 1
         /\ c \in Holding /\ st \notin {"handshake", "serving", "releasing"} =>
              Cardinality(Holding') = Cardinality(Holding) - 1
<1>1. conn' \in [Conn -> States] /\ conn'[c] = st /\ \A d \in Conn \ {c} : conn'[d] = conn[d]
  BY DEF Become, TypeOK, States
<1>2. /\ (c \in Holding) = (st \in {"handshake", "serving", "releasing"}) =>
           Holding' = Holding
      /\ c \notin Holding /\ st \in {"handshake", "serving", "releasing"} =>
           Holding' = Holding \cup {c}
      /\ c \in Holding /\ st \notin {"handshake", "serving", "releasing"} =>
           Holding' = Holding \ {c}
  BY <1>1 DEF Holding, In
<1>3. IsFiniteSet(Holding) /\ Cardinality(Holding) \in Nat
  BY InFinite DEF Holding
<1>4. c \notin Holding => Cardinality(Holding \cup {c}) = Cardinality(Holding) + 1
  BY <1>3, FS_AddElement
<1>5. c \in Holding => Cardinality(Holding \ {c}) = Cardinality(Holding) - 1
  BY <1>3, FS_RemoveElement
<1> QED
  BY <1>2, <1>4, <1>5

LEMMA InitIInv == Init => IInv
<1> SUFFICES ASSUME Init PROVE IInv
  OBVIOUS
<1>1. Holding = {} /\ In({"handshake"}) = {}
  BY DEF Init, Holding, In
<1>2. Cardinality(Holding) = 0
  BY <1>1, FS_EmptySet
<1>3. PermitsExact
  BY <1>2, AsyncAssumption DEF Init, PermitsExact
<1>4. TypeOK /\ SessionWithTask
  BY <1>1, AsyncAssumption DEF Init, TypeOK, SessionWithTask
<1> QED
  BY <1>3, <1>4 DEF IInv

-----------------------------------------------------------------------------
(* The steps of run_internal *)

\* Steps that leave the connections, the permits and the sessions alone.
LEMMA QuietSteps ==
  ASSUME IInv,
         \/ Shutdown \/ DropHandle \/ SignalChanged \/ AcceptError \/ Drained
         \/ UNCHANGED vars
  PROVE  IInv'
<1>1. /\ UNCHANGED <<permits, conn, session, current>>
      /\ server' = "reserving" <=> server = "reserving"
      /\ server' = "admitting" <=> server = "admitting"
  BY DEF Shutdown, DropHandle, SignalChanged, AcceptError, Drained, vars
<1>2. TypeOK'
  BY <1>1 DEF IInv, TypeOK, Shutdown, DropHandle, SignalChanged, AcceptError, Drained, vars
<1>3. Holding' = Holding /\ SessionWithTask'
  BY <1>1 DEF IInv, SessionWithTask, Holding, Open, In
<1>4. PermitsExact'
  BY <1>1, <1>3 DEF IInv, PermitsExact
<1> QED
  BY <1>2, <1>3, <1>4 DEF IInv

\* Steps before the permit: connecting, accepting, turning away.
LEMMA ArrivalSteps ==
  ASSUME IInv, NEW c \in Conn,
         Connect(c) \/ Accept(c) \/ (TurnAway /\ c = current)
  PROVE  IInv'
<1>1. PICK st \in {"backlog", "accepted", "closed"} : Become(c, st)
  BY DEF Connect, Accept, TurnAway
<1>2. conn[c] \in {"away", "backlog", "accepted"} /\ UNCHANGED <<permits, session>>
  BY DEF Connect, Accept, TurnAway, IInv, TypeOK
<1>3. c \notin Holding /\ c \notin Open
  BY <1>2 DEF Holding, Open, In
<1>4. Holding' = Holding
  BY <1>1, <1>3, HoldingChanges DEF IInv, States
<1>5. server # "reserving" \/ Connect(c)
  BY DEF Accept, TurnAway
<1>6. server' = "reserving" <=> server = "reserving"
  BY DEF Connect, Accept, TurnAway
<1>7. PermitsExact'
  BY <1>2, <1>4, <1>6 DEF IInv, PermitsExact
<1>8. TypeOK'
  BY AsyncAssumption DEF IInv, TypeOK, Connect, Accept, TurnAway, Become
<1>9. Open' = Open /\ In({"handshake"})' = In({"handshake"})
  BY <1>1, <1>3 DEF Become, Open, In, IInv, TypeOK
<1> QED
  BY <1>2, <1>7, <1>8, <1>9 DEF IInv, SessionWithTask

\* The permit is taken, and passed to the task or given back.
LEMMA AdmissionSteps ==
  ASSUME IInv, AcquirePermit \/ Spawn \/ GuardRejects PROVE IInv'
<1>1. /\ server \in {"admitting", "reserving"} /\ current \in Conn
      /\ conn[current] = "accepted" /\ permits \in Nat
  BY DEF AcquirePermit, Spawn, GuardRejects, IInv, TypeOK
<1>2. current \notin Holding /\ current \notin Open
  BY <1>1 DEF Holding, Open, In
<1>3. Cardinality(Holding) \in Nat /\ MaxConnections \in Nat
  BY InFinite, AsyncAssumption DEF Holding
<1>4. CASE AcquirePermit
  <2>1. Holding' = Holding /\ Open' = Open /\ In({"handshake"})' = In({"handshake"})
    BY <1>4 DEF AcquirePermit, Holding, Open, In
  <2>2. TypeOK'
    BY <1>1, <1>4 DEF AcquirePermit, IInv, TypeOK
  <2>3. PermitsExact'
    BY <1>1, <1>3, <1>4, <2>1 DEF AcquirePermit, IInv, PermitsExact
  <2> QED
    BY <1>4, <2>1, <2>2, <2>3 DEF AcquirePermit, IInv, SessionWithTask
<1>5. CASE Spawn
  <2>1. Become(current, "handshake")
    BY <1>5 DEF Spawn
  <2>2. Cardinality(Holding') = Cardinality(Holding) + 1
    BY <1>1, <1>2, <2>1, HoldingChanges DEF IInv, States
  <2>3. Open' = Open \cup {current}
        /\ In({"handshake"})' = In({"handshake"}) \cup {current}
    BY <1>1, <2>1 DEF Become, Open, In, IInv, TypeOK
  <2>4. TypeOK'
    BY <1>1, <1>5, AsyncAssumption DEF Spawn, Become, IInv, TypeOK
  <2>5. PermitsExact'
    BY <1>1, <1>3, <1>5, <2>2 DEF Spawn, IInv, PermitsExact
  <2>6. SessionWithTask'
    BY <1>5, <2>3 DEF Spawn, IInv, SessionWithTask
  <2> QED
    BY <2>4, <2>5, <2>6 DEF IInv
<1>6. CASE GuardRejects
  <2>1. Become(current, "closed")
    BY <1>6 DEF GuardRejects
  <2>2. Holding' = Holding
    BY <1>1, <1>2, <2>1, HoldingChanges DEF IInv, States
  <2>3. Open' = Open /\ In({"handshake"})' = In({"handshake"})
    BY <1>1, <1>2, <2>1 DEF Become, Open, In, IInv, TypeOK
  <2>4. TypeOK'
    BY <1>1, <1>6, AsyncAssumption DEF GuardRejects, Become, IInv, TypeOK
  <2>5. PermitsExact'
    BY <1>1, <1>3, <1>6, <2>2 DEF GuardRejects, IInv, PermitsExact
  <2> QED
    BY <1>6, <2>3, <2>4, <2>5 DEF GuardRejects, IInv, SessionWithTask
<1> QED
  BY <1>4, <1>5, <1>6

-----------------------------------------------------------------------------
(* The steps of a connection task *)

LEMMA TaskSteps ==
  ASSUME IInv, NEW c \in Conn, Established(c) \/ IntoStream(c) \/ End(c) PROVE IInv'
<1>1. /\ conn[c] \in {"handshake", "serving"}
      /\ UNCHANGED <<server, current, signal, permits>>
  BY DEF Established, IntoStream, End
<1>2. PICK st \in {"serving", "releasing"} : Become(c, st) \/ (IntoStream(c) /\ UNCHANGED conn)
  BY DEF Established, IntoStream, End
<1>3. Holding' = Holding
  <2>1. c \in Holding
    BY <1>1 DEF Holding, In
  <2>2. CASE Become(c, st)
    BY <2>1, <2>2, HoldingChanges DEF IInv, States
  <2> QED
    BY <1>2, <2>2 DEF Holding, In
<1>4. PermitsExact'
  BY <1>1, <1>3 DEF IInv, PermitsExact
<1>5. TypeOK'
  BY <1>1 DEF IInv, TypeOK, Established, IntoStream, End, Become
<1>6. SessionWithTask'
  BY <1>1 DEF IInv, SessionWithTask, TypeOK, Open, In, Established, IntoStream, End, Become
<1> QED
  BY <1>4, <1>5, <1>6 DEF IInv

LEMMA ReleaseStep ==
  ASSUME IInv, NEW c \in Conn, Release(c) PROVE IInv'
<1>1. /\ conn[c] = "releasing" /\ Become(c, "closed") /\ permits' = permits + 1
      /\ UNCHANGED <<server, current, signal, session>> /\ permits \in Nat
  BY DEF Release, IInv, TypeOK
<1>2. c \in Holding
  BY <1>1 DEF Holding, In
<1>3. Cardinality(Holding') = Cardinality(Holding) - 1
  BY <1>1, <1>2, HoldingChanges DEF IInv, States
<1>4. Cardinality(Holding) \in Nat /\ MaxConnections \in Nat
  BY InFinite, AsyncAssumption DEF Holding
<1>5. PermitsExact'
  BY <1>1, <1>3, <1>4 DEF IInv, PermitsExact
<1>6. TypeOK'
  BY <1>1 DEF IInv, TypeOK, Become
<1>7. SessionWithTask'
  BY <1>1 DEF IInv, SessionWithTask, TypeOK, Open, In, Become
<1> QED
  BY <1>5, <1>6, <1>7 DEF IInv

LEMMA StepIInv == IInv /\ [Next]_vars => IInv'
<1> SUFFICES ASSUME IInv, [Next]_vars PROVE IInv'
  OBVIOUS
<1>1. CASE TurnAway
  BY <1>1, ArrivalSteps DEF TurnAway, IInv, TypeOK
<1> QED
  BY <1>1, QuietSteps, ArrivalSteps, AdmissionSteps, TaskSteps, ReleaseStep
     DEF Next, Admitting

-----------------------------------------------------------------------------
\* Every reachable state satisfies the inductive invariant.
THEOREM Invariance == Spec => []IInv
BY InitIInv, StepIInv, PTL DEF Spec

\* run_internal never holds more permits than there are, and is never admitting
\* without a connection.
THEOREM TypeCorrect == Spec => []TypeOK
<1>1. IInv => TypeOK
  BY DEF IInv
<1> QED
  BY <1>1, Invariance, PTL

\* Whatever way connections end, and whatever is refused in between, the
\* semaphore of run_internal has exactly the permits that no one holds.
THEOREM PermitsCorrect == Spec => []PermitsExact
<1>1. IInv => PermitsExact
  BY DEF IInv
<1> QED
  BY <1>1, Invariance, PTL

\* No guard session outlives the task that owns it.
THEOREM SessionsHaveTasks == Spec => []SessionWithTask
<1>1. IInv => SessionWithTask
  BY DEF IInv
<1> QED
  BY <1>1, Invariance, PTL

-----------------------------------------------------------------------------
(* The promise to the embedder *)

\* The abstract specification counts with its own instance of FiniteSets.
LEMMA GracefulCardinality == \A S : Graceful!Cardinality(S) = Cardinality(S)
BY DEF Graceful!Cardinality, Cardinality

\* What the account of the permits says about the open connections.
LEMMA OpenConnections ==
  ASSUME IInv
  PROVE  /\ server = "reserving" => Cardinality(Open) < MaxConnections
         /\ permits = MaxConnections => Open = {}
<1>1. Open \subseteq Holding /\ IsFiniteSet(Holding) /\ Cardinality(Holding) \in Nat
  BY InFinite DEF Open, Holding, In
<1>2. Cardinality(Open) <= Cardinality(Holding) /\ Cardinality(Open) \in Nat
  BY <1>1, FS_Subset, FS_CardinalityType
<1>3. permits \in Nat /\ MaxConnections \in Nat
  BY AsyncAssumption DEF IInv, TypeOK
<1>4. server = "reserving" => Cardinality(Holding) < MaxConnections
  BY <1>1, <1>3 DEF IInv, PermitsExact
<1>5. permits = MaxConnections => Cardinality(Holding) = 0
  BY <1>1, <1>3 DEF IInv, PermitsExact
<1>6. Cardinality(Holding) = 0 => Holding = {}
  BY <1>1, FS_EmptySet
<1> QED
  BY <1>1, <1>2, <1>3, <1>4, <1>5, <1>6

LEMMA GracefulInit == Init => Graceful!Init
BY DEF Init, Graceful!Init, Open, In, Stage

\* Steps of the loop that open and close nothing.
LEMMA GracefulLoop ==
  ASSUME IInv,
         \/ Shutdown \/ DropHandle \/ SignalChanged \/ AcceptError \/ Drained
         \/ TurnAway \/ AcquirePermit \/ GuardRejects \/ UNCHANGED vars
         \/ \E c \in Conn : Connect(c) \/ Accept(c)
  PROVE  [Graceful!Next]_Graceful!vars
<1>1. CASE SignalChanged \/ AcceptError \/ Drained
  <2>1. UNCHANGED Open
    BY <1>1 DEF SignalChanged, AcceptError, Drained, Open, In
  <2>2. CASE SignalChanged
    BY <2>1, <2>2 DEF SignalChanged, Stage, Graceful!Next, Graceful!Stop, Graceful!Fail
  <2>3. CASE AcceptError
    BY <2>1, <2>3 DEF AcceptError, Stage, Graceful!Next, Graceful!Fail
  <2>4. CASE Drained
    BY <2>1, <2>4, OpenConnections DEF Drained, Stage, Graceful!Next, Graceful!Return
  <2> QED
    BY <1>1, <2>2, <2>3, <2>4
<1>2. CASE Shutdown \/ DropHandle \/ UNCHANGED vars
  BY <1>2 DEF Shutdown, DropHandle, vars, Graceful!vars, Open, In, Stage
<1>3. ASSUME TurnAway \/ AcquirePermit \/ GuardRejects \/ \E c \in Conn : Connect(c) \/ Accept(c)
      PROVE  UNCHANGED Graceful!vars
  <2>1. UNCHANGED Stage
    BY <1>3 DEF TurnAway, AcquirePermit, GuardRejects, Connect, Accept, Stage
  <2>2. UNCHANGED Open
    BY <1>3 DEF TurnAway, AcquirePermit, GuardRejects, Connect, Accept, Become,
       Open, In, IInv, TypeOK
  <2> QED
    BY <2>1, <2>2 DEF Graceful!vars
<1> QED
  BY <1>1, <1>2, <1>3

LEMMA GracefulSpawn == IInv /\ Spawn => Graceful!Next
<1> SUFFICES ASSUME IInv, Spawn PROVE Graceful!Next
  OBVIOUS
<1>1. PICK c \in Conn : c = current
  BY DEF Spawn, IInv, TypeOK
<1>2. c \notin Open /\ Open' = Open \cup {c}
  BY <1>1 DEF Spawn, Become, Open, In, IInv, TypeOK
<1>3. Stage = "running" /\ UNCHANGED Stage
  BY DEF Spawn, Stage
<1>4. Graceful!Cardinality(Open) < MaxConnections
  BY OpenConnections, GracefulCardinality DEF Spawn
<1>5. Graceful!TakeOn(c)
  BY <1>2, <1>3, <1>4 DEF Graceful!TakeOn
<1> QED
  BY <1>5 DEF Graceful!Next

LEMMA GracefulTask ==
  ASSUME IInv, NEW c \in Conn,
         Established(c) \/ IntoStream(c) \/ End(c) \/ Release(c)
  PROVE  [Graceful!Next]_Graceful!vars
<1>1. UNCHANGED Stage
  BY DEF Established, IntoStream, End, Release, Stage
<1>2. CASE End(c)
  <2>1. c \in Open /\ Open' = Open \ {c}
    BY <1>2 DEF End, Become, Open, In, IInv, TypeOK
  <2>2. Graceful!Close({c})
    BY <1>1, <2>1 DEF Graceful!Close
  <2>3. {c} \in SUBSET Open
    BY <2>1
  <2> QED
    BY <2>2, <2>3 DEF Graceful!Next
<1>3. CASE Established(c) \/ IntoStream(c) \/ Release(c)
  <2>1. UNCHANGED Open
    BY <1>3 DEF Established, IntoStream, Release, Become, Open, In, IInv, TypeOK
  <2> QED
    BY <1>1, <2>1 DEF Graceful!vars
<1> QED
  BY <1>2, <1>3

\* The asynchronous server keeps its promise: at most max_connections tasks
\* have a connection open, none begins after the loop has turned to draining,
\* and run_until_shutdown returns Ok only when all of them are gone.
THEOREM Refinement == Spec => IsGraceful
<1>1. Init => Graceful!Init
  BY GracefulInit
<1>2. IInv /\ [Next]_vars => [Graceful!Next]_Graceful!vars
  BY GracefulLoop, GracefulSpawn, GracefulTask DEF Next, Admitting
<1> QED
  BY <1>1, <1>2, Invariance, PTL DEF Spec, IsGraceful, Graceful!Spec
=============================================================================
