-------------------------- MODULE SyncServerProofs --------------------------
(***************************************************************************)
(* Proofs about SyncServer for any number of connections and workers and   *)
(* any limit: the account of the jobs, the trust in what is exchanged over *)
(* TLS, and the implementation of GracefulServer.                          *)
(***************************************************************************)
EXTENDS SyncServer, FiniteSetTheorems, SequenceTheorems, TLAPS

-----------------------------------------------------------------------------
(* The job queue *)

\* The queue a pool starts with.
LEMMA EmptyQueue == <<>> \in Seq(Conn) /\ Len(<<>>) = 0 /\ ToSet(<<>>) = {} /\ IsInjective(<<>>)
BY EmptySeq DEF ToSet, IsInjective

\* The queue is a sequence of finitely many connections.
LEMMA QueueType ==
  ASSUME NEW q \in Seq(Conn)
  PROVE  /\ Len(q) \in Nat /\ DOMAIN q = 1 .. Len(q) /\ ToSet(q) \subseteq Conn
         /\ IsFiniteSet(ToSet(q)) /\ Cardinality(ToSet(q)) <= Len(q)
         /\ q = <<>> <=> Len(q) = 0
         /\ ToSet(q) = {} <=> Len(q) = 0
<1>1. /\ Len(q) \in Nat /\ DOMAIN q = 1 .. Len(q) /\ q \in [1 .. Len(q) -> Conn]
      /\ q = <<>> <=> Len(q) = 0
  BY LenProperties, EmptySeq
<1>2. ToSet(q) \subseteq Conn /\ (ToSet(q) = {} <=> Len(q) = 0)
  <2>1. ToSet(q) \subseteq Conn
    BY <1>1 DEF ToSet
  <2>2. Len(q) # 0 => 1 \in DOMAIN q
    BY <1>1
  <2>3. Len(q) # 0 => q[1] \in ToSet(q)
    BY <2>2 DEF ToSet
  <2>4. Len(q) = 0 => DOMAIN q = {}
    BY <1>1
  <2>5. Len(q) = 0 => ToSet(q) = {}
    BY <2>4 DEF ToSet
  <2> QED
    BY <2>1, <2>3, <2>5
<1>3. q \in Surjection(1 .. Len(q), ToSet(q))
  BY <1>1 DEF Surjection, ToSet
<1>4. IsFiniteSet(1 .. Len(q)) /\ Cardinality(1 .. Len(q)) = Len(q)
  BY <1>1, FS_Interval
<1>5. IsFiniteSet(ToSet(q)) /\ Cardinality(ToSet(q)) <= Len(q)
  BY <1>3, <1>4, FS_Surjection
<1> QED
  BY <1>1, <1>2, <1>5

\* execute adds a connection that is not waiting.
LEMMA QueueAppend ==
  ASSUME NEW q \in Seq(Conn), NEW c \in Conn, IsInjective(q), c \notin ToSet(q)
  PROVE  /\ Append(q, c) \in Seq(Conn) /\ Len(Append(q, c)) = Len(q) + 1
         /\ ToSet(Append(q, c)) = ToSet(q) \cup {c} /\ IsInjective(Append(q, c))
<1>1. /\ Append(q, c) \in Seq(Conn) /\ Len(Append(q, c)) = Len(q) + 1
      /\ \A i \in 1 .. Len(q) : Append(q, c)[i] = q[i]
      /\ Append(q, c)[Len(q) + 1] = c
      /\ Len(q) \in Nat
      /\ DOMAIN q = 1 .. Len(q) /\ DOMAIN Append(q, c) = 1 .. Len(q) + 1
  BY AppendProperties, LenProperties
<1>2. 1 .. Len(q) + 1 = (1 .. Len(q)) \cup {Len(q) + 1}
  BY <1>1
<1>3. ToSet(Append(q, c)) = ToSet(q) \cup {c}
  BY <1>1, <1>2 DEF ToSet
<1>4. ASSUME NEW i \in 1 .. Len(q) + 1, NEW j \in 1 .. Len(q) + 1, Append(q, c)[i] = Append(q, c)[j]
      PROVE  i = j
  <2>1. \A k \in 1 .. Len(q) : q[k] # c
    BY <1>1 DEF ToSet
  <2> QED
    BY <1>1, <1>4, <2>1 DEF IsInjective
<1> QED
  BY <1>1, <1>3, <1>4 DEF IsInjective

\* A worker takes the first of those that wait.
LEMMA QueueTake ==
  ASSUME NEW q \in Seq(Conn), IsInjective(q), q # <<>>
  PROVE  /\ Head(q) \in ToSet(q) /\ Tail(q) \in Seq(Conn) /\ Len(Tail(q)) = Len(q) - 1
         /\ ToSet(Tail(q)) = ToSet(q) \ {Head(q)} /\ IsInjective(Tail(q))
<1>1. /\ Len(q) \in Nat \ {0} /\ DOMAIN q = 1 .. Len(q) /\ Head(q) = q[1]
      /\ Tail(q) \in Seq(Conn) /\ Len(Tail(q)) = Len(q) - 1
      /\ \A i \in 1 .. Len(Tail(q)) : Tail(q)[i] = q[i + 1]
  BY QueueType, HeadTailProperties
<1>2. DOMAIN Tail(q) = 1 .. Len(q) - 1 /\ \A i \in 1 .. Len(q) - 1 : i + 1 \in 1 .. Len(q)
  BY <1>1, LenProperties
<1>3. IsInjective(Tail(q))
  BY <1>1, <1>2 DEF IsInjective
<1>4. ASSUME NEW c PROVE c \in ToSet(Tail(q)) <=> c \in ToSet(q) \ {Head(q)}
  <2>1. ASSUME NEW i \in 1 .. Len(q) - 1, c = Tail(q)[i] PROVE c \in ToSet(q) \ {Head(q)}
    <3>1. i + 1 \in 1 .. Len(q) /\ i + 1 # 1 /\ c = q[i + 1] /\ 1 \in 1 .. Len(q)
      BY <1>1, <1>2, <2>1
    <3> QED
      BY <1>1, <3>1 DEF ToSet, IsInjective
  <2>2. ASSUME NEW i \in 1 .. Len(q), c = q[i], c # Head(q) PROVE c \in ToSet(Tail(q))
    <3>1. i - 1 \in 1 .. Len(q) - 1 /\ (i - 1) + 1 = i
      BY <1>1, <2>2
    <3>2. Tail(q)[i - 1] = c
      BY <1>1, <2>2, <3>1
    <3> QED
      BY <1>2, <3>1, <3>2 DEF ToSet
  <2> QED
    BY <1>1, <1>2, <2>1, <2>2 DEF ToSet
<1>5. Head(q) \in ToSet(q)
  BY <1>1 DEF ToSet
<1> QED
  BY <1>1, <1>3, <1>4, <1>5

-----------------------------------------------------------------------------
(* The invariant *)

WorkerStates == {"idle", "reserving", "negotiating", "handling", "finishing", "dead", "exited"}
ConnStates == {"away", "backlog", "accepted", "queued", "serving", "closed"}

Queued == {c \in Conn : conn[c] = "queued"}
Served == {c \in Conn : conn[c] = "serving"}
Busy == Workers({"reserving", "negotiating", "handling", "finishing"})

\* The account of the permits, over the busy workers.
Accounted ==
  /\ active >= Len(queue) + Cardinality(Busy)
  /\ Workers({"dead"}) = {} => active = Len(queue) + Cardinality(Busy)

\* The owners of the open connections.
Owned ==
  /\ ToSet(queue) = Queued /\ IsInjective(queue)
  /\ {job[w] : w \in Serving} = Served
  /\ \A v, w \in Serving : job[v] = job[w] => v = w

\* What the accepting thread knows where it stands: the connection it admits has
\* been accepted and not passed on; it has a result only when it has left the
\* loop; and Ok is decided with nothing open, which nothing changes any more.
Stages ==
  /\ server = "admitting" => current \in Conn /\ conn[current] = "accepted"
  /\ result # "none" <=> server \in {"joining", "returned"}
  /\ result = "ok" => Open = {}

\* The client has shown what the server requires, and the server what the
\* client trusts.
Trusted(server_tls, client) ==
  LET shown == IF client.client_private_key THEN client.client_certificate_chain ELSE NoCert
      roots == IF client.trust_anchors = {} THEN SystemRoots ELSE client.trust_anchors
      mine  == server_tls.certificate_chain
  IN  /\ server_tls.require_client_auth => \E a \in server_tls.trust_anchors :
                                             \E n \in Name : shown = [by |-> a, for |-> n]
      /\ client.verify_peer => mine.by \in roots /\ mine.for = client.server_name

\* What is asked of one link; and of a worker that calls a handler on it, who
\* gives it a plain stream only when the mode allows that.
LinkTrusted(l, tls, mode) ==
  l.exchanged => IF l.is_tls THEN Trusted(tls, l.client.tls)
                 ELSE mode # "Tls" /\ l.client.first # "hello"
LinksTrusted ==
  \A w \in Worker : /\ LinkTrusted(link[w], config.tls, EffectiveMode)
                    /\ worker[w] = "handling" /\ ~link[w].is_tls => EffectiveMode # "Tls"

\* The account of the permits is preserved only because each connection has one
\* owner, and owners are kept apart only because the one being admitted is not
\* waiting yet.
IInv == TypeOK /\ Accounted /\ Owned /\ Stages /\ LinksTrusted

\* It says what the properties say.
LEMMA IInvImplies == IInv => JobsAccounted /\ DataOnlyTrusted
<1>1. Busy = Serving \cup Workers({"finishing"})
  BY DEF Busy, Serving, Workers
<1>2. IInv => PermitsCounted /\ OneOwner
  BY <1>1 DEF IInv, Accounted, Owned, PermitsCounted, OneOwner, Queued, Served
<1>3. IInv => DataOnlyTrusted
  BY DEF IInv, DataOnlyTrusted, LinksTrusted, LinkTrusted, Trusted
<1> QED
  BY <1>2, <1>3 DEF JobsAccounted

\* The pool has a worker, and its sets of workers can be counted.
LEMMA PoolType ==
  ASSUME TypeOK
  PROVE  /\ Pool \subseteq Worker /\ Pool # {} /\ config.tls \in TlsConfig
         /\ config.accept_mode \in {"Tcp", "Tls", "Mixed"} /\ config.enabled \in BOOLEAN
         /\ \A S : IsFiniteSet(Workers(S)) /\ Cardinality(Workers(S)) \in Nat
<1>1. config \in [accept_mode : {"Tcp", "Tls", "Mixed"}, enabled : BOOLEAN, tls : TlsConfig,
                  worker_threads : (SUBSET Worker) \ {{}}]
  BY ServerAssumption DEF TypeOK
<1>2. Pool \subseteq Worker /\ Pool # {}
  <2>1. Pool \in (SUBSET Worker) \ {{}}
    BY <1>1 DEF Pool
  <2> QED
    BY <2>1
<1>3. \A S : Workers(S) \subseteq Worker
  BY <1>2 DEF Workers
<1>4. \A S : IsFiniteSet(Workers(S)) /\ Cardinality(Workers(S)) \in Nat
  BY <1>3, ServerAssumption, FS_Subset, FS_CardinalityType
<1> QED
  BY <1>1, <1>2, <1>4

\* What a worker's step does to the sets of workers.
LEMMA WorkerMoves ==
  ASSUME TypeOK, config' = config, NEW w \in Pool, NEW x \in WorkerStates,
         worker' = [worker EXCEPT ![w] = x]
  PROVE  /\ Pool' = Pool
         /\ \A S : Workers(S)' = IF x \in S THEN Workers(S) \cup {w} ELSE Workers(S) \ {w}
         /\ w \notin Busy /\ x \in {"reserving", "negotiating", "handling", "finishing"} =>
              Cardinality(Busy') = Cardinality(Busy) + 1
         /\ w \in Busy /\ x \notin {"reserving", "negotiating", "handling", "finishing"} =>
              Cardinality(Busy') = Cardinality(Busy) - 1
         /\ (w \in Busy) = (x \in {"reserving", "negotiating", "handling", "finishing"}) =>
              Busy' = Busy
<1>1. Pool' = Pool /\ worker'[w] = x /\ \A v \in Pool \ {w} : worker'[v] = worker[v]
  BY PoolType DEF TypeOK, Pool
<1>2. \A S : Workers(S)' = IF x \in S THEN Workers(S) \cup {w} ELSE Workers(S) \ {w}
  BY <1>1 DEF Workers
<1>3. IsFiniteSet(Busy) /\ Cardinality(Busy) \in Nat
  BY PoolType DEF Busy
<1>4. /\ w \notin Busy => Cardinality(Busy \cup {w}) = Cardinality(Busy) + 1
      /\ w \in Busy => Cardinality(Busy \ {w}) = Cardinality(Busy) - 1
  BY <1>3, FS_AddElement, FS_RemoveElement
<1>5. Busy' = IF x \in {"reserving", "negotiating", "handling", "finishing"}
              THEN Busy \cup {w} ELSE Busy \ {w}
  BY <1>2 DEF Busy
<1> QED
  BY <1>1, <1>2, <1>4, <1>5

\* What a change of one connection does to the sets of connections.
LEMMA ConnMoves ==
  ASSUME TypeOK, NEW c \in Conn, NEW x \in ConnStates, Become(c, x)
  PROVE  /\ conn' \in [Conn -> ConnStates] /\ conn'[c] = x
         /\ \A d \in Conn \ {c} : conn'[d] = conn[d]
         /\ Queued' = IF x = "queued" THEN Queued \cup {c} ELSE Queued \ {c}
         /\ Served' = IF x = "serving" THEN Served \cup {c} ELSE Served \ {c}
         /\ Open' = IF x \in {"queued", "serving"} THEN Open \cup {c} ELSE Open \ {c}
<1>1. /\ conn' \in [Conn -> ConnStates] /\ conn'[c] = x
      /\ \A d \in Conn \ {c} : conn'[d] = conn[d]
  BY DEF Become, TypeOK, ConnStates
<1> QED
  BY <1>1 DEF Queued, Served, Open

\* The numbers that the account adds up.
LEMMA CountTypes ==
  TypeOK => /\ active \in Nat /\ Len(queue) \in Nat /\ Cardinality(Busy) \in Nat
            /\ Serving \subseteq Busy /\ IsFiniteSet(Serving)
BY PoolType, QueueType DEF TypeOK, Busy, Serving, Workers

\* An open connection waits or is served.
LEMMA OpenIs == Open = Queued \cup Served
BY DEF Open, Queued, Served

\* At the start nothing is taken and nobody works.
LEMMA InitIInv == Init => IInv
<1> SUFFICES ASSUME Init PROVE IInv
  OBVIOUS
<1>1. TypeOK
  BY ServerAssumption, EmptyQueue DEF Init, TypeOK, Unsettled
<1>2. Busy = {} /\ Serving = {} /\ Queued = {} /\ Served = {} /\ Open = {}
  BY PoolType, <1>1 DEF Init, Busy, Serving, Workers, Queued, Served, Open
<1>3. Accounted
  BY <1>2, FS_EmptySet, EmptyQueue DEF Init, Accounted
<1>4. Owned
  BY <1>2, EmptyQueue DEF Init, Owned
<1>5. Stages
  BY <1>2 DEF Init, Stages
<1>6. LinksTrusted
  BY DEF Init, LinksTrusted, LinkTrusted, Unsettled
<1> QED
  BY <1>1, <1>3, <1>4, <1>5, <1>6 DEF IInv

-----------------------------------------------------------------------------
(* The steps of the accepting thread and of the world *)

\* Nothing is open or waiting in another way, and no worker has moved.
Idle == UNCHANGED <<config, active, queue, worker, job, link>> /\ Queued' = Queued /\ Served' = Served

\* Then the permits, the owners and the links are as they were.
LEMMA IdleKeeps ==
  ASSUME IInv, TypeOK', Idle
  PROVE  Accounted' /\ Owned' /\ LinksTrusted' /\ Open' = Open
<1>1. Busy' = Busy /\ Serving' = Serving /\ Workers({"dead"})' = Workers({"dead"})
        /\ EffectiveMode' = EffectiveMode
  BY DEF Idle, Busy, Serving, Workers, Pool, EffectiveMode
<1>2. Accounted'
  BY <1>1, CountTypes DEF IInv, Accounted, Idle
<1>3. Owned'
  BY <1>1 DEF Idle, IInv, Owned
<1>4. LinksTrusted'
  BY <1>1 DEF IInv, LinksTrusted, Idle
<1>5. Open' = Open
  BY DEF Idle, Open, Queued, Served
<1> QED
  BY <1>2, <1>3, <1>4, <1>5

\* Steps that change no connection.
LEMMA QuietSteps ==
  ASSUME IInv,
         \/ Shutdown \/ CheckStop \/ AcceptNone \/ AcceptError \/ Drained \/ Return
         \/ UNCHANGED vars
  PROVE  IInv'
<1>1. UNCHANGED <<config, active, queue, worker, job, link, conn, current>>
  BY DEF Shutdown, CheckStop, AcceptNone, AcceptError, Drained, Return, vars, session
<1>2. TypeOK'
  BY <1>1 DEF IInv, TypeOK, Shutdown, CheckStop, AcceptNone, AcceptError, Drained, Return, vars
<1>3. Idle
  BY <1>1 DEF Idle, Queued, Served
<1>4. Drained => Open = {}
  <2> SUFFICES ASSUME Drained PROVE Open = {}
    OBVIOUS
  <2>1. Len(queue) = 0 /\ Cardinality(Busy) = 0
    BY CountTypes DEF Drained, IInv, Accounted
  <2>2. Busy = {} /\ ToSet(queue) = {}
    BY <2>1, PoolType, QueueType, FS_EmptySet DEF IInv, TypeOK, Busy
  <2>3. Queued = {} /\ Served = {}
    BY <2>2, CountTypes DEF IInv, Owned
  <2> QED
    BY <2>3, OpenIs
<1>5. Stages'
  <2>1. Open' = Open
    BY <1>1 DEF Open
  <2> QED
    BY <1>1, <1>4, <2>1
       DEF IInv, Stages, Shutdown, CheckStop, AcceptNone, AcceptError, Drained, Return, vars
<1> QED
  BY <1>2, <1>3, <1>5, IdleKeeps DEF IInv

\* Steps with a connection that is not open: it arrives, is accepted, or is
\* turned away.
LEMMA ArrivalSteps ==
  ASSUME IInv, NEW c \in Conn,
         Connect(c) \/ Accept(c) \/ ((TurnAway \/ ExecuteError) /\ c = current)
  PROVE  IInv'
<1>1. PICK x \in {"backlog", "accepted", "closed"} : Become(c, x)
  BY DEF Connect, Accept, TurnAway, ExecuteError
<1>2. /\ conn[c] \in {"away", "backlog", "accepted"}
      /\ UNCHANGED <<config, active, queue, worker, job, link>>
  BY DEF Connect, Accept, TurnAway, ExecuteError, session, IInv, Stages
<1>3. TypeOK'
  BY <1>2 DEF IInv, TypeOK, Connect, Accept, TurnAway, ExecuteError, Become
<1>4. /\ conn'[c] = x /\ \A d \in Conn \ {c} : conn'[d] = conn[d]
      /\ Queued' = Queued /\ Served' = Served
  BY <1>1, <1>2, ConnMoves DEF IInv, ConnStates, Queued, Served
<1>5. Idle
  BY <1>2, <1>4 DEF Idle
<1>6. Open' = Open
  BY <1>3, <1>5, IdleKeeps
<1>7. Stages'
  <2>1. CASE Connect(c)
    BY <1>4, <1>6, <2>1 DEF IInv, Stages, Connect
  <2>2. CASE Accept(c)
    BY <1>4, <1>6, <2>2 DEF IInv, Stages, Accept, Become, TypeOK
  <2>3. CASE TurnAway \/ ExecuteError
    BY <1>6, <2>3 DEF IInv, Stages, TurnAway, ExecuteError
  <2> QED
    BY <2>1, <2>2, <2>3
<1> QED
  BY <1>3, <1>5, <1>7, IdleKeeps DEF IInv

\* execute: counted first, then queued.
LEMMA ExecuteStep == ASSUME IInv, Execute PROVE IInv'
<1> DEFINE c == current
<1>1. /\ server = "admitting" /\ c \in Conn /\ conn[c] = "accepted"
      /\ active' = active + 1 /\ queue' = Append(queue, c) /\ Become(c, "queued")
      /\ current' = NoConn /\ server' = "checking"
      /\ UNCHANGED <<config, link, result, stop, worker, job>>
  BY DEF Execute, session, IInv, Stages
<1> HIDE DEF c
<1>2. /\ ToSet(queue) = Queued /\ IsInjective(queue) /\ queue \in Seq(Conn) /\ active \in Nat
      /\ c \notin Queued /\ c \notin Served /\ TypeOK
  BY <1>1 DEF IInv, Owned, TypeOK, Queued, Served
<1>3. /\ queue' \in Seq(Conn) /\ Len(queue') = Len(queue) + 1
      /\ ToSet(queue') = ToSet(queue) \cup {c} /\ IsInjective(queue')
  BY <1>1, <1>2, QueueAppend
<1>4. TypeOK'
  BY <1>1, <1>2, <1>3 DEF TypeOK, Become
<1>5. Queued' = Queued \cup {c} /\ Served' = Served
  BY <1>1, <1>2, ConnMoves DEF ConnStates, Served
<1>6. Busy' = Busy /\ Serving' = Serving /\ Workers({"dead"})' = Workers({"dead"})
        /\ EffectiveMode' = EffectiveMode
  BY <1>1 DEF Busy, Serving, Workers, Pool, EffectiveMode
<1>7. Accounted'
  BY <1>1, <1>3, <1>4, <1>6, CountTypes DEF IInv, Accounted
<1>8. Owned'
  BY <1>1, <1>2, <1>3, <1>5, <1>6 DEF IInv, Owned
<1>9. Stages'
  BY <1>1 DEF IInv, Stages
<1>10. LinksTrusted'
  BY <1>1, <1>6 DEF IInv, LinksTrusted
<1> QED
  BY <1>4, <1>7, <1>8, <1>9, <1>10 DEF IInv

-----------------------------------------------------------------------------
(* What a completed handshake says *)

\* A handshake that completes shows what both configurations ask for (server/tls.rs).
LEMMA CompletedIsTrusted ==
  ASSUME NEW server_tls \in TlsConfig, NEW client \in TlsConfig, Completes(server_tls, client)
  PROVE  Trusted(server_tls, client)
<1>1. /\ client.client_certificate_chain \in Certificate /\ client.client_private_key \in BOOLEAN
      /\ server_tls.require_client_auth \in BOOLEAN
  BY DEF TlsConfig
<1>2. ASSUME server_tls.require_client_auth
      PROVE  \E a \in server_tls.trust_anchors : \E n \in Name :
                ClientCertificate(client) = [by |-> a, for |-> n]
  <2>1. /\ ClientCertificate(client) # NoCert
        /\ ClientCertificate(client).by \in server_tls.trust_anchors
    BY <1>2 DEF Completes, ServerAccepts, ClientAuth
  <2>2. ClientCertificate(client) \in [by : Authority, for : Name]
    BY <1>1, <2>1 DEF ClientCertificate, Certificate
  <2>3. /\ ClientCertificate(client).for \in Name
        /\ ClientCertificate(client) =
             [by |-> ClientCertificate(client).by, for |-> ClientCertificate(client).for]
    BY <2>2
  <2> QED
    BY <2>1, <2>3
<1>3. ASSUME client.verify_peer
      PROVE  /\ server_tls.certificate_chain.by \in
                  IF client.trust_anchors = {} THEN SystemRoots ELSE client.trust_anchors
             /\ server_tls.certificate_chain.for = client.server_name
  BY <1>3 DEF Completes, ClientAccepts, ClientRoots
<1> QED
  BY <1>2, <1>3 DEF Trusted, ClientCertificate

\* A worker that takes, leaves or ends a job has an unsettled link; one whose
\* handler is called has exchanged nothing.
LEMMA TrustSteps ==
  ASSUME IInv, TypeOK', NEW w \in Pool, Working(w)
  PROVE  LinksTrusted'
<1>1. w \in Worker /\ config' = config /\ EffectiveMode' = EffectiveMode
  BY PoolType DEF IInv, Working, Receive, Reserve, Negotiate, Reject, Exchange, Handled, Finish,
     Panic, Exit, Leave, session, EffectiveMode
<1>2. /\ link \in [Worker -> [is_tls : BOOLEAN, client : Client \cup {NoClient}, exchanged : BOOLEAN]]
      /\ worker \in [Worker -> WorkerStates]
  BY DEF IInv, TypeOK, WorkerStates
<1>3. /\ \A v \in Worker \ {w} : link'[v] = link[v] /\ worker'[v] = worker[v]
      /\ \/ link'[w] = link[w] /\ (worker'[w] = "handling" => worker[w] = "handling")
         \/ link'[w] = Unsettled /\ worker'[w] # "handling"
         \/ Negotiate(w)
         \/ Exchange(w)
  <2>1. CASE Receive(w) \/ Reserve(w) \/ Finish(w) \/ Exit(w)
    BY <1>1, <1>2, <2>1 DEF Receive, Reserve, Finish, Exit, session
  <2>2. CASE Reject(w) \/ Handled(w) \/ Panic(w)
    BY <1>1, <1>2, <2>2 DEF Reject, Handled, Panic, Leave
  <2>3. CASE Negotiate(w)
    <3>1. PICK is_tls, client : Negotiated(w, is_tls, client)
      BY <2>3 DEF Negotiate, EffectiveMode
    <3> QED
      BY <1>1, <1>2, <2>3, <3>1 DEF Negotiated
  <2>4. CASE Exchange(w)
    BY <1>1, <1>2, <2>4 DEF Exchange
  <2> QED
    BY <2>1, <2>2, <2>3, <2>4 DEF Working
<1>4. CASE Negotiate(w)
  <2>1. PICK is_tls, client : /\ is_tls \in BOOLEAN /\ Negotiated(w, is_tls, client)
                              /\ ~is_tls => EffectiveMode # "Tls"
    BY <1>4 DEF Negotiate, EffectiveMode
  <2>2. link'[w] = [is_tls |-> is_tls, client |-> client, exchanged |-> FALSE]
    BY <1>1, <1>2, <2>1 DEF Negotiated
  <2>3. LinkTrusted(link'[w], config.tls, EffectiveMode) /\ link'[w].is_tls = is_tls
    BY <2>2 DEF LinkTrusted
  <2> QED
    BY <1>1, <1>3, <2>1, <2>3 DEF IInv, LinksTrusted
<1>5. CASE Exchange(w)
  <2>1. PICK client \in Client :
          /\ IF link[w].is_tls THEN client.first = "hello" /\ Completes(config.tls, client.tls)
             ELSE client.first \in {"data", "nothing"}
          /\ link' = [link EXCEPT ![w].client = client, ![w].exchanged = TRUE]
    BY <1>5 DEF Exchange
  <2>2. client.tls \in TlsConfig /\ config.tls \in TlsConfig
    BY ServerAssumption, PoolType DEF IInv
  <2>3. link'[w].client = client /\ link'[w].is_tls = link[w].is_tls
    BY <1>1, <1>2, <2>1
  <2>4. worker' = worker /\ worker[w] = "handling"
    BY <1>5 DEF Exchange
  <2>5. LinkTrusted(link'[w], config.tls, EffectiveMode)
    BY <1>1, <2>1, <2>2, <2>3, <2>4, CompletedIsTrusted DEF LinkTrusted, IInv, LinksTrusted
  <2> QED
    BY <1>1, <1>3, <2>3, <2>4, <2>5 DEF IInv, LinksTrusted
<1>6. CASE \/ link'[w] = link[w] /\ (worker'[w] = "handling" => worker[w] = "handling")
           \/ link'[w] = Unsettled /\ worker'[w] # "handling"
  <2>1. LinkTrusted(Unsettled, config.tls, EffectiveMode)
    BY DEF Unsettled, LinkTrusted
  <2> QED
    BY <1>1, <1>3, <1>6, <2>1 DEF IInv, LinksTrusted
<1> QED
  BY <1>3, <1>4, <1>5, <1>6

-----------------------------------------------------------------------------
(* The steps of a worker *)

\* A worker goes on with its connection, or exits with none.
LEMMA StaySteps ==
  ASSUME IInv, NEW w \in Pool, Reserve(w) \/ Negotiate(w) \/ Exchange(w) \/ Exit(w)
  PROVE  IInv'
<1>1. w \in Worker /\ TypeOK
  BY PoolType DEF IInv
<1>2. UNCHANGED <<config, server, result, current, stop, active, queue, job, conn>>
  BY DEF Reserve, Negotiate, Exchange, Exit, session
<1>3. PICK x \in WorkerStates :
        /\ worker' = [worker EXCEPT ![w] = x]
        /\ x = worker[w] \/ (x = "exited" /\ worker[w] = "idle")
             \/ (x \in {"negotiating", "handling"} /\ worker[w] \in {"reserving", "negotiating"})
  <2>1. CASE Exchange(w)
    <3>1. worker' = [worker EXCEPT ![w] = worker[w]] /\ worker[w] \in WorkerStates
      BY <1>1, <2>1 DEF Exchange, TypeOK, WorkerStates
    <3> QED
      BY <3>1
  <2>2. CASE Negotiate(w)
    BY <2>2 DEF Negotiate, Negotiated, EffectiveMode, WorkerStates
  <2>3. CASE Reserve(w) \/ Exit(w)
    BY <2>3 DEF Reserve, Exit, WorkerStates
  <2> QED
    BY <2>1, <2>2, <2>3
<1>4. link' \in [Worker -> [is_tls : BOOLEAN, client : Client \cup {NoClient}, exchanged : BOOLEAN]]
  <2>1. CASE Reserve(w) \/ Exit(w)
    BY <1>1, <2>1 DEF Reserve, Exit, session, TypeOK
  <2>2. CASE Negotiate(w)
    <3>1. PICK is_tls \in BOOLEAN, client \in Client \cup {NoClient} :
            link' = [link EXCEPT ![w] = [is_tls |-> is_tls, client |-> client, exchanged |-> FALSE]]
      BY <2>2 DEF Negotiate, Negotiated, EffectiveMode
    <3> QED
      BY <1>1, <3>1 DEF TypeOK
  <2>3. CASE Exchange(w)
    <3>1. PICK client \in Client :
            link' = [link EXCEPT ![w].client = client, ![w].exchanged = TRUE]
      BY <2>3 DEF Exchange
    <3> DEFINE Links == [is_tls : BOOLEAN, client : Client \cup {NoClient}, exchanged : BOOLEAN]
               known == [link EXCEPT ![w].client = client]
    <3>2. known \in [Worker -> Links]
      BY <1>1 DEF TypeOK
    <3>3. link' = [known EXCEPT ![w].exchanged = TRUE]
      BY <1>1, <3>1 DEF TypeOK
    <3> HIDE DEF known
    <3> QED
      BY <1>1, <3>2, <3>3
  <2> QED
    BY <2>1, <2>2, <2>3
<1>5. TypeOK'
  BY <1>1, <1>2, <1>3, <1>4 DEF TypeOK, WorkerStates
<1>6. Busy' = Busy /\ Serving' = Serving /\ Workers({"dead"})' = Workers({"dead"})
  <2>1. /\ \A S : Workers(S)' = IF x \in S THEN Workers(S) \cup {w} ELSE Workers(S) \ {w}
        /\ \A S : w \in Workers(S) <=> worker[w] \in S
    BY <1>1, <1>2, <1>3, WorkerMoves DEF Workers
  <2> QED
    BY <1>3, <2>1 DEF Busy, Serving
<1>7. Accounted'
  BY <1>2, <1>5, <1>6, CountTypes DEF IInv, Accounted
<1>8. Owned' /\ Stages'
  BY <1>2, <1>6 DEF IInv, Owned, Stages, Open, Queued, Served
<1>9. LinksTrusted'
  BY <1>5, TrustSteps DEF Working
<1> QED
  BY <1>5, <1>7, <1>8, <1>9 DEF IInv

\* The connection is closed before its permit is given back.
LEMMA LeaveSteps ==
  ASSUME IInv, NEW w \in Pool, Reject(w) \/ Handled(w) PROVE IInv'
<1>1. w \in Worker /\ TypeOK /\ w \in Serving
  BY PoolType DEF IInv, Reject, Handled, Serving, Workers
<1>2. /\ worker' = [worker EXCEPT ![w] = "finishing"]
      /\ link' = [link EXCEPT ![w] = Unsettled]
      /\ Become(job[w], "closed")
      /\ UNCHANGED <<config, server, result, current, stop, active, queue, job>>
  BY DEF Reject, Handled, Leave
<1>3. job[w] \in Served
  BY <1>1 DEF IInv, Owned
<1>4. PICK c \in Conn : c = job[w] /\ conn[c] = "serving" /\ c \notin Queued
  BY <1>3 DEF Served, Queued
<1>5. TypeOK'
  BY <1>1, <1>2, <1>4 DEF TypeOK, Become, Unsettled
<1>6. Busy' = Busy /\ Serving' = Serving \ {w} /\ Workers({"dead"})' = Workers({"dead"})
  <2>1. /\ \A S : Workers(S)' = IF "finishing" \in S THEN Workers(S) \cup {w} ELSE Workers(S) \ {w}
        /\ \A S : w \in Workers(S) <=> worker[w] \in S
    BY <1>1, <1>2, WorkerMoves DEF Workers, WorkerStates
  <2>2. worker[w] \in {"reserving", "negotiating", "handling"}
    BY <1>1 DEF Serving, Workers
  <2> QED
    BY <2>1, <2>2 DEF Busy, Serving
<1>7. /\ Queued' = Queued /\ Served' = Served \ {c} /\ Open' = Open \ {c}
      /\ \A d \in Conn \ {c} : conn'[d] = conn[d]
  BY <1>1, <1>2, <1>4, ConnMoves DEF ConnStates
<1>8. Accounted'
  BY <1>2, <1>5, <1>6, CountTypes DEF IInv, Accounted
<1>9. Owned'
  <2>1. {job[v] : v \in Serving \ {w}} = Served \ {c}
    BY <1>1, <1>4 DEF IInv, Owned
  <2> QED
    BY <1>2, <1>6, <1>7, <2>1 DEF IInv, Owned
<1>10. Stages'
  BY <1>2, <1>4, <1>7 DEF IInv, Stages
<1>11. LinksTrusted'
  BY <1>5, TrustSteps DEF Working
<1> QED
  BY <1>5, <1>8, <1>9, <1>10, <1>11 DEF IInv

\* The last line of a job gives back the permit that it holds.
LEMMA FinishStep == ASSUME IInv, NEW w \in Pool, Finish(w) PROVE IInv'
<1>1. w \in Worker /\ TypeOK /\ w \in Busy /\ w \notin Serving
  BY PoolType DEF IInv, Finish, Busy, Serving, Workers
<1>2. /\ worker[w] = "finishing" /\ active' = active - 1
      /\ worker' = [worker EXCEPT ![w] = "idle"] /\ job' = [job EXCEPT ![w] = NoConn]
      /\ UNCHANGED <<config, link, server, result, current, stop, queue, conn>>
  BY DEF Finish, session
<1>3. /\ \A S : Workers(S)' = IF "idle" \in S THEN Workers(S) \cup {w} ELSE Workers(S) \ {w}
      /\ Cardinality(Busy') = Cardinality(Busy) - 1
  BY <1>1, <1>2, WorkerMoves DEF WorkerStates
<1>4. Serving' = Serving /\ Workers({"dead"})' = Workers({"dead"})
  <2>1. \A S : w \in Workers(S) <=> worker[w] \in S
    BY <1>1 DEF Busy, Workers
  <2> QED
    BY <1>2, <1>3, <2>1 DEF Serving
<1>5. 1 <= Cardinality(Busy)
  <2>1. IsFiniteSet(Busy) /\ Busy # {}
    BY <1>1, PoolType DEF Busy
  <2> QED
    BY <1>1, <2>1, CountTypes, FS_EmptySet
<1>6. active - 1 \in Nat
  BY <1>1, <1>5, CountTypes DEF IInv, Accounted
<1>7. TypeOK'
  BY <1>1, <1>2, <1>6 DEF TypeOK
<1>8. Accounted'
  BY <1>1, <1>2, <1>3, <1>4, CountTypes DEF IInv, Accounted
<1>9. Owned'
  <2>1. \A v \in Serving : job'[v] = job[v]
    BY <1>1, <1>2, PoolType DEF TypeOK, Serving, Workers
  <2>2. {job'[v] : v \in Serving} = {job[v] : v \in Serving}
    BY <2>1
  <2>3. Queued' = Queued /\ Served' = Served
    BY <1>2 DEF Queued, Served
  <2> QED
    BY <1>2, <1>4, <2>1, <2>2, <2>3 DEF IInv, Owned
<1>10. Stages'
  BY <1>2 DEF IInv, Stages, Open
<1>11. LinksTrusted'
  BY <1>7, TrustSteps DEF Working
<1> QED
  BY <1>7, <1>8, <1>9, <1>10, <1>11 DEF IInv

\* A job is taken out of the queue by the worker that will own its connection.
LEMMA ReceiveStep == ASSUME IInv, NEW w \in Pool, Receive(w) PROVE IInv'
<1>1. w \in Worker /\ TypeOK /\ w \notin Busy /\ w \notin Serving /\ worker[w] = "idle"
  BY PoolType DEF IInv, Receive, Busy, Serving, Workers
<1>2. /\ worker' = [worker EXCEPT ![w] = "reserving"] /\ job' = [job EXCEPT ![w] = Head(queue)]
      /\ queue' = Tail(queue) /\ queue # <<>> /\ Become(Head(queue), "serving")
      /\ UNCHANGED <<config, link, server, result, current, stop, active>>
  BY DEF Receive, session
<1>3. /\ queue \in Seq(Conn) /\ Tail(queue) \in Seq(Conn) /\ Len(Tail(queue)) = Len(queue) - 1
      /\ ToSet(Tail(queue)) = ToSet(queue) \ {Head(queue)} /\ IsInjective(Tail(queue))
      /\ Head(queue) \in ToSet(queue)
  BY <1>1, <1>2, QueueTake DEF IInv, Owned, TypeOK
<1>4. PICK c \in Conn : c = Head(queue) /\ conn[c] = "queued" /\ c \in Queued /\ c \notin Served
  BY <1>3 DEF IInv, Owned, Queued, Served
<1>5. /\ Queued' = Queued \ {c} /\ Served' = Served \cup {c} /\ Open' = Open /\ c \in Open
      /\ conn'[c] = "serving" /\ \A d \in Conn \ {c} : conn'[d] = conn[d]
  <2>1. Open' = Open \cup {c} /\ c \in Open
    BY <1>1, <1>2, <1>4, ConnMoves DEF ConnStates, Open
  <2> QED
    BY <1>1, <1>2, <1>4, <2>1, ConnMoves DEF ConnStates
<1>6. /\ \A S : Workers(S)' = IF "reserving" \in S THEN Workers(S) \cup {w} ELSE Workers(S) \ {w}
      /\ Cardinality(Busy') = Cardinality(Busy) + 1
  BY <1>1, <1>2, WorkerMoves DEF WorkerStates
<1>7. Serving' = Serving \cup {w} /\ Workers({"dead"})' = Workers({"dead"})
  <2>1. \A S : w \in Workers(S) <=> worker[w] \in S
    BY DEF Workers
  <2> QED
    BY <1>1, <1>6, <2>1 DEF Serving
<1>8. TypeOK'
  BY <1>1, <1>2, <1>3, <1>4 DEF TypeOK, Become
<1>9. Accounted'
  <2>1. Len(queue') = Len(queue) - 1 /\ active' = active
    BY <1>2, <1>3
  <2>2. active \in Nat /\ Len(queue) \in Nat /\ Cardinality(Busy) \in Nat
    BY <1>1, CountTypes
  <2>3. Len(queue') + Cardinality(Busy') = Len(queue) + Cardinality(Busy)
    BY <1>6, <2>1, <2>2
  <2> QED
    BY <1>7, <2>1, <2>3 DEF IInv, Accounted
<1>10. Owned'
  <2>1. /\ \A v \in Serving : job'[v] = job[v] /\ job[v] \in Served
        /\ job'[w] = c
    BY <1>1, <1>2, <1>4, PoolType DEF TypeOK, Serving, Workers, IInv, Owned
  <2>2. {job'[v] : v \in Serving} = {job[v] : v \in Serving}
    BY <2>1
  <2>3. {job'[v] : v \in Serving \cup {w}} = {job'[v] : v \in Serving} \cup {c}
    BY <2>1
  <2>4. {job[v] : v \in Serving} = Served /\ \A u, v \in Serving : job[u] = job[v] => u = v
    BY DEF IInv, Owned
  <2>5. {job'[v] : v \in Serving'} = Served'
    BY <1>5, <1>7, <2>2, <2>3, <2>4
  <2>6. \A u, v \in Serving' : job'[u] = job'[v] => u = v
    BY <1>4, <1>7, <2>1, <2>4
  <2>7. ToSet(queue') = Queued' /\ IsInjective(queue')
    BY <1>2, <1>3, <1>4, <1>5 DEF IInv, Owned
  <2> QED
    BY <2>5, <2>6, <2>7 DEF Owned
<1>11. Stages'
  BY <1>2, <1>4, <1>5 DEF IInv, Stages
<1>12. LinksTrusted'
  BY <1>8, TrustSteps DEF Working
<1> QED
  BY <1>8, <1>9, <1>10, <1>11, <1>12 DEF IInv

\* The permit of a handler that panics is lost: there is one more in the count
\* than there are jobs, and one dead worker.
LEMMA PanicStep == ASSUME IInv, NEW w \in Pool, Panic(w) PROVE IInv'
<1> DEFINE last == Workers({"dead"}) \cup {w} = Pool
           lost == {job[w]} \cup (IF last THEN ToSet(queue) ELSE {})
<1>1. w \in Worker /\ TypeOK /\ w \in Busy /\ w \in Serving /\ worker[w] = "handling"
  BY PoolType DEF IInv, Panic, Busy, Serving, Workers
<1>2. /\ worker' = [worker EXCEPT ![w] = "dead"] /\ job' = [job EXCEPT ![w] = NoConn]
      /\ queue' = IF last THEN <<>> ELSE queue
      /\ conn' = [c \in Conn |-> IF c \in lost THEN "closed" ELSE conn[c]]
      /\ link' = [link EXCEPT ![w] = Unsettled]
      /\ UNCHANGED <<config, server, result, current, stop, active>>
  BY DEF Panic
<1>3. job[w] \in Served /\ ToSet(queue) = Queued /\ queue \in Seq(Conn) /\ IsInjective(queue)
  BY <1>1 DEF IInv, Owned, TypeOK
<1> HIDE DEF last
<1>4. /\ queue' \in Seq(Conn) /\ Len(queue') \in Nat /\ Len(queue') <= Len(queue)
      /\ ToSet(queue') = IF last THEN {} ELSE Queued
      /\ IsInjective(queue')
  <2>1. CASE last
    <3>1. queue' = <<>>
      BY <1>2, <2>1
    <3>2. Len(queue) \in Nat
      BY <1>3, QueueType
    <3> QED
      BY <2>1, <3>1, <3>2, EmptyQueue
  <2>2. CASE ~last
    <3>1. queue' = queue
      BY <1>2, <2>2
    <3>2. Len(queue) \in Nat
      BY <1>3, QueueType
    <3> QED
      BY <1>3, <2>2, <3>1, <3>2
  <2> QED
    BY <2>1, <2>2
<1>5. /\ Queued' = IF last THEN {} ELSE Queued
      /\ Served' = Served \ {job[w]} /\ Open' \subseteq Open
      /\ \A c \in Conn : conn[c] = "accepted" => conn'[c] = "accepted"
  BY <1>2, <1>3 DEF Queued, Served, Open
<1>6. /\ \A S : Workers(S)' = IF "dead" \in S THEN Workers(S) \cup {w} ELSE Workers(S) \ {w}
      /\ Cardinality(Busy') = Cardinality(Busy) - 1
  BY <1>1, <1>2, WorkerMoves DEF WorkerStates
<1>7. Serving' = Serving \ {w} /\ Workers({"dead"})' # {}
  BY <1>6 DEF Serving
<1>8. TypeOK'
  BY <1>1, <1>2, <1>4 DEF TypeOK, Unsettled
<1>9. Accounted'
  BY <1>1, <1>2, <1>4, <1>6, <1>7, CountTypes DEF IInv, Accounted
<1>10. Owned'
  <2>1. \A v \in Serving \ {w} : job'[v] = job[v]
    BY <1>1, <1>2, PoolType DEF TypeOK, Serving, Workers
  <2>2. {job[v] : v \in Serving} = Served /\ \A u, v \in Serving : job[u] = job[v] => u = v
    BY DEF IInv, Owned
  <2>3. {job'[v] : v \in Serving \ {w}} = Served \ {job[w]}
    BY <1>1, <2>1, <2>2
  <2>4. \A u, v \in Serving \ {w} : job'[u] = job'[v] => u = v
    BY <2>1, <2>2
  <2> QED
    BY <1>4, <1>5, <1>7, <2>3, <2>4 DEF Owned
<1>11. Stages'
  BY <1>2, <1>5 DEF IInv, Stages, TypeOK
<1>12. LinksTrusted'
  BY <1>8, TrustSteps DEF Working
<1> QED
  BY <1>8, <1>9, <1>10, <1>11, <1>12 DEF IInv

\* Every step preserves the invariant.
LEMMA StepIInv == IInv /\ [Next]_vars => IInv'
<1> SUFFICES ASSUME IInv, [Next]_vars PROVE IInv'
  OBVIOUS
<1>1. CASE TurnAway \/ ExecuteError
  <2>1. PICK c \in Conn : c = current
    BY <1>1 DEF TurnAway, ExecuteError, IInv, Stages
  <2> QED
    BY <1>1, <2>1, ArrivalSteps
<1>2. CASE Accepting
  BY <1>1, <1>2, QuietSteps, ArrivalSteps, ExecuteStep DEF Accepting
<1>3. CASE \E w \in Pool : Working(w)
  BY <1>3, StaySteps, LeaveSteps, FinishStep, ReceiveStep, PanicStep DEF Working
<1>4. CASE Shutdown \/ (\E c \in Conn : Connect(c)) \/ UNCHANGED vars
  BY <1>4, QuietSteps, ArrivalSteps
<1> QED
  BY <1>2, <1>3, <1>4 DEF Next

\* Every reachable state satisfies the inductive invariant: it holds first, and
\* every step of the program preserves it.
THEOREM Invariance == Spec => []IInv
<1>1. Init => IInv
  BY InitIInv
<1>2. IInv /\ [Next]_vars => IInv'
  BY StepIInv
<1> QED
  BY <1>1, <1>2, PTL DEF Spec

\* The count of permits and the owners of the connections agree, for any number
\* of connections, workers and permits (server/sync_server.rs: execute, the
\* worker loop and the end of a job).
THEOREM JobsCorrect == Spec => []JobsAccounted
BY Invariance, IInvImplies, PTL

\* A handler exchanges data only with a client that has shown what the server
\* requires, although the handshake comes after the handler is called
\* (handle_sync_connection and accept_sync).
THEOREM TrustCorrect == Spec => []DataOnlyTrusted
BY Invariance, IInvImplies, PTL

-----------------------------------------------------------------------------
(* The promise to the embedder *)

\* The abstract specification counts with its own instance of FiniteSets.
LEMMA GracefulCardinality == \A S : Graceful!Cardinality(S) = Cardinality(S)
BY DEF Graceful!Cardinality, Cardinality

\* The open connections are no more than the permits given out: each is one job
\* of the queue or of one worker.
LEMMA OpenIsCounted == ASSUME IInv PROVE Cardinality(Open) \in Nat /\ Cardinality(Open) <= active
<1>1. /\ queue \in Seq(Conn) /\ active \in Nat /\ Len(queue) \in Nat /\ Cardinality(Busy) \in Nat
      /\ IsFiniteSet(Busy) /\ Serving \subseteq Busy /\ IsFiniteSet(Serving)
  BY CountTypes, PoolType DEF IInv, TypeOK, Busy
<1>2. IsFiniteSet(Queued) /\ Cardinality(Queued) <= Len(queue)
  BY <1>1, QueueType DEF IInv, Owned
<1>3. IsFiniteSet(Served) /\ Cardinality(Served) <= Cardinality(Serving)
  <2> DEFINE f == [w \in Serving |-> job[w]]
  <2>1. f \in Surjection(Serving, Served)
    BY DEF Surjection, IInv, Owned
  <2> QED
    BY <1>1, <2>1, FS_Surjection
<1>4. Cardinality(Serving) <= Cardinality(Busy)
  BY <1>1, FS_Subset
<1>5. /\ Cardinality(Queued) \in Nat /\ Cardinality(Served) \in Nat /\ Cardinality(Serving) \in Nat
      /\ Cardinality(Queued \cap Served) \in Nat
  BY <1>1, <1>2, <1>3, FS_CardinalityType, FS_Intersection
<1>6. /\ IsFiniteSet(Open)
      /\ Cardinality(Open) = Cardinality(Queued) + Cardinality(Served) - Cardinality(Queued \cap Served)
  BY <1>2, <1>3, OpenIs, FS_Union
<1>7. active >= Len(queue) + Cardinality(Busy)
  BY DEF IInv, Accounted
<1>8. Cardinality(Open) \in Nat
  BY <1>6, FS_CardinalityType
<1> QED
  BY <1>1, <1>2, <1>3, <1>4, <1>5, <1>6, <1>7, <1>8

\* The initial states are those of the graceful server.
LEMMA GracefulInit == Init => Graceful!Init
BY DEF Init, Graceful!Init, Open, Stage

\* Of the steps that open and close nothing four change what the embedder sees.
LEMMA GracefulLoop ==
  ASSUME IInv,
         \/ CheckStop \/ AcceptError \/ ExecuteError \/ Drained \/ Return
  PROVE  [Graceful!Next]_Graceful!vars
<1>1. Open' = Open
  <2>1. CASE ExecuteError
    <3>1. PICK c \in Conn : c = current /\ conn[c] = "accepted"
      BY <2>1 DEF ExecuteError, IInv, Stages
    <3> QED
      BY <2>1, <3>1, ConnMoves DEF ExecuteError, Open, IInv, ConnStates
  <2>2. CASE CheckStop \/ AcceptError \/ Drained \/ Return
    BY <2>2 DEF CheckStop, AcceptError, Drained, Return, Open
  <2> QED
    BY <2>1, <2>2
<1>2. CASE CheckStop
  <2>1. result = "none" /\ result' = "none" /\ Stage = "running"
    BY <1>2 DEF CheckStop, IInv, Stages, TypeOK, Stage
  <2>2. Stage' = IF stop THEN "stopping" ELSE "running"
    BY <1>2, <2>1 DEF CheckStop, Stage
  <2> QED
    BY <1>1, <2>1, <2>2 DEF Graceful!Next, Graceful!Stop, Graceful!vars
<1>3. CASE AcceptError \/ ExecuteError
  <2>1. Stage = "running" /\ Stage' = "failed"
    BY <1>3 DEF AcceptError, ExecuteError, IInv, Stages, TypeOK, Stage
  <2> QED
    BY <1>1, <2>1 DEF Graceful!Next, Graceful!Fail
<1>4. CASE Drained
  <2>1. Stage = "stopping" /\ Stage' = "stopping"
    BY <1>4 DEF Drained, IInv, Stages, TypeOK, Stage
  <2> QED
    BY <1>1, <2>1 DEF Graceful!vars
<1>5. CASE Return
  <2>1. server = "joining" /\ server' = "returned" /\ result' = result
    BY <1>5 DEF Return
  <2>2. result \in {"ok", "err"}
    BY <2>1 DEF IInv, Stages, TypeOK
  <2>3. CASE result = "ok"
    <3>1. Stage = "stopping" /\ Stage' = "returned" /\ Open = {}
      BY <2>1, <2>3 DEF Stage, IInv, Stages
    <3> QED
      BY <1>1, <3>1 DEF Graceful!Next, Graceful!Return
  <2>4. CASE result = "err"
    <3>1. Stage = "failed" /\ Stage' = "failed"
      BY <2>1, <2>4 DEF Stage
    <3> QED
      BY <1>1, <3>1 DEF Graceful!vars
  <2> QED
    BY <2>2, <2>3, <2>4
<1> QED
  BY <1>2, <1>3, <1>4, <1>5

\* The other steps of the accepting thread and of the world.
LEMMA GracefulArrival ==
  ASSUME IInv,
         \/ Shutdown \/ AcceptNone \/ TurnAway \/ UNCHANGED vars
         \/ \E c \in Conn : Connect(c) \/ Accept(c)
  PROVE  UNCHANGED Graceful!vars
<1>1. UNCHANGED Stage
  BY DEF Shutdown, AcceptNone, TurnAway, Connect, Accept, Stage, vars
<1>2. CASE Shutdown \/ AcceptNone \/ UNCHANGED vars
  BY <1>1, <1>2 DEF Shutdown, AcceptNone, vars, Open, Graceful!vars
<1>3. CASE TurnAway \/ \E c \in Conn : Connect(c) \/ Accept(c)
  <2>1. PICK c \in Conn, x \in {"backlog", "accepted", "closed"} : Become(c, x) /\ c \notin Open
    <3>1. CASE TurnAway
      <4>1. PICK c \in Conn : c = current /\ conn[c] = "accepted"
        BY <3>1 DEF TurnAway, IInv, Stages
      <4> QED
        BY <3>1, <4>1 DEF TurnAway, Open
    <3>2. CASE \E c \in Conn : Connect(c) \/ Accept(c)
      BY <3>2 DEF Connect, Accept, Open
    <3> QED
      BY <1>3, <3>1, <3>2
  <2>2. Open' = Open \ {c}
    BY <2>1, ConnMoves DEF IInv, ConnStates
  <2> QED
    BY <1>1, <2>1, <2>2 DEF Graceful!vars
<1> QED
  BY <1>2, <1>3

\* execute takes the connection on: there is a permit.
LEMMA GracefulExecute == IInv /\ Execute => Graceful!Next
<1> SUFFICES ASSUME IInv, Execute PROVE Graceful!Next
  OBVIOUS
<1>1. PICK c \in Conn : c = current /\ conn[c] = "accepted"
  BY DEF Execute, IInv, Stages
<1>2. c \notin Open /\ Open' = Open \cup {c}
  BY <1>1, ConnMoves DEF Execute, Open, IInv, ConnStates
<1>3. Stage = "running" /\ UNCHANGED Stage
  BY DEF Execute, Stage, IInv, Stages, TypeOK
<1>4. Graceful!Cardinality(Open) < MaxConnections
  <2>1. active + 1 <= MaxConnections /\ active \in Nat /\ MaxConnections \in Nat
    BY ServerAssumption DEF Execute, IInv, TypeOK
  <2> QED
    BY <2>1, OpenIsCounted, GracefulCardinality
<1>5. Graceful!TakeOn(c)
  BY <1>2, <1>3, <1>4 DEF Graceful!TakeOn
<1> QED
  BY <1>5 DEF Graceful!Next

\* A worker closes the connection it leaves; the last one to panic closes all
\* that wait as well.
LEMMA GracefulWorking ==
  ASSUME IInv, NEW w \in Pool, Working(w)
  PROVE  [Graceful!Next]_Graceful!vars
<1>1. UNCHANGED Stage
  BY DEF Working, Receive, Reserve, Negotiate, Reject, Exchange, Handled, Finish, Panic, Exit,
     Leave, session, Stage
<1>2. TypeOK
  BY DEF IInv
<1>3. w \in Serving => job[w] \in Served
  BY DEF IInv, Owned
<1>4. ASSUME NEW lost \in SUBSET Open, lost # {}, Open' = Open \ lost
      PROVE  Graceful!Next
  <2>1. Graceful!Close(lost)
    BY <1>1, <1>4 DEF Graceful!Close
  <2> QED
    BY <2>1 DEF Graceful!Next
<1>5. CASE Receive(w)
  <2>1. Head(queue) \in Queued
    BY <1>2, <1>5, QueueTake DEF Receive, IInv, Owned, TypeOK
  <2>2. PICK c \in Conn : c = Head(queue) /\ c \in Open
    BY <2>1 DEF Queued, Open
  <2>3. Become(c, "serving") /\ "serving" \in ConnStates
    BY <1>5, <2>2 DEF Receive, ConnStates
  <2>4. Open' = Open \cup {c}
    BY <1>2, <2>3, ConnMoves
  <2>5. Open' = Open
    BY <2>2, <2>4
  <2> QED
    BY <1>1, <2>5 DEF Graceful!vars
<1>6. CASE Reserve(w) \/ Negotiate(w) \/ Exchange(w) \/ Finish(w) \/ Exit(w)
  <2>1. Open' = Open
    BY <1>6 DEF Reserve, Negotiate, Exchange, Finish, Exit, Open
  <2> QED
    BY <1>1, <2>1 DEF Graceful!vars
<1>7. CASE Reject(w) \/ Handled(w)
  <2>1. w \in Serving /\ Become(job[w], "closed")
    BY <1>7 DEF Reject, Handled, Leave, Serving, Workers
  <2>2. PICK c \in Conn : c = job[w] /\ c \in Open
    BY <1>3, <2>1 DEF Served, Open
  <2>3. Open' = Open \ {c} /\ {c} \in SUBSET Open
    BY <1>2, <2>1, <2>2, ConnMoves DEF ConnStates
  <2> QED
    BY <1>4, <2>3
<1>8. CASE Panic(w)
  <2> DEFINE last == Workers({"dead"}) \cup {w} = Pool
             lost == {job[w]} \cup (IF last THEN ToSet(queue) ELSE {})
  <2>1. conn' = [c \in Conn |-> IF c \in lost THEN "closed" ELSE conn[c]]
    BY <1>8 DEF Panic
  <2>2. w \in Serving /\ ToSet(queue) = Queued
    BY <1>8 DEF Panic, Serving, Workers, IInv, Owned
  <2> HIDE DEF last
  <2>3. lost \in SUBSET Open /\ lost # {}
    BY <1>3, <2>2 DEF Served, Queued, Open
  <2>4. Open' = Open \ lost
    BY <2>1 DEF Open
  <2> QED
    BY <1>4, <2>3, <2>4
<1> QED
  BY <1>5, <1>6, <1>7, <1>8 DEF Working

\* The synchronous server keeps its promise: at most max_connections
\* connections are open at once, none is taken on once the loop has seen the
\* flag, and run_until_shutdown returns Ok only when all are closed, also when
\* handlers panic.
THEOREM Refinement == Spec => IsGraceful
<1>1. Init => Graceful!Init
  BY GracefulInit
<1>2. IInv /\ [Next]_vars => [Graceful!Next]_Graceful!vars
  BY GracefulLoop, GracefulArrival, GracefulExecute, GracefulWorking DEF Next, Accepting
<1> QED
  BY <1>1, <1>2, Invariance, PTL DEF Spec, IsGraceful, Graceful!Spec
=============================================================================
