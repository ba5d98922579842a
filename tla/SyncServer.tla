----------------------------- MODULE SyncServer -----------------------------
(***************************************************************************)
(* server/sync_server.rs: the accept loop, the connection limit, the job   *)
(* queue and the worker threads of the blocking server, with graceful      *)
(* shutdown (run_until_shutdown), and what a worker does with a connection *)
(* (handle_sync_connection): it reserves, settles the transport with the   *)
(* client and calls the handler.                                           *)
(*                                                                         *)
(* The accepting thread is `server'; the workers share the receiving end   *)
(* of one mpsc channel, `queue'.  active_connections is added to by the    *)
(* accepting thread only.  The client at the other end is chosen when the  *)
(* server first learns something of it.  A handler exchanges data with it  *)
(* or not, and returns, fails or (PanickingHandlers) panics.               *)
(***************************************************************************)
EXTENDS Tls, Integers, FiniteSets, Sequences, SequencesExt

CONSTANTS Conn,              \* connections that clients make
          Worker,            \* threads of the pool, of which it has as many as
                             \* ServerConfig::worker_threads says
          MaxConnections,    \* ServerConfig::max_connections
          Config,            \* of a ServerConfig: accept_mode, tls, tls.enabled and
                             \* worker_threads, as the set of those threads
          Client, NoClient,  \* what is at the other end: what it sends first, of
                             \* what is sent at all, and its TlsConfig
          NoConn,            \* not a connection
          PanickingHandlers, \* may a handler panic?
          AcceptFails        \* may accept fail with an error of the system?

ASSUME ServerAssumption ==
  /\ IsFiniteSet(Conn) /\ NoConn \notin Conn
  /\ IsFiniteSet(Worker)
  /\ MaxConnections \in Nat \ {0}
  /\ Config \subseteq [accept_mode : {"Tcp", "Tls", "Mixed"}, enabled : BOOLEAN, tls : TlsConfig,
                        worker_threads : (SUBSET Worker) \ {{}}]
  /\ Client \subseteq [first : {"hello", "data", "end", "nothing"}, tls : TlsConfig]
  /\ NoClient \notin Client
  /\ PanickingHandlers \in BOOLEAN /\ AcceptFails \in BOOLEAN

VARIABLES
  config,  \* of the server
  server,  \* checking, accepting, admitting, draining, joining or returned
  result,  \* what run_internal returns, once that is decided
  current, \* the connection accept has just returned
  stop,    \* SyncServerShutdown::stop
  active,  \* active_connections
  queue,   \* the jobs sent and not received
  worker,  \* worker[w]: idle, reserving, negotiating, handling, finishing, dead
           \* (panicked) or exited
  job,     \* job[w]: the connection worker w handles
  link,    \* link[w]: its transport, the client as far as it is known, and
           \* whether the handler exchanged data with it
  conn     \* conn[c]: away, backlog, accepted, queued, serving, closed

vars == <<config, server, result, current, stop, active, queue, worker, job, link, conn>>

Unsettled == [is_tls |-> FALSE, client |-> NoClient, exchanged |-> FALSE]

Init ==
  /\ config \in Config
  /\ server = "checking" /\ result = "none" /\ current = NoConn
  /\ stop = FALSE /\ active = 0 /\ queue = <<>>
  /\ worker = [w \in Worker |-> "idle"] /\ job = [w \in Worker |-> NoConn]
  /\ link = [w \in Worker |-> Unsettled]
  /\ conn = [c \in Conn |-> "away"]

session == <<config, link>>
Become(c, state) == conn' = [conn EXCEPT ![c] = state]
Pool == config.worker_threads
Workers(states) == {w \in Pool : worker[w] \in states}

-----------------------------------------------------------------------------
(* The world: a client connects; the embedder calls shutdown. *)

Connect(c) ==
  /\ conn[c] = "away"
  /\ Become(c, "backlog")
  /\ UNCHANGED <<session, server, result, current, stop, active, queue, worker, job>>

Shutdown ==
  /\ stop' = TRUE
  /\ UNCHANGED <<session, server, result, current, active, queue, worker, job, conn>>

-----------------------------------------------------------------------------
(* The accepting thread: run_internal *)

\* The head of the loop.
CheckStop ==
  /\ server = "checking"
  /\ server' = IF stop THEN "draining" ELSE "accepting"
  /\ UNCHANGED <<session, result, current, stop, active, queue, worker, job, conn>>

Accept(c) ==
  /\ server = "accepting"
  /\ conn[c] = "backlog"
  /\ Become(c, "accepted")
  /\ current' = c /\ server' = "admitting"
  /\ UNCHANGED <<session, result, stop, active, queue, worker, job>>

\* WouldBlock on the non-blocking listener: sleep and look at the flag again.
AcceptNone ==
  /\ server = "accepting"
  /\ \A c \in Conn : conn[c] # "backlog"
  /\ server' = "checking"
  /\ UNCHANGED <<session, result, current, stop, active, queue, worker, job, conn>>

\* Any other error of accept ends the loop; dropping self drops the pool.
AcceptError ==
  /\ AcceptFails
  /\ server = "accepting"
  /\ result' = "err" /\ server' = "joining"
  /\ UNCHANGED <<session, current, stop, active, queue, worker, job, conn>>

\* Variant: a count is taken back that was never added.
TurnAwayUncounted ==
  /\ server = "admitting"
  /\ active + 1 > MaxConnections
  /\ active' = active - 1
  /\ Become(current, "closed")
  /\ current' = NoConn /\ server' = "checking"
  /\ UNCHANGED <<session, result, stop, queue, worker, job>>

\* One too many: fetch_add is undone and the stream dropped.
TurnAway ==
  /\ server = "admitting"
  /\ active + 1 > MaxConnections
  /\ Become(current, "closed")
  /\ current' = NoConn /\ server' = "checking"
  /\ UNCHANGED <<session, result, stop, active, queue, worker, job>>

\* Variant: the comparison uses the count before this connection.
ExecuteOld ==
  /\ server = "admitting"
  /\ active <= MaxConnections
  /\ Workers({"dead"}) # Pool
  /\ active' = active + 1
  /\ queue' = Append(queue, current)
  /\ Become(current, "queued")
  /\ current' = NoConn /\ server' = "checking"
  /\ UNCHANGED <<session, result, stop, worker, job>>

\* execute: the job with the stream goes to the workers.
Execute ==
  /\ server = "admitting"
  /\ active + 1 <= MaxConnections
  /\ Workers({"dead"}) # Pool
  /\ active' = active + 1
  /\ queue' = Append(queue, current)
  /\ Become(current, "queued")
  /\ current' = NoConn /\ server' = "checking"
  /\ UNCHANGED <<session, result, stop, worker, job>>

\* execute with no worker left: the receiver is gone and send fails.
ExecuteError ==
  /\ server = "admitting"
  /\ active + 1 <= MaxConnections
  /\ Workers({"dead"}) = Pool
  /\ Become(current, "closed")
  /\ current' = NoConn /\ result' = "err" /\ server' = "joining"
  /\ UNCHANGED <<session, stop, active, queue, worker, job>>

\* The wait for active_connections to reach zero.
Drained ==
  /\ server = "draining"
  /\ active = 0
  /\ result' = "ok" /\ server' = "joining"
  /\ UNCHANGED <<session, current, stop, active, queue, worker, job, conn>>

\* ThreadPool::drop has dropped the sender and joined every worker.
Return ==
  /\ server = "joining"
  /\ Workers({"dead", "exited"}) = Pool
  /\ server' = "returned"
  /\ UNCHANGED <<session, result, current, stop, active, queue, worker, job, conn>>

-----------------------------------------------------------------------------
(* A worker thread: receive under the lock, run the job outside it. *)

\* Variant: the job is left in the queue for another worker.
ReceiveCopy(w) ==
  /\ worker[w] = "idle"
  /\ queue # <<>>
  /\ worker' = [worker EXCEPT ![w] = "reserving"]
  /\ job' = [job EXCEPT ![w] = Head(queue)]
  /\ Become(Head(queue), "serving")
  /\ UNCHANGED <<session, server, result, current, stop, active, queue>>

Receive(w) ==
  /\ worker[w] = "idle"
  /\ queue # <<>>
  /\ worker' = [worker EXCEPT ![w] = "reserving"]
  /\ job' = [job EXCEPT ![w] = Head(queue)]
  /\ queue' = Tail(queue)
  /\ Become(Head(queue), "serving")
  /\ UNCHANGED <<session, server, result, current, stop, active>>

\* The socket has its timeouts and reserve accepts.
Reserve(w) ==
  /\ worker[w] = "reserving"
  /\ worker' = [worker EXCEPT ![w] = "negotiating"]
  /\ UNCHANGED <<session, server, result, current, stop, active, queue, job, conn>>

EffectiveMode ==
  CASE config.accept_mode = "Mixed"                 -> "Mixed"
    [] config.accept_mode = "Tls"                   -> "Tls"
    [] config.accept_mode = "Tcp" /\ config.enabled -> "Tls"
    [] OTHER                                        -> "Tcp"

\* The handler is called.  accept_sync only wraps the stream: the handshake is
\* left to the first read or write of the handler.
Negotiated(w, is_tls, client) ==
  /\ is_tls => ServerConfigBuilds(config.tls)
  /\ link' = [link EXCEPT ![w] = [is_tls |-> is_tls, client |-> client, exchanged |-> FALSE]]
  /\ worker' = [worker EXCEPT ![w] = "handling"]

\* In Mixed mode peek waits for the first byte; a client that has closed its
\* side is taken for a plain one.
Negotiate(w) ==
  /\ worker[w] = "negotiating"
  /\ CASE EffectiveMode = "Tcp"   -> Negotiated(w, FALSE, NoClient)
       [] EffectiveMode = "Tls"   -> Negotiated(w, TRUE, NoClient)
       [] EffectiveMode = "Mixed" -> \E client \in Client :
            client.first # "nothing" /\ Negotiated(w, client.first = "hello", client)
  /\ UNCHANGED <<config, server, result, current, stop, active, queue, job, conn>>

\* The connection is dropped, and with it the guard session and the stream.
Leave(w) ==
  /\ worker' = [worker EXCEPT ![w] = "finishing"]
  /\ link' = [link EXCEPT ![w] = Unsettled]
  /\ Become(job[w], "closed")
  /\ UNCHANGED <<config, server, result, current, stop, active, queue, job>>

\* A guard refuses, the client keeps peek waiting until the read times out, or
\* there is no configuration for TLS.
Reject(w) ==
  /\ worker[w] \in {"reserving", "negotiating"}
  /\ Leave(w)

\* The handler and the client understand each other and exchange data: over TLS
\* once the handshake has completed.
Exchange(w) ==
  /\ worker[w] = "handling" /\ ~link[w].exchanged
  /\ \E client \in Client :
       /\ link[w].client \in {NoClient, client}
       /\ IF link[w].is_tls THEN client.first = "hello" /\ Completes(config.tls, client.tls)
          ELSE client.first \in {"data", "nothing"}
       /\ link' = [link EXCEPT ![w].client = client, ![w].exchanged = TRUE]
  /\ UNCHANGED <<config, server, result, current, stop, active, queue, worker, job, conn>>

\* The handler returns, with an error if the handshake failed.
Handled(w) ==
  /\ worker[w] = "handling"
  /\ Leave(w)

\* Variant: the count is not given back.
FinishForgets(w) ==
  /\ worker[w] = "finishing"
  /\ worker' = [worker EXCEPT ![w] = "idle"]
  /\ job' = [job EXCEPT ![w] = NoConn]
  /\ UNCHANGED <<session, server, result, current, stop, active, queue, conn>>

\* The last line of the job.
Finish(w) ==
  /\ worker[w] = "finishing"
  /\ active' = active - 1
  /\ worker' = [worker EXCEPT ![w] = "idle"]
  /\ job' = [job EXCEPT ![w] = NoConn]
  /\ UNCHANGED <<session, server, result, current, stop, queue, conn>>

\* The handler panics: unwinding drops the connection and ends the thread.
\* With the last thread goes the receiver, and every job still in the queue.
Panic(w) ==
  /\ PanickingHandlers
  /\ worker[w] = "handling"
  /\ worker' = [worker EXCEPT ![w] = "dead"]
  /\ job' = [job EXCEPT ![w] = NoConn]
  /\ LET last == Workers({"dead"}) \cup {w} = Pool
         lost == {job[w]} \cup (IF last THEN ToSet(queue) ELSE {})
     IN  /\ queue' = IF last THEN <<>> ELSE queue
         /\ conn' = [c \in Conn |-> IF c \in lost THEN "closed" ELSE conn[c]]
  /\ link' = [link EXCEPT ![w] = Unsettled]
  /\ UNCHANGED <<config, server, result, current, stop, active>>

\* Variant: the worker exits with jobs still in the queue.
ExitEarly(w) ==
  /\ worker[w] = "idle"
  /\ server = "joining"
  /\ worker' = [worker EXCEPT ![w] = "exited"]
  /\ UNCHANGED <<session, server, result, current, stop, active, queue, job, conn>>

\* recv fails once the sender is gone and the queue empty.
Exit(w) ==
  /\ worker[w] = "idle"
  /\ server = "joining" /\ queue = <<>>
  /\ worker' = [worker EXCEPT ![w] = "exited"]
  /\ UNCHANGED <<session, server, result, current, stop, active, queue, job, conn>>

-----------------------------------------------------------------------------
Accepting == \/ CheckStop \/ (\E c \in Conn : Accept(c)) \/ AcceptNone \/ AcceptError
             \/ TurnAway \/ Execute \/ ExecuteError \/ Drained \/ Return
Working(w) == \/ Receive(w) \/ Reserve(w) \/ Negotiate(w) \/ Reject(w) \/ Exchange(w)
              \/ Handled(w) \/ Finish(w) \/ Panic(w) \/ Exit(w)

Next == \/ Shutdown \/ \E c \in Conn : Connect(c)
        \/ Accepting
        \/ \E w \in Pool : Working(w)

Spec == Init /\ [][Next]_vars

\* The threads run, and every peek and every handler comes to an end: the
\* per-operation socket timeouts see to that for a handler that only reads and
\* writes.
FairSpec == Spec /\ WF_vars(Accepting) /\ \A w \in Worker : WF_vars(w \in Pool /\ Working(w))

-----------------------------------------------------------------------------
TypeOK ==
  /\ config \in Config
  /\ link \in [Worker -> [is_tls : BOOLEAN, client : Client \cup {NoClient}, exchanged : BOOLEAN]]
  /\ server \in {"checking", "accepting", "admitting", "draining", "joining", "returned"}
  /\ result \in {"none", "ok", "err"} /\ current \in Conn \cup {NoConn}
  /\ stop \in BOOLEAN /\ active \in Nat /\ queue \in Seq(Conn)
  /\ worker \in [Worker -> {"idle", "reserving", "negotiating", "handling", "finishing",
                             "dead", "exited"}]
  /\ job \in [Worker -> Conn \cup {NoConn}]
  /\ conn \in [Conn -> {"away", "backlog", "accepted", "queued", "serving", "closed"}]

Serving == Workers({"reserving", "negotiating", "handling"})
Open == {c \in Conn : conn[c] \in {"queued", "serving"}}

\* active_connections counts a connection from before its job is sent until
\* after its handler has ended, and nothing else, as long as no handler has
\* panicked; it never counts too few, so that the limit is a limit and Ok means
\* that everything is closed even then.
PermitsCounted ==
  LET open == Len(queue) + Cardinality(Serving \cup Workers({"finishing"}))
  IN  TypeOK /\ active >= open /\ (Workers({"dead"}) = {} => active = open)

\* Each open connection is in exactly one place: waiting in the queue once, or
\* with one worker.  None is lost and none is served twice.
OneOwner ==
  /\ ToSet(queue) = {c \in Conn : conn[c] = "queued"} /\ IsInjective(queue)
  /\ {job[w] : w \in Serving} = {c \in Conn : conn[c] = "serving"}
  /\ \A v, w \in Serving : job[v] = job[w] => v = w

\* The count of permits and the owners of connections agree, in every order of
\* accepting, working, panicking and shutting down.
JobsAccounted == PermitsCounted /\ OneOwner

\* Although the handler is called before the handshake, it exchanges data only
\* with a client that has shown the certificate the configuration requires, and
\* that has seen one it trusts, unless it does not verify: in Tls mode with any
\* client, in Mixed mode with those that speak TLS.
DataOnlyTrusted ==
  \A w \in Worker : link[w].exchanged =>
    LET client == link[w].client.tls
        shown  == IF client.client_private_key THEN client.client_certificate_chain ELSE NoCert
        roots  == IF client.trust_anchors = {} THEN SystemRoots ELSE client.trust_anchors
        mine   == config.tls.certificate_chain
    IN  IF link[w].is_tls
        THEN /\ config.tls.require_client_auth => \E a \in config.tls.trust_anchors :
                                                     \E n \in Name : shown = [by |-> a, for |-> n]
             /\ client.verify_peer => mine.by \in roots /\ mine.for = client.server_name
        ELSE EffectiveMode # "Tls" /\ link[w].client.first # "hello"

\* An accepted connection is either turned away or eventually served and
\* closed, also when shutdown comes in between: the queue is drained.
AcceptedIsClosed == \A c \in Conn : conn[c] = "accepted" ~> conn[c] = "closed"

\* After shutdown() run_until_shutdown returns, unless a handler panics.
ShutdownReturnsUnlessPanic == stop ~> server = "returned" \/ Workers({"dead"}) # {}

\* After shutdown() run_until_shutdown returns ("Both async and sync servers
\* support graceful shutdown"), also when a handler has panicked: "Semaphore
\* permit is released ... even if handler panics" (cleanup.rs).
ShutdownReturns == stop ~> server = "returned"

\* What the embedder sees of `server' and of the result it waits for.
Stage == CASE result = "none" -> IF server = "draining" THEN "stopping" ELSE "running"
           [] result = "ok"   -> IF server = "returned" THEN "returned" ELSE "stopping"
           [] result = "err"  -> "failed"

\* The server implements the promise made to the embedder.
Graceful == INSTANCE GracefulServer WITH open <- Open, server <- Stage
IsGraceful == Graceful!Spec
=============================================================================
