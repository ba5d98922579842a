---------------------------- MODULE AsyncServer ----------------------------
(***************************************************************************)
(* server/async_server.rs: the accept loop, the permits and the connection *)
(* tasks of the tokio server, with graceful shutdown (run_until_shutdown). *)
(*                                                                         *)
(* The task that runs run_internal is `server'; each connection it spawns  *)
(* is a task of its own, conn[c].  A step is what runs between two awaits  *)
(* or between two operations on the semaphore.                             *)
(***************************************************************************)
EXTENDS Integers, FiniteSets

CONSTANTS Conn,           \* connections that clients make
          MaxConnections, \* ServerConfig::max_connections
          NoConn,         \* not a connection
          U32Max,         \* u32::MAX, the most acquire_many can ask for
          AcceptFails     \* may accept fail with an error of the system?

ASSUME AsyncAssumption ==
  /\ IsFiniteSet(Conn) /\ NoConn \notin Conn
  /\ MaxConnections \in Nat \ {0} /\ U32Max \in Nat
  /\ AcceptFails \in BOOLEAN

VARIABLES
  server,  \* select, admitting, reserving, draining, returned or failed
  current, \* the connection accept has just returned
  signal,  \* the watch channel: silent, sent (true), or dropped (no sender)
  permits, \* available permits of the semaphore
  conn,    \* conn[c]: away, backlog, accepted, handshake, serving, releasing, closed
  session  \* the connections whose GuardSession is open

vars == <<server, current, signal, permits, conn, session>>

Init ==
  /\ server = "select" /\ current = NoConn /\ signal = "silent"
  /\ permits = MaxConnections
  /\ conn = [c \in Conn |-> "away"]
  /\ session = {}

Become(c, state) == conn' = [conn EXCEPT ![c] = state]
In(states) == {c \in Conn : conn[c] \in states}

-----------------------------------------------------------------------------
(* The world: clients connect; the embedder uses or drops its handle. *)

Connect(c) ==
  /\ conn[c] = "away"
  /\ Become(c, "backlog")
  /\ UNCHANGED <<server, current, signal, permits, session>>

\* send(true); a value once sent is still seen after the sender is dropped.
Shutdown ==
  /\ signal = "silent"
  /\ signal' = "sent"
  /\ UNCHANGED <<server, current, permits, conn, session>>

DropHandle ==
  /\ signal = "silent"
  /\ signal' = "dropped"
  /\ UNCHANGED <<server, current, permits, conn, session>>

-----------------------------------------------------------------------------
(* run_internal *)

\* The select! picks accept, at random when both branches are ready.
Accept(c) ==
  /\ server = "select"
  /\ conn[c] = "backlog"
  /\ Become(c, "accepted")
  /\ current' = c /\ server' = "admitting"
  /\ UNCHANGED <<signal, permits, session>>

\* The select! picks changed(): true was sent, or the last sender is gone.
\* The wait for the permits of all tasks starts, unless it cannot be asked for.
SignalChanged ==
  /\ server = "select"
  /\ signal # "silent"
  /\ server' = IF MaxConnections > U32Max THEN "failed" ELSE "draining"
  /\ UNCHANGED <<current, signal, permits, conn, session>>

\* An error of accept is returned at once; running tasks are left behind.
AcceptError ==
  /\ AcceptFails
  /\ server = "select"
  /\ server' = "failed"
  /\ UNCHANGED <<current, signal, permits, conn, session>>

\* try_acquire_owned finds no permit: the stream is dropped.
TurnAway ==
  /\ server = "admitting"
  /\ permits = 0
  /\ Become(current, "closed")
  /\ current' = NoConn /\ server' = "select"
  /\ UNCHANGED <<signal, permits, session>>

\* Variant: the permit is taken without looking whether there is one.
AcquireBlindly ==
  /\ server = "admitting"
  /\ permits' = permits - 1
  /\ server' = "reserving"
  /\ UNCHANGED <<current, signal, conn, session>>

AcquirePermit ==
  /\ server = "admitting"
  /\ permits > 0
  /\ permits' = permits - 1
  /\ server' = "reserving"
  /\ UNCHANGED <<current, signal, conn, session>>

\* The guards accept; the task gets the session and the permit.
Spawn ==
  /\ server = "reserving"
  /\ Become(current, "handshake")
  /\ session' = session \cup {current}
  /\ current' = NoConn /\ server' = "select"
  /\ UNCHANGED <<signal, permits>>

\* Variant: the permit of a refused connection is lost.
GuardRejectsLeaks ==
  /\ server = "reserving"
  /\ Become(current, "closed")
  /\ current' = NoConn /\ server' = "select"
  /\ UNCHANGED <<signal, permits, session>>

\* A guard refuses (GuardStack has rolled back): the permit goes back.
GuardRejects ==
  /\ server = "reserving"
  /\ permits' = permits + 1
  /\ Become(current, "closed")
  /\ current' = NoConn /\ server' = "select"
  /\ UNCHANGED <<signal, session>>

\* Variant: waits for one permit instead of all.
DrainedOne ==
  /\ server = "draining"
  /\ permits > 0
  /\ server' = "returned"
  /\ UNCHANGED <<current, signal, permits, conn, session>>

\* acquire_many(max_connections) is granted when every permit is back.
Drained ==
  /\ server = "draining"
  /\ permits = MaxConnections
  /\ server' = "returned"
  /\ UNCHANGED <<current, signal, permits, conn, session>>

-----------------------------------------------------------------------------
(* A connection task: handle_async_connection under tokio::time::timeout *)

Established(c) ==
  /\ conn[c] = "handshake"
  /\ Become(c, "serving")
  /\ UNCHANGED <<server, current, signal, permits, session>>

\* Connection::into_stream drops the session; the task keeps the stream.
IntoStream(c) ==
  /\ conn[c] = "serving"
  /\ c \in session
  /\ session' = session \ {c}
  /\ UNCHANGED <<server, current, signal, permits, conn>>

\* Variants: the session survives the task; the timeout covers the handler only.
EndKeepsSession(c) ==
  /\ conn[c] \in {"handshake", "serving"}
  /\ Become(c, "releasing")
  /\ UNCHANGED <<server, current, signal, permits, session>>

EndServing(c) ==
  /\ conn[c] = "serving"
  /\ Become(c, "releasing")
  /\ session' = session \ {c}
  /\ UNCHANGED <<server, current, signal, permits>>

\* The future completes, fails or unwinds from a panic, or is dropped by the
\* timeout: in each case what it owns is dropped, the session before the permit.
End(c) ==
  /\ conn[c] \in {"handshake", "serving"}
  /\ Become(c, "releasing")
  /\ session' = session \ {c}
  /\ UNCHANGED <<server, current, signal, permits>>

\* drop(permit), or the unwinding of the task that owns it.
Release(c) ==
  /\ conn[c] = "releasing"
  /\ Become(c, "closed")
  /\ permits' = permits + 1
  /\ UNCHANGED <<server, current, signal, session>>

-----------------------------------------------------------------------------
Admitting == TurnAway \/ AcquirePermit \/ Spawn \/ GuardRejects

Next == \/ Shutdown \/ DropHandle \/ \E c \in Conn : Connect(c) \/ Accept(c)
        \/ SignalChanged \/ AcceptError \/ Admitting \/ Drained
        \/ \E c \in Conn : Established(c) \/ IntoStream(c) \/ End(c) \/ Release(c)

Spec == Init /\ [][Next]_vars

\* The runtime polls what is ready.  connection_timeout bounds the life of a
\* task, so that it ends although no handler need ever return; select! chooses
\* at random, so that a ready signal is not passed over for ever.
FairSpec ==
  /\ Spec
  /\ WF_vars(Admitting) /\ WF_vars(Drained) /\ SF_vars(SignalChanged)
  /\ \A c \in Conn : WF_vars(End(c)) /\ WF_vars(Release(c))

-----------------------------------------------------------------------------
TypeOK ==
  /\ server \in {"select", "admitting", "reserving", "draining", "returned", "failed"}
  /\ current \in Conn \cup {NoConn}
  /\ server \in {"admitting", "reserving"} => current \in Conn /\ conn[current] = "accepted"
  /\ signal \in {"silent", "sent", "dropped"}
  /\ permits \in Nat
  /\ conn \in [Conn -> {"away", "backlog", "accepted", "handshake",
                        "serving", "releasing", "closed"}]
  /\ session \subseteq Conn

Open == In({"handshake", "serving"})
Holding == In({"handshake", "serving", "releasing"})

\* No path through accepting, refusing, serving, failing or timing out loses a
\* permit or returns one twice ("Semaphore permit is released", cleanup.rs).
PermitsExact ==
  permits + Cardinality(Holding) + (IF server = "reserving" THEN 1 ELSE 0) = MaxConnections

\* A guard session is open only while its task runs, hence never without a
\* permit, so that the guards' counts are bounded by max_connections too; and
\* it is open until the handler has the connection.
SessionWithTask == session \subseteq Open /\ In({"handshake"}) \subseteq session

\* A connection that was admitted ends and gives its permit back.
TasksEnd == \A c \in Conn : conn[c] = "accepted" ~> conn[c] = "closed"

\* When the embedder has called shutdown(), or dropped the handle, the run
\* function returns, although clients may keep connecting.
ShutdownReturns == signal # "silent" ~> server \in {"returned", "failed"}

\* What the embedder sees of `server'.
Stage == CASE server \in {"select", "admitting", "reserving"} -> "running"
           [] server = "draining" -> "stopping"
           [] OTHER -> server

\* The server implements the promise made to the embedder.
Graceful == INSTANCE GracefulServer WITH open <- Open, server <- Stage
IsGraceful == Graceful!Spec
=============================================================================
