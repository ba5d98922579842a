----------------------------- MODULE GuardStack -----------------------------
(***************************************************************************)
(* guard/stack.rs and the connection that owns a session (handler.rs):     *)
(* the reservation loop with its rollback, the allowlist that bypasses the *)
(* guards, the session's lifecycle, and the drops that close it.           *)
(*                                                                         *)
(* Connections are served concurrently; each call of a guard's hook is one *)
(* step, so the loops over the guards interleave.  Guards are numbered in  *)
(* the order the stack calls them.  A guard may refuse at any time (rate,  *)
(* ban, limit); a guard g with a limit never has more than Cap[g] sessions *)
(* reserved, which is what Throttle implements.                            *)
(***************************************************************************)
EXTENDS Integers, FiniteSets

CONSTANTS Session,           \* accepted connections
          Ip, IpOf,          \* GuardContext::peer_ip
          N,                 \* length of GuardStackInner::guards
          Cap,               \* concurrent reservations each guard allows
          HandlersTakeStream \* do handlers call Connection::into_stream?

Guard == 1..N

ASSUME StackAssumption ==
  N \in Nat /\ IpOf \in [Session -> Ip] /\ IsFiniteSet(Session) /\ Cap \in [Guard -> Nat]
ASSUME HandlerAssumption == HandlersTakeStream \in BOOLEAN

VARIABLES
  allow,  \* the set behind Allowlist::ips
  conn,   \* conn[s]: the control state of connection s and its GuardSession
  told    \* told[s]: the guards that accepted s in on_reserve and in
          \* on_established, and how often each was called with on_close

vars == <<allow, conn, told>>

(***************************************************************************)
(* conn[s].at:                                                             *)
(*   accepted      socket accepted, reserve not called                     *)
(*   reserving     in the loop of reserve, about to call guard idx         *)
(*   rollback      guard idx+1 refused, guards 1..idx still to be closed   *)
(*   rejected      reserve returned Err, the socket is dropped             *)
(*   handshake     a session exists, TLS is being negotiated               *)
(*   establishing  in the loop of mark_established                         *)
(*   serving       the handler has the Connection                          *)
(*   activity      a read or write reports to the guards, about to call idx*)
(*   dropping      `drops' calls of GuardSession::close still to come      *)
(*   closing       in the loop of close                                    *)
(*   done          the session is gone                                     *)
(* allowed and closed are the fields of GuardSession; stream says that the *)
(* handler has taken the stream out of the Connection and still uses it.   *)
(***************************************************************************)
Places == {"accepted", "reserving", "rollback", "rejected", "handshake",
           "establishing", "serving", "activity", "dropping", "closing", "done"}

ConnType == [at : Places, idx : 0..N+1, allowed : BOOLEAN, closed : BOOLEAN,
             drops : 0..2, stream : BOOLEAN]
ToldType == [reserved : SUBSET Guard, established : SUBSET Guard, closes : [Guard -> Nat]]
NoCloses == [g \in Guard |-> 0]

Init ==
  /\ allow = {}
  /\ conn = [s \in Session |-> [at |-> "accepted", idx |-> 0, allowed |-> FALSE,
                                closed |-> FALSE, drops |-> 0, stream |-> FALSE]]
  /\ told = [s \in Session |-> [reserved |-> {}, established |-> {}, closes |-> NoCloses]]

At(s, place) == conn[s].at = place
Goto(s, place, i) == conn' = [conn EXCEPT ![s].at = place, ![s].idx = i]

\* The guards that have reserved s and not been told to close it.
HeldBy(s) == {g \in told[s].reserved : told[s].closes[g] = 0}
Holds(g) == {s \in Session : g \in HeldBy(s)}

-----------------------------------------------------------------------------
(* Allowlist: any thread with the handle. *)
Allow(ip) == allow' = allow \cup {ip} /\ UNCHANGED <<conn, told>>
Remove(ip) == allow' = allow \ {ip} /\ UNCHANGED <<conn, told>>
Clear == allow' = {} /\ UNCHANGED <<conn, told>>

-----------------------------------------------------------------------------
(* GuardStack::reserve *)

\* An allowlisted address gets a session that never calls a guard.
ReserveAllowed(s) ==
  /\ At(s, "accepted")
  /\ IpOf[s] \in allow
  /\ conn' = [conn EXCEPT ![s].at = "handshake", ![s].allowed = TRUE]
  /\ UNCHANGED <<allow, told>>

ReserveBegin(s) ==
  /\ At(s, "accepted")
  /\ IpOf[s] \notin allow
  /\ Goto(s, "reserving", 1)
  /\ UNCHANGED <<allow, told>>

OnReserve(s) ==
  LET g == conn[s].idx IN
  /\ At(s, "reserving") /\ g <= N
  /\ Cardinality(Holds(g)) < Cap[g]
  /\ told' = [told EXCEPT ![s].reserved = @ \cup {g}]
  /\ Goto(s, "reserving", g + 1)
  /\ UNCHANGED allow

\* Variant: the rollback misses the last guard that had accepted.
OnReserveRefusedShort(s) ==
  /\ At(s, "reserving") /\ conn[s].idx <= N
  /\ Goto(s, "rollback", IF conn[s].idx > 1 THEN conn[s].idx - 2 ELSE 0)
  /\ UNCHANGED <<allow, told>>

OnReserveRefused(s) ==
  /\ At(s, "reserving") /\ conn[s].idx <= N
  /\ Goto(s, "rollback", conn[s].idx - 1)
  /\ UNCHANGED <<allow, told>>

\* on_close on the guards before the one that refused, last first.
Rollback(s) ==
  LET g == conn[s].idx IN
  /\ At(s, "rollback") /\ g > 0
  /\ told' = [told EXCEPT ![s].closes[g] = @ + 1]
  /\ Goto(s, "rollback", g - 1)
  /\ UNCHANGED allow

Rejected(s) ==
  /\ At(s, "rollback") /\ conn[s].idx = 0
  /\ Goto(s, "rejected", 0)
  /\ UNCHANGED <<allow, told>>

\* Variant: the loop ends one guard early.
ReserveOkEarly(s) ==
  /\ At(s, "reserving") /\ conn[s].idx >= N
  /\ Goto(s, "handshake", 0)
  /\ UNCHANGED <<allow, told>>

ReserveOk(s) ==
  /\ At(s, "reserving") /\ conn[s].idx = N + 1
  /\ Goto(s, "handshake", 0)
  /\ UNCHANGED <<allow, told>>

-----------------------------------------------------------------------------
(* GuardSession::mark_established, after the handshake *)

MarkEstablished(s) ==
  /\ At(s, "handshake")
  /\ IF conn[s].allowed THEN Goto(s, "serving", 0) ELSE Goto(s, "establishing", 1)
  /\ UNCHANGED <<allow, told>>

OnEstablished(s) ==
  LET g == conn[s].idx IN
  /\ At(s, "establishing") /\ g <= N
  /\ told' = [told EXCEPT ![s].established = @ \cup {g}]
  /\ Goto(s, "establishing", g + 1)
  /\ UNCHANGED allow

\* Every guard agreed: the session is attached to the Connection and the
\* handler is called with it.
Attach(s) ==
  /\ At(s, "establishing") /\ conn[s].idx = N + 1
  /\ Goto(s, "serving", 0)
  /\ UNCHANGED <<allow, told>>

-----------------------------------------------------------------------------
(* Connection::read, read_exact and write_all report after the transfer;   *)
(* the first guard that fails ends the report and the call returns Err.    *)

Report(s) ==
  /\ At(s, "serving") /\ ~conn[s].allowed
  /\ Goto(s, "activity", 1)
  /\ UNCHANGED <<allow, told>>

OnActivity(s) ==
  /\ At(s, "activity")
  /\ \/ conn[s].idx <= N /\ Goto(s, "activity", conn[s].idx + 1)
     \/ Goto(s, "serving", 0)
  /\ UNCHANGED <<allow, told>>

-----------------------------------------------------------------------------
(* The ends of a session *)

Drop(s, closes, taken) ==
  conn' = [conn EXCEPT ![s] = [@ EXCEPT !.at = "dropping", !.idx = 0,
                                        !.drops = closes, !.stream = taken]]

\* The handshake fails or times out, or a guard refuses the establishment:
\* the bare session is dropped.
DropSession(s) ==
  /\ \/ At(s, "handshake")
     \/ At(s, "establishing") /\ conn[s].idx <= N
  /\ Drop(s, 1, FALSE)
  /\ UNCHANGED <<allow, told>>

\* The handler returns, panics or is cancelled with the Connection: its Drop
\* closes the session, then the session's own Drop closes it again.
DropConnection(s) ==
  /\ At(s, "serving")
  /\ Drop(s, 2, FALSE)
  /\ UNCHANGED <<allow, told>>

\* Connection::into_stream takes the stream and drops the rest of self.
IntoStream(s) ==
  /\ HandlersTakeStream
  /\ At(s, "serving")
  /\ Drop(s, 2, TRUE)
  /\ UNCHANGED <<allow, told>>

\* The handler is finished with the stream it took.
DropStream(s) ==
  /\ conn[s].stream
  /\ conn' = [conn EXCEPT ![s].stream = FALSE]
  /\ UNCHANGED <<allow, told>>

\* Variants: the flag `allowed' is not consulted; nor the flag `closed'; the
\* guards are not called.
CloseAllowed(s) ==
  /\ At(s, "dropping") /\ conn[s].drops > 0
  /\ conn' = IF conn[s].closed
             THEN [conn EXCEPT ![s].drops = @ - 1]
             ELSE [conn EXCEPT ![s].drops = @ - 1, ![s].closed = TRUE,
                               ![s].at = "closing", ![s].idx = 1]
  /\ UNCHANGED <<allow, told>>

CloseEachTime(s) ==
  /\ At(s, "dropping") /\ conn[s].drops > 0
  /\ conn' = IF conn[s].allowed
             THEN [conn EXCEPT ![s].drops = @ - 1]
             ELSE [conn EXCEPT ![s].drops = @ - 1, ![s].closed = TRUE,
                               ![s].at = "closing", ![s].idx = 1]
  /\ UNCHANGED <<allow, told>>

CloseSilently(s) ==
  /\ At(s, "dropping") /\ conn[s].drops > 0
  /\ conn' = [conn EXCEPT ![s].drops = @ - 1, ![s].closed = TRUE]
  /\ UNCHANGED <<allow, told>>

\* GuardSession::close: only the first call of a guarded session goes on.
Close(s) ==
  /\ At(s, "dropping") /\ conn[s].drops > 0
  /\ conn' = IF conn[s].allowed \/ conn[s].closed
             THEN [conn EXCEPT ![s].drops = @ - 1]
             ELSE [conn EXCEPT ![s].drops = @ - 1, ![s].closed = TRUE,
                               ![s].at = "closing", ![s].idx = 1]
  /\ UNCHANGED <<allow, told>>

\* Variant: the loop goes one guard too far.
OnClosePastEnd(s) ==
  LET g == conn[s].idx IN
  /\ At(s, "closing") /\ g <= N + 1
  /\ told' = [told EXCEPT ![s].closes[g] = @ + 1]
  /\ Goto(s, "closing", g + 1)
  /\ UNCHANGED allow

OnClose(s) ==
  LET g == conn[s].idx IN
  /\ At(s, "closing") /\ g <= N
  /\ told' = [told EXCEPT ![s].closes[g] = @ + 1]
  /\ Goto(s, "closing", g + 1)
  /\ UNCHANGED allow

CloseReturns(s) ==
  /\ At(s, "closing") /\ conn[s].idx = N + 1
  /\ Goto(s, "dropping", 0)
  /\ UNCHANGED <<allow, told>>

Dropped(s) ==
  /\ At(s, "dropping") /\ conn[s].drops = 0
  /\ Goto(s, "done", 0)
  /\ UNCHANGED <<allow, told>>

-----------------------------------------------------------------------------
\* The steps a call that has started takes by itself.
Runs(s) == \/ OnReserve(s) \/ OnReserveRefused(s) \/ Rollback(s) \/ Rejected(s)
           \/ ReserveOk(s) \/ OnEstablished(s) \/ Attach(s) \/ OnActivity(s)
           \/ Close(s) \/ OnClose(s) \/ CloseReturns(s) \/ Dropped(s)

\* The steps the clients, the handlers and the clock decide.
Chooses(s) == \/ ReserveAllowed(s) \/ ReserveBegin(s) \/ MarkEstablished(s)
              \/ Report(s) \/ DropSession(s) \/ DropConnection(s)
              \/ IntoStream(s) \/ DropStream(s)

Next == \/ \E ip \in Ip : Allow(ip) \/ Remove(ip)
        \/ Clear
        \/ \E s \in Session : Runs(s) \/ Chooses(s)

Spec == Init /\ [][Next]_vars

\* A hook returns and its thread or task goes on.
FairSpec == Spec /\ \A s \in Session : WF_vars(Runs(s))

-----------------------------------------------------------------------------
TypeOK ==
  /\ allow \subseteq Ip
  /\ conn \in [Session -> ConnType]
  /\ told \in [Session -> ToldType]

Untold(s) == told[s].reserved = {} /\ told[s].established = {} /\ told[s].closes = NoCloses

\* A session of an allowlisted address never reaches a guard, not even to
\* close, however the list changes while it lives.
AllowedUntouched == \A s \in Session : conn[s].allowed => Untold(s)

\* The handler runs only for an allowed session or for one that every guard
\* has accepted and been told about, and that no guard has been told to close:
\* whatever happens to other connections and to the allowlist meanwhile.
ServedIsGuarded ==
  \A s \in Session : At(s, "serving") \/ At(s, "activity") =>
    \/ conn[s].allowed
    \/ HeldBy(s) = Guard /\ told[s].established = Guard

\* No reservation outlives its session: when reserve has returned Err, or the
\* session is gone, every guard that accepted has been told to close.  While
\* reserve rolls back, the guards that still hold the session are the first
\* ones of the stack: on_close runs last guard first and misses none.
NoLeak ==
  \A s \in Session :
    /\ At(s, "rejected") \/ At(s, "done") => HeldBy(s) = {}
    /\ At(s, "rollback") => HeldBy(s) = 1..conn[s].idx

\* Being served: by a handler that has the connection, or its stream.
Served == {s \in Session : \/ At(s, "serving") \/ At(s, "activity")
                           \/ conn[s].stream}

\* A guard that caps concurrent reservations caps the connections that are
\* really served ("Caps concurrent connections per IP and globally").
ServedWithinCap ==
  \A g \in Guard : Cardinality({s \in Served : ~conn[s].allowed}) <= Cap[g]

\* Once the owner of a session lets it go, or a guard refuses it, the guards
\* that hold it are all told.
GuardsAreTold ==
  \A s \in Session : At(s, "dropping") \/ At(s, "rollback") ~> HeldBy(s) = {}

\* The stack calls each guard the way the guards rely on.
Contract == INSTANCE GuardContract WITH
  reserved    <- [s \in Session |-> told[s].reserved],
  established <- [s \in Session |-> told[s].established],
  closes      <- [s \in Session |-> told[s].closes]
KeepsContract == Contract!Spec
=============================================================================
