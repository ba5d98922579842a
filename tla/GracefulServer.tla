--------------------------- MODULE GracefulServer ---------------------------
(***************************************************************************)
(* What both servers promise their embedder: at most MaxConnections        *)
(* connections are open at once, none is taken on after the server has     *)
(* turned to shutting down, and the run function returns Ok only when      *)
(* every connection it took on is closed.  A server may also fail.         *)
(* `SyncServer' and `AsyncServer' implement this specification.            *)
(***************************************************************************)
EXTENDS Naturals, FiniteSets

CONSTANTS Conn, MaxConnections

VARIABLES open,    \* the connections taken on and not yet closed
          server   \* "running", "stopping", "returned" or "failed"

vars == <<open, server>>

Init == open = {} /\ server = "running"

TakeOn(c) ==
  /\ server = "running"
  /\ c \notin open
  /\ Cardinality(open) < MaxConnections
  /\ open' = open \cup {c}
  /\ UNCHANGED server

\* A failing server may lose several connections at once.
Close(lost) ==
  /\ lost # {} /\ lost \subseteq open
  /\ open' = open \ lost
  /\ UNCHANGED server

Stop == server = "running" /\ server' = "stopping" /\ UNCHANGED open

Return == server = "stopping" /\ open = {} /\ server' = "returned" /\ UNCHANGED open

Fail == server \in {"running", "stopping"} /\ server' = "failed" /\ UNCHANGED open

Next == \/ \E c \in Conn : TakeOn(c)
        \/ \E lost \in SUBSET open : Close(lost)
        \/ Stop \/ Return \/ Fail

Spec == Init /\ [][Next]_vars
=============================================================================
