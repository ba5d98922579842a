--------------------------- MODULE ConnectionCap ---------------------------
(***************************************************************************)
(* What a concurrency limiter promises, with no hint of how it counts: a   *)
(* connection is admitted only while there is room for it, globally and    *)
(* for its IP address, and it occupies that room until it is released.     *)
(* `Throttle' implements this specification.                               *)
(***************************************************************************)
EXTENDS Naturals, FiniteSets

CONSTANTS Conn,       \* the connections that may ask for admission
          IpOf,       \* the peer IP address of each connection
          MaxPerIp,   \* connections one IP address may hold at once
          MaxGlobal   \* connections all addresses together may hold at once

VARIABLE held         \* the connections admitted and not yet released

HeldBy(ip) == {c \in held : IpOf[c] = ip}

Init == held = {}

Admit(c) ==
  /\ c \notin held
  /\ Cardinality(held) < MaxGlobal
  /\ Cardinality(HeldBy(IpOf[c])) < MaxPerIp
  /\ held' = held \cup {c}

Release(c) ==
  /\ c \in held
  /\ held' = held \ {c}

Next == \E c \in Conn : Admit(c) \/ Release(c)

Spec == Init /\ [][Next]_held
=============================================================================
