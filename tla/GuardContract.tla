--------------------------- MODULE GuardContract ---------------------------
(***************************************************************************)
(* What a stack of guards owes each guard (the trait Guard of guard/mod.rs *)
(* as its implementations rely on it): for one session at most one         *)
(* on_reserve that succeeds, then at most one on_established, then exactly *)
(* one on_close, and nothing after it.  Throttle and SynGuard keep correct *)
(* counts only for a caller that behaves so.  `GuardStack' implements this *)
(* specification.                                                          *)
(***************************************************************************)
EXTENDS Naturals

CONSTANTS Session, Guard

VARIABLES reserved,    \* reserved[s]: the guards whose on_reserve accepted s
          established, \* the guards that were told on_established of s
          closes       \* closes[s][g]: calls of on_close for s on guard g

vars == <<reserved, established, closes>>

Init ==
  /\ reserved = [s \in Session |-> {}]
  /\ established = [s \in Session |-> {}]
  /\ closes = [s \in Session |-> [g \in Guard |-> 0]]

OnReserve(s, g) ==
  /\ g \notin reserved[s]
  /\ reserved' = [reserved EXCEPT ![s] = @ \cup {g}]
  /\ UNCHANGED <<established, closes>>

OnEstablished(s, g) ==
  /\ g \in reserved[s] \ established[s]
  /\ closes[s][g] = 0
  /\ established' = [established EXCEPT ![s] = @ \cup {g}]
  /\ UNCHANGED <<reserved, closes>>

OnClose(s, g) ==
  /\ g \in reserved[s]
  /\ closes[s][g] = 0
  /\ closes' = [closes EXCEPT ![s][g] = 1]
  /\ UNCHANGED <<reserved, established>>

Next == \E s \in Session, g \in Guard :
          OnReserve(s, g) \/ OnEstablished(s, g) \/ OnClose(s, g)

Spec == Init /\ [][Next]_vars
=============================================================================
