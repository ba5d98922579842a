------------------------------ MODULE Throttle ------------------------------
(***************************************************************************)
(* guard/throttle.rs: the concurrent-connection limiter.                   *)
(*                                                                         *)
(* `global' is an atomic counter and `per_ip' a map under a mutex, so one  *)
(* call of acquire or release is several atomic steps and the calls of     *)
(* different connections interleave between them.  Each action is one      *)
(* atomic read-modify-write or one critical section; pc[c] is the step the *)
(* call for connection c is at:                                            *)
(*                                                                         *)
(*   idle        not admitted, no call running                             *)
(*   globalTaken acquire has counted c globally, per_ip not locked yet     *)
(*   undoGlobal  acquire found the global limit exceeded, still counted    *)
(*   undoPerIp   acquire found the per-IP limit exceeded, lock still held  *)
(*   held        acquire returned Ok                                       *)
(*   releaseIp   release has uncounted c globally, per_ip not locked yet   *)
(*                                                                         *)
(* release is called once for each successful acquire: GuardStack models   *)
(* the sessions that guarantee it.                                         *)
(***************************************************************************)
EXTENDS Integers, FiniteSets, Functions

CONSTANTS Conn,       \* connections, each served by one thread or task
          Ip,         \* peer addresses
          IpOf,       \* GuardContext::peer_ip of each connection
          MaxPerIp,   \* ThrottleConfig::max_connections_per_ip
          MaxGlobal   \* ThrottleConfig::max_connections_global

ASSUME ConnAssumption == IsFiniteSet(Conn)
ASSUME IpAssumption == IpOf \in [Conn -> Ip]
ASSUME LimitAssumption == MaxPerIp \in Nat /\ MaxGlobal \in Nat

VARIABLES global,     \* Throttle::global
          perIp,      \* Throttle::per_ip, a function on the tracked addresses
          pc

vars == <<global, perIp, pc>>

Locations ==
  {"idle", "globalTaken", "undoGlobal", "undoPerIp", "held", "releaseIp"}

At(locs) == {c \in Conn : pc[c] \in locs}

-----------------------------------------------------------------------------
Init ==
  /\ global = 0
  /\ perIp = [ip \in {} |-> 0]
  /\ pc = [c \in Conn |-> "idle"]

\* The mutex is held across a step only while acquire undoes a per-IP count.
Unlocked == At({"undoPerIp"}) = {}

Count(ip) == IF ip \in DOMAIN perIp THEN perIp[ip] ELSE 0

Goto(c, loc) == pc' = [pc EXCEPT ![c] = loc]

\* or_insert(0) creates the entry that is then set to n.
Store(ip, n) == perIp' = [i \in DOMAIN perIp \cup {ip} |->
                            IF i = ip THEN n ELSE perIp[i]]

\* Variant: the comparison uses the value before the increment.
AcquireGlobalOld(c) ==
  /\ pc[c] = "idle"
  /\ global' = global + 1
  /\ Goto(c, IF global > MaxGlobal THEN "undoGlobal" ELSE "globalTaken")
  /\ UNCHANGED perIp

\* acquire: fetch_add and the comparison of the value it returned.
AcquireGlobal(c) ==
  /\ pc[c] = "idle"
  /\ global' = global + 1
  /\ Goto(c, IF global + 1 > MaxGlobal THEN "undoGlobal" ELSE "globalTaken")
  /\ UNCHANGED perIp

\* acquire: the global limit is exceeded; take the count back and fail.
UndoGlobal(c) ==
  /\ pc[c] = "undoGlobal"
  /\ global' = global - 1
  /\ Goto(c, "idle")
  /\ UNCHANGED perIp

\* Variant: the limit is compared with the count before c.
AcquirePerIpOld(c) ==
  /\ pc[c] = "globalTaken"
  /\ Unlocked
  /\ Count(IpOf[c]) <= MaxPerIp
  /\ Store(IpOf[c], Count(IpOf[c]) + 1)
  /\ Goto(c, "held")
  /\ UNCHANGED global

\* acquire: lock per_ip and count c; the call returns Ok.
AcquirePerIp(c) ==
  /\ pc[c] = "globalTaken"
  /\ Unlocked
  /\ Count(IpOf[c]) + 1 <= MaxPerIp
  /\ Store(IpOf[c], Count(IpOf[c]) + 1)
  /\ Goto(c, "held")
  /\ UNCHANGED global

\* Variant: the global count is taken back here and once more on return.
RejectPerIpTwice(c) ==
  /\ pc[c] = "globalTaken"
  /\ Unlocked
  /\ Count(IpOf[c]) + 1 > MaxPerIp
  /\ Store(IpOf[c], Count(IpOf[c]))
  /\ Goto(c, "undoPerIp")
  /\ global' = global - 1

\* acquire: one too many for this address.  The increment is taken back
\* under the lock, which leaves the entry or_insert created.
RejectPerIp(c) ==
  /\ pc[c] = "globalTaken"
  /\ Unlocked
  /\ Count(IpOf[c]) + 1 > MaxPerIp
  /\ Store(IpOf[c], Count(IpOf[c]))
  /\ Goto(c, "undoPerIp")
  /\ UNCHANGED global

\* Variants: the global count is not taken back; per_ip is locked again.
UndoPerIpForgets(c) ==
  /\ pc[c] = "undoPerIp"
  /\ Goto(c, "idle")
  /\ UNCHANGED <<global, perIp>>

UndoPerIpLocks(c) ==
  /\ pc[c] = "undoPerIp"
  /\ Unlocked
  /\ global' = global - 1
  /\ Goto(c, "idle")
  /\ UNCHANGED perIp

\* acquire: fetch_sub with the lock still held; returning unlocks.
UndoPerIp(c) ==
  /\ pc[c] = "undoPerIp"
  /\ global' = global - 1
  /\ Goto(c, "idle")
  /\ UNCHANGED perIp

\* release: the global count goes first.
ReleaseGlobal(c) ==
  /\ pc[c] = "held"
  /\ global' = global - 1
  /\ Goto(c, "releaseIp")
  /\ UNCHANGED perIp

\* release: lock per_ip, decrement the entry or drop the last one.
ReleasePerIp(c) ==
  /\ pc[c] = "releaseIp"
  /\ Unlocked
  /\ perIp' = IF Count(IpOf[c]) > 1
              THEN [perIp EXCEPT ![IpOf[c]] = @ - 1]
              ELSE Restrict(perIp, DOMAIN perIp \ {IpOf[c]})
  /\ Goto(c, "idle")
  /\ UNCHANGED global

Acquiring(c) == UndoGlobal(c) \/ AcquirePerIp(c) \/ RejectPerIp(c) \/ UndoPerIp(c)

Next == \E c \in Conn : \/ AcquireGlobal(c)
                        \/ Acquiring(c)
                        \/ ReleaseGlobal(c)
                        \/ ReleasePerIp(c)

\* A call that has started runs on; nobody is obliged to call or to close.
\* The per_ip mutex is a parking_lot mutex, whose eventual fairness keeps a
\* waiter from being overtaken for ever: hence SF on the steps that lock.
Fairness == \A c \in Conn :
  /\ WF_vars(UndoGlobal(c) \/ UndoPerIp(c))
  /\ SF_vars(AcquirePerIp(c) \/ RejectPerIp(c))
  /\ SF_vars(ReleasePerIp(c))

Spec == Init /\ [][Next]_vars
FairSpec == Spec /\ Fairness

-----------------------------------------------------------------------------
TypeOK ==
  /\ global \in Nat
  /\ DOMAIN perIp \subseteq Ip
  /\ perIp \in [DOMAIN perIp -> Nat]
  /\ pc \in [Conn -> Locations]

Counted == At({"globalTaken", "undoGlobal", "undoPerIp", "held"})
Tracked(ip) == {c \in At({"held", "releaseIp"}) : IpOf[c] = ip}
Admitted == At({"globalTaken", "undoPerIp", "held"})

CountsExact ==
  /\ global = Cardinality(Counted)
  /\ \A ip \in Ip : Count(ip) = Cardinality(Tracked(ip))
NoEmptyEntry == MaxPerIp > 0 => \A ip \in DOMAIN perIp : perIp[ip] > 0

\* The two counters always say what they stand for, in whatever order the
\* steps of concurrent calls fall: `global' is the number of calls that have
\* added themselves and not yet subtracted, each entry of `per_ip' the number
\* of admitted connections of its address that release has not removed yet.
\* In particular fetch_sub never wraps below zero.  And an address is in the
\* map only while it holds a connection, which bounds the map; with a limit of
\* zero that fails, since a refused address leaves the entry or_insert created.
Accounting == TypeOK /\ CountsExact /\ NoEmptyEntry

GlobalCap == Cardinality(Admitted) <= MaxGlobal
PerIpCap == \A ip \in Ip : Cardinality(Tracked(ip)) <= MaxPerIp

\* Never more than max_connections_global connections have passed the global
\* check, although the counter itself may stand above the limit while calls
\* that will be refused take their increment back; and never more than
\* max_connections_per_ip connections of one address are open, counting those
\* whose release has not reached the map.
LimitsHold == GlobalCap /\ PerIpCap

\* A connection is refused for the global limit only when that many others are
\* admitted or in the middle of a call; when no other call is running, only
\* when the limit is really reached.
Busy == At({"globalTaken", "undoGlobal", "undoPerIp"})
RefusalJustified ==
  [][\A c \in Conn : pc[c] = "idle" /\ pc'[c] = "undoGlobal" =>
       /\ Cardinality(At({"held"})) + Cardinality(Busy) >= MaxGlobal
       /\ Busy = {} => Cardinality(At({"held"})) = MaxGlobal]_vars

\* Every call of acquire or release returns: the mutex held while acquire
\* undoes a count is always given back.
CallsReturn == \A c \in Conn : pc[c] \notin {"idle", "held"} ~> pc[c] \in {"idle", "held"}

\* The throttle implements the abstract cap; a connection is held from the
\* moment acquire counts its address to the moment release starts.
Cap == INSTANCE ConnectionCap WITH held <- At({"held"})
ImplementsCap == Cap!Spec
=============================================================================
