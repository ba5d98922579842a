----------------------------- MODULE GuardChain -----------------------------
(***************************************************************************)
(* The stack of guards that a server builds from its configuration         *)
(* (build_guard_stack in server/mod.rs): the rate limiter is asked first,  *)
(* then the guards with a state for each connection, of which SlowLoris    *)
(* stands here for all.  Each of the two is there or not.  The IpBan that  *)
(* the server puts between them is built with an empty set and nobody else *)
(* has it: it accepts everybody and keeps no state, and is left out.       *)
(*                                                                         *)
(* reserve asks them in turn, and what happens meanwhile is up to the      *)
(* others: time, and reserves and sessions of other connections.  None of  *)
(* these guards undoes anything in on_close when a later one refuses, and  *)
(* SlowLoris, the last, accepts always: nothing is rolled back.            *)
(*                                                                         *)
(* An address on the allowlist is let in before any guard is asked, and no *)
(* guard hears of its connection (GuardStack): it changes nothing here.    *)
(***************************************************************************)
EXTENDS RateLimiter

CONSTANTS Configured,               \* the sets of guards that may be configured
          MaxIdle, MaxConnections,  \* of SlowLoris: its limit of idleness and of
          OrderFactor, OrderFloor   \* tracked connections, its queue

ASSUME ChainAssumption ==
  /\ Configured \subseteq SUBSET {"rate_limiter", "slow_loris"}
  /\ MaxIdle \in Nat /\ MaxConnections \in Nat
  /\ OrderFactor \in Nat \ {0} /\ OrderFloor \in Nat \ {0}

VARIABLES
  guards,   \* the guards that are configured
  next,     \* next[c]: the guard that is asked next, counted from 1; past the
            \* last one the session is open
  activity, mentions, hook, found \* of SlowLoris: map, order, call and found

rate  == <<window, bucket, perIp, order, at>>
loris == <<activity, mentions, hook, found>>
chain == <<rate, loris, guards, next>>

Loris == INSTANCE SlowLoris WITH
  Addr <- Caller, MaxTracked <- MaxConnections,
  map <- activity, order <- mentions, call <- hook

\* The guards in the order in which they are pushed.
Pushed(guard) == IF guard \in guards THEN <<guard>> ELSE <<>>
Stack == Pushed("rate_limiter") \o Pushed("slow_loris")

ChainInit ==
  /\ Init /\ Loris!Init
  /\ guards \in Configured /\ next = [c \in Caller |-> 1]

Asks(c, guard) == next[c] \in DOMAIN Stack /\ Stack[next[c]] = guard
InSession(c) == next[c] > Len(Stack)

\* The guard accepts, and the next one is asked; or reserve returns its error.
Accepted(c) == next' = [next EXCEPT ![c] = @ + 1]
Refused(c)  == next' = [next EXCEPT ![c] = 1]

-----------------------------------------------------------------------------
(* reserve *)

AskRateLimiter(c) ==
  /\ Asks(c, "rate_limiter")
  /\ Asking(c)
  /\ CASE at'[c] # "idle"   -> UNCHANGED next
       [] at[c] = "granted" -> Accepted(c)
       [] at[c] = "limited" -> Refused(c)
  /\ UNCHANGED <<loris, guards>>

AskSlowLoris(c) ==
  /\ Asks(c, "slow_loris")
  /\ Loris!OnReserve(c)
  /\ Accepted(c)
  /\ UNCHANGED <<rate, guards>>

-----------------------------------------------------------------------------
(* The session *)

\* Of the two only SlowLoris has hooks for activity and payload.
Report(c) ==
  /\ InSession(c) /\ "slow_loris" \in guards
  /\ \/ Loris!CheckIdle(c) \/ Loris!StillActive(c) \/ Loris!TimedOut(c)
     \/ Loris!NoteActivity(c) \/ Loris!Touched(c) \/ Loris!OnPayload(c)
  /\ UNCHANGED <<rate, guards, next>>

CloseSession(c) ==
  /\ InSession(c)
  /\ IF "slow_loris" \in guards THEN Loris!OnClose(c) ELSE UNCHANGED loris
  /\ Refused(c)
  /\ UNCHANGED <<rate, guards>>

-----------------------------------------------------------------------------
(* The clock *)

PassTime ==
  /\ Tick /\ Loris!Tick
  /\ UNCHANGED <<guards, next>>

Steps(c) == \/ AskRateLimiter(c) \/ AskSlowLoris(c)
            \/ Report(c) \/ CloseSession(c)

ChainNext == \/ PassTime
             \/ \E c \in Caller : Steps(c)

ChainSpec == ChainInit /\ [][ChainNext]_chain
=============================================================================
