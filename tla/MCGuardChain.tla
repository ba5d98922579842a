---------------------------- MODULE MCGuardChain ----------------------------
\* Instances of GuardChain: three connections of an address each.  There is
\* room to track two of them, in the rate limiter as in SlowLoris, which are
\* configured in turn: each with time, so that together they would be too many.
\*
\* The histories tell what happened apart from what the guards keep.
EXTENDS GuardChain

CONSTANTS a1, a2, a3

MCCaller == {a1, a2, a3}
MCIpOf == [c \in MCCaller |-> c]
MCConfigured == {{"rate_limiter"}, {"slow_loris"}}
Symmetry == Permutations(MCCaller)

VARIABLES
  passes,  \* passes[age]: the requests let through the window that long ago
  silence, \* silence[c]: ticks since a reserved or reported activity
  evicted, \* connections that SlowLoris evicted since then
  before   \* pairs of open connections: the first was last noted before the second

histories == <<passes, silence, evicted, before>>
hchain == <<chain, histories>>

HInit ==
  /\ ChainInit
  /\ passes = [age \in 0..Window |-> 0]
  /\ silence = [c \in Caller |-> 0] /\ evicted = {} /\ before = {}

Entering == \E c \in Caller : at[c] = "idle" /\ at'[c] = "passed"
Noted == {c \in Caller : /\ c \in DOMAIN activity'
                         /\ c \in DOMAIN activity => activity'[c].seq # activity[c].seq}
Evicted == {c \in DOMAIN activity : c \notin DOMAIN activity' /\ hook'[c] # "closed"}

\* The requests that passed the window in as long as it, numbered for each age.
Recent == UNION {{age} \X (1..passes[age]) : age \in 0..Window}

HTime ==
  /\ PassTime
  /\ passes' = [age \in 0..Window |-> IF age = 0 THEN 0 ELSE passes[age - 1]]
  /\ silence' = [c \in Caller |-> IF hook[c] = "closed" THEN 0 ELSE Loris!Older(silence[c])]
  /\ UNCHANGED <<evicted, before>>

HStep ==
  /\ \E c \in Caller : Steps(c)
  /\ passes' = IF Entering THEN [passes EXCEPT ![0] = @ + 1] ELSE passes
  /\ silence' = [c \in Caller |-> IF c \in Noted \/ hook'[c] = "closed" THEN 0 ELSE silence[c]]
  /\ evicted' = {c \in (evicted \ Noted) \cup Evicted : hook'[c] # "closed"}
  /\ before' = {p \in Caller \X Caller :
                  /\ hook'[p[1]] # "closed" /\ hook'[p[2]] # "closed"
                  /\ p[1] \notin Noted /\ (p[2] \in Noted \/ p \in before)}

HNext == HTime \/ HStep
HSpec == HInit /\ [][HNext]_hchain

-----------------------------------------------------------------------------
\* No stretch of time as long as the window has more than global_window_limit
\* requests that passed it, however calls overlap with the passing of time.
WindowHolds == Cardinality(Recent) <= WindowLimit

\* A request is refused only when a limit is really used up at that moment:
\* the window by requests no older than it, or one of the two buckets.  An
\* address that is not tracked is refused by no bucket of its own.
LimitedOnlyWhenSpent ==
  [][\A c \in Caller : at'[c] = "limited" =>
       /\ at[c] = "idle" => Cardinality(Recent) = WindowLimit
       /\ at[c] = "passed" => \/ Used + Token > GlobalCapacity * Token
                              \/ UsedBy(IpOf[c]) + Token > PerIpCapacity * Token]_hchain

\* The rate limiter and SlowLoris keep their bounded maps and queues in step:
\* see TrackingExact in RateLimiter and in SlowLoris.
TracksExactly == TrackingExact /\ Loris!TrackingExact

\* The connection that has to make room is the one that has been without
\* activity for longest: stale mentions in the queue never point at a
\* connection that has been active since.
EvictsLeastRecent ==
  [][\A v \in Evicted, c \in DOMAIN activity : <<c, v>> \notin before]_hchain

\* A connection is timed out only if it has really been silent for longer than
\* idle_timeout and grace_period, whatever the others do between the look at
\* its entry and the measurement; and one that has been silent for longer is
\* timed out when it becomes active again, unless it was evicted.
TimeoutsJustified ==
  [][\A c \in Caller : hook[c] = "judging" =>
       /\ hook'[c] = "failed" => silence[c] > MaxIdle
       /\ hook'[c] = "noting" /\ silence[c] > MaxIdle => c \in evicted]_hchain
=============================================================================
