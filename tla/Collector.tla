------------------------------ MODULE Collector ------------------------------
(***************************************************************************)
(* MetricsCollector of metrics.rs: the totals, failures and latencies, the *)
(* snapshots taken of them while they are recorded, the callbacks that get *)
(* a snapshot, and reset.  The counts of active connections are in Metrics *)
(* and left out here.                                                      *)
(*                                                                         *)
(* A call is a sequence of operations, todo[c], each one access to an      *)
(* atomic or one section under a lock, with those of other calls between   *)
(* them.  Only snapshot, which keeps both maps locked to its end, and      *)
(* trigger_callbacks, which keeps the callbacks locked while they run,     *)
(* hold a lock from one operation to the next.                             *)
(***************************************************************************)
EXTENDS Integers, Sequences, SequencesExt, FiniteSets, TLC

CONSTANTS Caller,   \* threads and tasks
          Call,     \* the calls they may make
          Server, NoServer, Ip,
          Ms,       \* latencies
          U64Max,   \* min_latency_ms before the first latency
          None,     \* nobody, nothing
          MaxCalls  \* bound on the number of calls

Counter == {"tcp", "tls", "mtls", "failed", "sum", "count", "min", "max"}
Kind == {"tcp", "tls", "mtls"}
Callback == {"reading", "asking", "registering"}

\* A call is what is asked for and with which arguments; not all have any.
CallType ==
  [op : {"record"}, kind : Kind, server : Server \cup {NoServer}, ip : Ip]
    \cup [op : {"failure"}, server : Server \cup {NoServer}, ip : Ip]
    \cup [op : {"latency"}, server : Server \cup {NoServer}, ip : Ip, ms : Ms]
    \cup [op : {"snapshot", "trigger", "reset"}]
    \cup [op : {"register"}, callback : Callback]

ASSUME CollectorAssumption ==
  /\ IsFiniteSet(Caller) /\ Call \subseteq CallType /\ NoServer \notin Server
  /\ Ms \subseteq Nat /\ U64Max \in Nat /\ \A ms \in Ms : ms < U64Max
  /\ None \notin Caller /\ MaxCalls \in Nat

VARIABLES
  counter,   \* the atomics, and min and max behind their locks
  perServer, \* per_server: name to what is recorded of it
  perIp,     \* per_ip
  callbacks, \* callbacks, in the order of their registration
  holder,    \* holder[l]: who keeps lock l from one operation to the next
  call,      \* call[c]: the call c is in, or None
  todo,      \* todo[c]: what is left of it
  seen,      \* seen[c]: what its snapshot has read so far
  made       \* history: how many calls were made, and whether one was reset

vars == <<counter, perServer, perIp, callbacks, holder, call, todo, seen, made>>

Zero == [n \in Counter |-> IF n = "min" THEN U64Max ELSE 0]
Unread == [counters |-> Zero, perServer |-> <<>>, perIp |-> <<>>]

Init ==
  /\ counter = Zero /\ perServer = <<>> /\ perIp = <<>> /\ callbacks = <<>>
  /\ holder = [l \in {"per_server", "per_ip", "callbacks"} |-> None]
  /\ call = [c \in Caller |-> None] /\ todo = [c \in Caller |-> <<>>]
  /\ seen = [c \in Caller |-> Unread]
  /\ made = [calls |-> 0, reset |-> FALSE]

-----------------------------------------------------------------------------
(* The calls as sequences of operations *)

Op(verb, thing) == <<verb, thing>>
Each(verb, things) == [i \in DOMAIN things |-> Op(verb, things[i])]

\* Variant: the atomics are read before the maps are locked.
SnapshotAtomicsFirst ==
  Each("read", <<"count", "sum", "min", "max", "tcp", "tls", "mtls", "failed",
                 "per_server", "per_ip">>) \o <<Op("unlock", "maps")>>
Snapshot ==
  Each("read", <<"per_server", "per_ip", "count", "sum", "min", "max",
                 "tcp", "tls", "mtls", "failed">>) \o <<Op("unlock", "maps")>>

\* Variant: the callbacks are run with the maps still locked.
TriggerLocked ==
  SubSeq(Snapshot, 1, Len(Snapshot) - 1) \o <<Op("lock", "callbacks"), Op("unlock", "maps")>>
Trigger == Snapshot \o <<Op("lock", "callbacks")>>

Reset == Each("clear", <<"tcp", "tls", "mtls", "failed", "sum", "count", "min", "max",
                         "per_server", "per_ip">>)

Record == Each("add", <<"total", "per_server", "per_ip">>)

RecordLatency == Each("add", <<"sum", "count", "min", "max", "per_server", "per_ip">>)

RegisterCallback == <<Op("add", "callback")>>

Program(k) ==
  CASE k.op \in {"record", "failure"} -> Record
    [] k.op = "latency"  -> RecordLatency
    [] k.op = "snapshot" -> Snapshot
    [] k.op = "trigger"  -> Trigger
    [] k.op = "reset"    -> Reset
    [] k.op = "register" -> RegisterCallback

\* What a callback does when it is run: it looks at the metrics it is given, or
\* asks the collector for newer ones, or registers another callback.
Running(callback) ==
  CASE callback = "reading"     -> <<>>
    [] callback = "asking"      -> Snapshot
    [] callback = "registering" -> RegisterCallback

Begin(c, k) ==
  /\ call[c] = None /\ made.calls < MaxCalls
  /\ call' = [call EXCEPT ![c] = k]
  /\ todo' = [todo EXCEPT ![c] = Program(k)]
  /\ made' = [calls |-> made.calls + 1, reset |-> made.reset \/ k.op = "reset"]
  /\ UNCHANGED <<counter, perServer, perIp, callbacks, holder, seen>>

Return(c) ==
  /\ call[c] # None /\ todo[c] = <<>>
  /\ call' = [call EXCEPT ![c] = None]
  /\ seen' = [seen EXCEPT ![c] = Unread]
  /\ UNCHANGED <<counter, perServer, perIp, callbacks, holder, todo, made>>

-----------------------------------------------------------------------------
(* The operations *)

Doing(c, op) == /\ todo[c] # <<>> /\ Head(todo[c]) = op
               /\ todo' = [todo EXCEPT ![c] = Tail(@)]
               /\ UNCHANGED <<call, made>>

Free(lock) == holder[lock] = None

\* The counter that the first operation of a record adds to.
Total(k) == IF k.op = "record" THEN k.kind ELSE "failed"

AddTotal(c) ==
  /\ Doing(c, Op("add", "total"))
  /\ counter' = [counter EXCEPT ![Total(call[c])] = @ + 1]
  /\ UNCHANGED <<perServer, perIp, callbacks, holder, seen>>

\* latency_sum_ms, latency_count, and min and max under locks of their own.
AddLatency(c) ==
  /\ \/ Doing(c, Op("add", "sum")) /\ counter' = [counter EXCEPT !["sum"] = @ + call[c].ms]
     \/ Doing(c, Op("add", "count")) /\ counter' = [counter EXCEPT !["count"] = @ + 1]
     \/ /\ Doing(c, Op("add", "min"))
        /\ counter' = [counter EXCEPT !["min"] = IF call[c].ms < @ THEN call[c].ms ELSE @]
     \/ /\ Doing(c, Op("add", "max"))
        /\ counter' = [counter EXCEPT !["max"] = IF call[c].ms > @ THEN call[c].ms ELSE @]
  /\ UNCHANGED <<perServer, perIp, callbacks, holder, seen>>

Entry(conns, failures) == [conns |-> conns, failures |-> failures, sum |-> 0, count |-> 0]

\* Variant: the failure that opens an entry is not counted.
AddedUncounted(m, key, k) ==
  CASE k.op = "record" /\ key \in DOMAIN m     -> [m EXCEPT ![key].conns = @ + 1]
    [] k.op = "record" /\ key \notin DOMAIN m  -> (key :> Entry(1, 0)) @@ m
    [] k.op = "failure" /\ key \in DOMAIN m    -> [m EXCEPT ![key].failures = @ + 1]
    [] k.op = "failure" /\ key \notin DOMAIN m -> (key :> Entry(0, 0)) @@ m
    [] k.op = "latency" /\ key \in DOMAIN m    ->
         [m EXCEPT ![key].sum = @ + k.ms, ![key].count = @ + 1]
    [] OTHER -> m
\* A record or a failure opens the entry of a key, a latency does not.
Added(m, key, k) ==
  CASE k.op = "record" /\ key \in DOMAIN m     -> [m EXCEPT ![key].conns = @ + 1]
    [] k.op = "record" /\ key \notin DOMAIN m  -> (key :> Entry(1, 0)) @@ m
    [] k.op = "failure" /\ key \in DOMAIN m    -> [m EXCEPT ![key].failures = @ + 1]
    [] k.op = "failure" /\ key \notin DOMAIN m -> (key :> Entry(0, 1)) @@ m
    [] k.op = "latency" /\ key \in DOMAIN m    ->
         [m EXCEPT ![key].sum = @ + k.ms, ![key].count = @ + 1]
    [] OTHER -> m

AddPerServer(c) ==
  /\ Doing(c, Op("add", "per_server"))
  /\ call[c].server # NoServer => Free("per_server")
  /\ perServer' = (IF call[c].server = NoServer THEN perServer
                   ELSE Added(perServer, call[c].server, call[c]))
  /\ UNCHANGED <<counter, perIp, callbacks, holder, seen>>

AddPerIp(c) ==
  /\ Doing(c, Op("add", "per_ip")) /\ Free("per_ip")
  /\ perIp' = Added(perIp, call[c].ip, call[c])
  /\ UNCHANGED <<counter, perServer, callbacks, holder, seen>>

\* snapshot: the maps are copied and stay locked.
ReadMap(c) ==
  /\ \/ /\ Doing(c, Op("read", "per_server")) /\ Free("per_server")
        /\ holder' = [holder EXCEPT !["per_server"] = c]
        /\ seen' = [seen EXCEPT ![c].perServer = perServer]
     \/ /\ Doing(c, Op("read", "per_ip")) /\ Free("per_ip")
        /\ holder' = [holder EXCEPT !["per_ip"] = c]
        /\ seen' = [seen EXCEPT ![c].perIp = perIp]
  /\ UNCHANGED <<counter, perServer, perIp, callbacks>>

\* Of the sum only if the count read before is not zero.
ReadCounter(c) ==
  /\ \E n \in Counter :
       /\ Doing(c, Op("read", n))
       /\ seen' = IF n = "sum" /\ seen[c].counters["count"] = 0 THEN seen
                  ELSE [seen EXCEPT ![c].counters[n] = counter[n]]
  /\ UNCHANGED <<counter, perServer, perIp, callbacks, holder>>

UnlockMaps(c) ==
  /\ Doing(c, Op("unlock", "maps"))
  /\ holder' = [holder EXCEPT !["per_server"] = None, !["per_ip"] = None]
  /\ UNCHANGED <<counter, perServer, perIp, callbacks, seen>>

Clear(c) ==
  /\ \/ /\ \E n \in Counter : Doing(c, Op("clear", n)) /\ counter' = [counter EXCEPT ![n] = Zero[n]]
        /\ UNCHANGED <<perServer, perIp>>
     \/ /\ Doing(c, Op("clear", "per_server")) /\ Free("per_server") /\ perServer' = <<>>
        /\ UNCHANGED <<counter, perIp>>
     \/ /\ Doing(c, Op("clear", "per_ip")) /\ Free("per_ip") /\ perIp' = <<>>
        /\ UNCHANGED <<counter, perServer>>
  /\ UNCHANGED <<callbacks, holder, seen>>

\* parking_lot's mutex is not reentrant: a callback that registers waits for
\* the thread that runs it.
Register(c) ==
  /\ Doing(c, Op("add", "callback")) /\ Free("callbacks")
  /\ callbacks' = Append(callbacks, call[c].callback)
  /\ UNCHANGED <<counter, perServer, perIp, holder, seen>>

\* trigger_callbacks has its snapshot and runs the callbacks there are, one by
\* one, with the lock on them held.
LockCallbacks(c) ==
  /\ todo[c] # <<>> /\ Head(todo[c]) = Op("lock", "callbacks") /\ Free("callbacks")
  /\ todo' = [todo EXCEPT ![c] = FlattenSeq([i \in DOMAIN callbacks |-> Running(callbacks[i])])
                                   \o Tail(@) \o <<Op("unlock", "callbacks")>>]
  /\ holder' = [holder EXCEPT !["callbacks"] = c]
  /\ UNCHANGED <<counter, perServer, perIp, callbacks, call, seen, made>>

UnlockCallbacks(c) ==
  /\ Doing(c, Op("unlock", "callbacks"))
  /\ holder' = [holder EXCEPT !["callbacks"] = None]
  /\ UNCHANGED <<counter, perServer, perIp, callbacks, seen>>
-----------------------------------------------------------------------------
Operations(c) == \/ AddTotal(c) \/ AddLatency(c) \/ AddPerServer(c) \/ AddPerIp(c)
                 \/ ReadMap(c) \/ ReadCounter(c) \/ UnlockMaps(c) \/ Clear(c)
                 \/ Register(c) \/ LockCallbacks(c) \/ UnlockCallbacks(c) \/ Return(c)

Next == \E c \in Caller : Operations(c) \/ \E k \in Call : Begin(c, k)

Spec == Init /\ [][Next]_vars

\* Threads run, and the locks, which calls hold for a bounded time unless a
\* callback never returns, reach those that wait.
FairSpec == Spec /\ \A c \in Caller : WF_vars(Operations(c))

-----------------------------------------------------------------------------
TypeOK ==
  /\ counter \in [Counter -> Nat] /\ callbacks \in Seq(Callback)
  /\ DOMAIN perServer \subseteq Server /\ DOMAIN perIp \subseteq Ip
  /\ \A l \in DOMAIN holder : holder[l] \in Caller \cup {None}
  /\ call \in [Caller -> Call \cup {None}]

SumOf(m, field) == FoldFunction(+, 0, [key \in DOMAIN m |-> m[key][field]])
Connections(n) == n["tcp"] + n["tls"] + n["mtls"]

\* Every connection and failure is of a server.
Named == \A k \in Call : k.op \in {"record", "failure"} => k.server # NoServer

\* A snapshot is not of one moment, but its parts fit: it shows no more
\* connections, failures and latencies for the servers than in total, and for
\* the addresses no more connections and failures than for the servers,
\* although calls are between their updates of the three while it reads.
\* (Not across a reset, which clears the totals first.)
SnapshotFits ==
  \A c \in Caller :
    LET s == seen[c] IN
    todo[c] # <<>> /\ Head(todo[c]) = Op("unlock", "maps") /\ ~made.reset =>
      /\ \A m \in {s.perServer, s.perIp} :
           /\ SumOf(m, "conns") <= Connections(s.counters)
           /\ SumOf(m, "failures") <= s.counters["failed"]
      /\ SumOf(s.perServer, "count") <= s.counters["count"]
      /\ SumOf(s.perServer, "sum") <= s.counters["sum"]
      /\ Named => \A field \in {"conns", "failures"} :
                   SumOf(s.perIp, field) <= SumOf(s.perServer, field)

\* When no call is under way every connection and failure is counted in total,
\* for its address and for its server, if it has one, and the mean latency is
\* between the least and the greatest.
QuietExact ==
  /\ TypeOK
  /\ (\A c \in Caller : call[c] = None) /\ ~made.reset =>
       /\ SumOf(perIp, "conns") = Connections(counter)
       /\ SumOf(perIp, "failures") = counter["failed"]
       /\ Named => /\ SumOf(perServer, "conns") = Connections(counter)
                   /\ SumOf(perServer, "failures") = counter["failed"]
       /\ counter["count"] > 0 =>
            /\ counter["min"] * counter["count"] <= counter["sum"]
            /\ counter["sum"] <= counter["max"] * counter["count"]

\* A callback that registers another: it waits for itself.
Stuck(c) == /\ holder["callbacks"] = c
            /\ todo[c] # <<>> /\ Head(todo[c]) = Op("add", "callback")

\* Every call returns, whatever locks the others hold and although a callback
\* may ask for a snapshot itself, unless a callback registers another.
CallsReturn ==
  \A c \in Caller : call[c] # None ~> call[c] = None \/ \E d \in Caller : Stuck(d)
=============================================================================
