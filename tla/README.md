# A verification project for synclaire

synclaire is a Rust crate for TCP/TLS servers and proxies: an asynchronous
(tokio) and a synchronous (thread pool) server, a stack of connection guards, a
layer-4 proxy with load balancing and routing, and metrics. This directory holds
TLA+ modules of its core, TLC configurations that check them on small instances,
and proofs that TLAPS checks for every value of the constants.

Paths below are those of the repository; `guard/throttle.rs` is
`src/guard/throttle.rs` in it. `PROJECT.json` is the index: components, runs,
the map from definitions to source lines, findings, hazards and theorems.

## 1. Inventory

| component | state | operations | who else is involved | hard because |
|---|---|---|---|---|
| Throttle `guard/throttle.rs` | atomic `global`, `per_ip` map under a mutex | acquire, release | the guard stack, one thread or task per connection | two counters, several atomic steps per call, an undo path |
| SynGuard `guard/syn_guard.rs` | `total_half_open`, per-address counts, an order queue, clocks, the set of established peers, under one mutex | reserve, establish, close, on_activity | the guard stack | eviction while the evicted connections live on; a queue with stale mentions; ports used again |
| SlowLoris `guard/slow_loris.rs` | last activity per address in a bounded map, an order queue | note, check_idle, remove | the guard stack's activity reports | two lock sections per report, the clock read twice |
| RateLimiter `guard/rate_limiter.rs` | a bucket, a window, a bounded map of per-address buckets | allow | the guard stack | stages without refund; eviction forgets debt |
| IpBan `guard/ip_ban.rs` | a set under a lock | ban, unban, on_reserve | the guard stack; an embedder that builds its own | little: each operation is one access under the lock; a server's own has an empty set for ever |
| UDP amplification guard `guard/mod.rs` | none | a predicate on each payload that a session records | the guard stack | nothing: stateless |
| Guard stack `guard/stack.rs` | the guards, the allowlist; per session `closed`, `allowed` | reserve, mark_established, record_payload, touch, close, allow, remove | servers, proxies, `Connection` | rollback, double close by two drops, allowlist changes |
| Connection `handler.rs` | the stream and the session | read, write, into_stream, drop | handlers | ownership decides when a session closes |
| Synchronous server `server/sync_server.rs` | `active_connections`, the job queue, worker threads, the stop flag | accept loop, execute, worker loop, peek, shutdown | guard stack, TLS, handlers, clients | panics, accept errors, drain at shutdown, clients that wait, a handshake that comes after the handler's start |
| Asynchronous server `server/async_server.rs` | semaphore, watch channel, one task per connection | accept loop, spawn, timeout, shutdown | guard stack, handlers, tokio | futures dropped at any await, refusals after the permit, dropped handles |
| Load balancer `load_balancer.rs` | backends, ring, round-robin counter | add, remove, select | proxy | counter and length change apart; a ring product that can overflow |
| Routing `routing.rs` | named groups, a list of rules, a default | add, prepend, set_default, resolve | proxy | first match; prefixes; changes while peers are routed |
| Metrics `metrics.rs` | counters, two maps and the callbacks under a lock each | record_*, snapshot, reset, register, trigger | proxies, the embedder | piecewise records, reset and snapshot; callbacks under a lock |
| Proxy `proxy.rs` | per connection only | accept loops, authentication, relay | guards, balancer, routing, metrics | half-close, order of connect and authentication, panics |
| TLS `tls/`, `config.rs` | none between calls | build a configuration, accept, connect | servers, clients | what is asked of whom depends on several fields |
| Client `client/` | one connection each | connect | servers | who speaks first; what it shows and checks |
| Connection filter, errors, socket options | none | - | - | - |

Who calls whom: a server accepts a socket, takes its permit, asks the guard
stack to *reserve*, negotiates TLS, calls *mark_established*, attaches the
session to a `Connection` and gives that to the handler. "Negotiates" is exact of
the asynchronous server only: the synchronous one wraps the stream, and the
handshake runs in the handler's first read or write. Reads and writes of the
handler report to the guards. Dropping the `Connection` closes the session. The
synchronous server does everything after the permit on a worker thread; the
asynchronous server reserves in the accept loop and does the rest in a task
under `connection_timeout`.

What makes each part correct is stated in section 3 with the module that states
it; what can go wrong in each is the list of hazards in `PROJECT.json`.

## 2. Plan

Modules in the order of the system's weight. Those marked * exist.

1. * `ConnectionCap`, `Throttle`, `ThrottleProofs` - the concurrent limiter and its proof
2. * `SynGuard`, `SynGuardProofs` - half-open accounting with eviction
3. * `GuardContract`, `GuardStack`, `GuardStackProofs` - the lifecycle that Throttle and SynGuard rely on
4. * `GracefulServer`, `SyncServer`, `SyncServerProofs`, `AsyncServer`,
   `AsyncServerProofs` - both servers against one promise
5. * `SlowLoris`; `TokenMeter`, `RateLimiter` - the remaining guards with state: a
   report racing an eviction; windows and buckets against an abstract meter
6. * `BackendPool`, `Routing`, `Dispatch`, `DispatchProofs` - both strategies under
   add and remove, the rules of the table, and what the two together do with a peer
7. * `Metrics`, `Proxy`, `ProxyProofs` - both proxies' connections from the accept to
   the end, over the active counts that they keep
8. * `GuardChain`, `GuardChainProofs` - the stack that servers build: the rate limiter
   and then the guards with a state for each connection
9. * `Collector` - all of the metrics collector's operations, with callers that overlap
10. * `Tls`, within `SyncServer` - what a configuration asks of whom, and the
   connection of which the server cannot tell whether it is TLS
11. `Proxy`: the data from the backend; the asynchronous server's handshake as an
   exchange with the same clients

Compositions: `GuardStack` is stated over guards that refuse at any time but
respect a cap, which is what `ConnectionCap` promises and `Throttle`
implements; `GuardChain` composes two of the guards themselves, `RateLimiter`
and `SlowLoris`, in the order in which servers push them. The
servers and proxies treat the guard stack as the outcomes of
`reserve` and `mark_established`. `SyncServer` composes the accept loop and the
workers with `Tls`. `Dispatch` composes `Routing` and `BackendPool`;
`Proxy` composes a connection's life with `Metrics` and takes `Dispatch` as the
three outcomes a backend, a rejection, an empty pool.

## 3. The modules

In every module a comment names the code each action stands for, `PROJECT.json`
gives the lines. Operators whose comment begins with *Variant* are mistakes one
could plausibly make in the code they stand beside (a dropped guard, a missing
undo, a comparison with the old value); no specification uses them. They say for
each property which mistake it would notice.

### Throttle (guard/throttle.rs)

`acquire` is `fetch_add`, a comparison, a lock, an insertion and possibly two
undo steps; `release` is `fetch_sub`, then a lock. The model has one action per
atomic operation or critical section and a `pc` per connection, so that calls
overlap in every way. The mutex is held across a step only in `undoPerIp`
(`fetch_sub` with the guard alive), which is how `Unlocked` is defined.
`Relaxed` atomics on one location have a single modification order and nothing
else is published through them, so interleaving is an exact account.

Properties: `Accounting` (both counters are exact in every intermediate state
and the map holds no empty entry), `LimitsHold` (both caps), `RefusalJustified`
(who may be refused when), `CallsReturn`, and `ImplementsCap`: a refinement of
`ConnectionCap`, in which a connection is held from the moment its address is
counted until release starts.

### SynGuard (guard/syn_guard.rs)

Every hook holds the one mutex from its first to its last line, so a hook is an
action and the methods are functions from one `HalfOpenState` to the next.
`Instant` is abstracted to whether `syn_timeout` has passed. The threshold of
the queue's compaction is kept as `max(OrderFactor * MaxTracked, OrderFloor)`
with the code's 4 and 16 as constants, so that small instances cross it.
Eviction, with `VecDeque::pop_front` until a tracked address is found, is
`EvictOldest`; `Compacted` is the loop that keeps the first mention of each tracked
address, a recursive function over the positions of the queue.

`CountsFaithful` (the counts never exceed the truth, and the established peers are
exactly those) and `TrackingBounded` hold with eviction;
`ExactUntilEviction` says that the limits are real limits as long as no eviction
is needed, and therefore has a history variable. `OnlyEvictionUncounts` is about what
comes after one: the code's `establish` and `close` look at the address alone, so that
those of a connection that was evicted take the count of a later connection of its
address, or only of the total. That does happen; what the property says is that
it costs one for one. The half-open connections that go uncounted, of an address and
in all, become more by evictions only, and by no more than were counted of the address
that is evicted. The properties assume that an address
with its port belongs to one open connection at a time (`DistinctAddrs`).

### GuardStack (guard/stack.rs, handler.rs)

One step per call of a guard's hook, so that loops over guards of different
connections interleave, and the allowlist changes between any two steps. A guard
may refuse at any time; guard g never has more than `Cap[g]` reservations.
`conn[s]` is the control state of a connection, `told[s]` what the guards have
been told about it, with the number of times `on_close` was called.
`DropConnection` stands for a handler that returned, panicked or was cancelled:
all run `Connection::drop` and then the drop of the session in it, which is why
two calls of `close` follow; a session that never reached a `Connection` is
dropped once. `KeepsContract` is the refinement of `GuardContract`, the protocol
Throttle and SynGuard rely on.

### SyncServer, AsyncServer (server/*.rs)

Both refine `GracefulServer`: at most `max_connections` open, none taken on
after the server turns to shutdown, `Ok` only with none open.

`SyncServer` has the accepting thread (`server`), the mpsc channel (`queue`), the
workers, and `active_connections`. fetch_add, comparison and the undo are one
action: only the accepting thread adds or compares, and a worker's decrement in
between commutes. `Panic` is a handler's panic: unwinding drops the connection
and kills the thread, and the last thread's death drops the receiver with the
queued jobs. `ThreadPool::drop` joins the workers, also after an error.

A worker's job (`handle_sync_connection`) is `Reserve`, `Negotiate`, the handler, and
`Finish`. `config` is the part of a `ServerConfig` that decides its course, chosen at
the start, and `link[w]` what is known of the transport: whether it is TLS, which
client is at the other end, and whether data was exchanged. In Mixed mode
`Negotiate` is the peek at the first byte, which a client that sends nothing keeps
waiting until the read times out (`Reject`). `accept_sync` only wraps the stream, so
that `Exchange`, a step of the handler, is where the handshake succeeds.
`Tls` has the two configurations as records: `ServerConfigBuilds` and
`ClientAuth` for the one side, `ClientCertificate` and `ClientRoots` for the other, and
`Completes` for the handshake, in which rustls verifies chains as it is told to. A
certificate is who signed it and for which name.

`JobsAccounted`: `active_connections` counts each connection from before its job is
sent until its handler has ended, and each is in one place, queue or worker.
`DataOnlyTrusted`: although the handler is called before the handshake, it exchanges
data only with a client that the configuration trusts and that trusts it.
`AcceptedIsClosed`, `ShutdownReturnsUnlessPanic` and `IsGraceful` are the promises of
shutdown.

`AsyncServer` has the accept loop between its awaits, the semaphore, and tasks.
`End` stands for completion, failure, panic and the timeout: each drops the
future with its session first and releases the permit after. `SignalChanged`
covers a sent `true` and a dropped handle, as the code does.

### SlowLoris (guard/slow_loris.rs)

Each lock section of `BoundedActivityMap` is an action, so that `on_activity` is
`CheckIdle`, the comparison outside the lock (`StillActive` or `TimedOut`) and
`NoteActivity`, with calls of other connections and time between them. An
`Instant` is an age that stops at `MaxIdle + 1`. Sequence numbers are only ever
compared for equality, so `NextSeq` takes one that is not in use instead of
counting to 2^64. A payload that is recorded runs through `Touched` to
`OnPayload`, the second note.

`TrackingExact`: the map is bounded and holds open connections only, each entry
has exactly one live mention in the queue and the queue is bounded.
`EvictsLeastRecent`: an eviction takes the connection whose last report is the
oldest, whatever stale mentions the queue holds. `TimeoutsJustified`: who is
timed out had been idle longer than allowed since a report of its own. The last two are
stated over histories of `MCGuardChain`: `silence`, `evicted`, and `before`, the pairs of
open connections of which the first was last noted before the second. All three are
checked in `GuardChain` and proved in `GuardChainProofs`.

### RateLimiter (guard/rate_limiter.rs) and TokenMeter

`allow` is two actions, as it holds the window's lock and then both bucket locks.
Ages stop at `Horizon`; a token is `Token` fractions so that a tick refills
whole numbers (the code's f64 rounding is left out). `Done` returns the
caller, which may ask again.

`Within` is the loop that pops the front of the window: as far as the first request
that is young enough. `WindowHolds`: no stretch of time as long as the window lets
more requests in than its limit, by a history of the entries that does not depend on
the pruned queue (`passes`, which counts them by age; `Recent` is the set of them).
`LimitedOnlyWhenSpent`: each refusal has its reason. `ImplementsMeter`: the buckets
are leaking meters (what a caller has used drains with time and never exceeds the
capacity), except that an evicted address starts anew. They are checked in
`GuardChain` and proved in `GuardChainProofs`.

### GuardChain (server/mod.rs, guard/stack.rs)

`build_guard_stack` pushes the guards that the configuration names, the rate limiter
first. The module extends `RateLimiter`, has `SlowLoris` as an instance over
variables of its own, and takes each connection through the
stack with `next`: the guard that is asked next. Between any two steps others
reserve, report and close, and time passes for all. None of
these guards has anything to undo when a later one refuses, so that there is no
rollback here (that is GuardStack's subject). `Configured` lists the sets of guards an
instance looks at.

Two things that `reserve` does are left out as they change nothing in it. `IpBan`
stands between the two, but `build_guard_stack` moves it into the builder with an empty
set and keeps no other handle: it accepts everybody. And an address on the allowlist is
let in before any guard is asked, and no guard ever hears of its connection
(`AllowedUntouched` of GuardStack).

`TracksExactly` is the `TrackingExact` of both parts.

### BackendPool, Routing, Dispatch (load_balancer.rs, routing.rs)

Both structures are behind one RwLock, so an operation is an action. The hash is
any injective function of a node and of a key onto a small ring. An address is
a number of `AddressBits` bits, and `PrefixContains` compares leading bits as the
mask does; both families are treated alike in the code, so that one suffices.
The counter wraps at `CounterMod`, 2^64 in the code.

`ChoiceValid`: what the table and the pool give a peer is in the pool as it is
now. `RoundRobinFair`: while the pool stands, as many calls as it has members
give each a turn (a wrap of the counter is excepted; with a length that does not
divide 2^64 it may repeat one). `StableDispatch`: a change moves only the peers
that the added or removed rule, group or backend is about.

### Metrics, Proxy (metrics.rs, proxy.rs)

Every call of the collector visits three structures, one atomic or lock at a
time: `active`, `per_server`, `per_ip`. `Metrics` gives each visit as an operator
of the part; `Proxy` takes a connection through them with `part`. What only ever
grows and is only read by `snapshot` is in `Collector`.

`Proxy` models both servers; `mode` is chosen at the start. The accept loop admits
one connection at a time (`Accept` needs an empty `Admitting`), a rejection by
the table, `reserve` or `mark_established` records a failure, an empty pool
nothing. The two differ where the code does: the thread authenticates before
it connects, the task after; the thread's reads and writes time out one by one,
the task as a whole; the thread's relay is two threads, whose `thread::spawn` may
panic, the task's ends in both directions on an error. The accept loop of the
threaded proxy calls `thread::spawn` too, and its panic ends `run`
(`SpawnEndsLoop`): nothing is accepted any more, and what is under way goes on.
Data from the client is a
sequence of `Sends` items and a read takes any number of them. The first `HeaderLen` are
the header, if the client sends one, and the last `EndLen` of those its end, the blank
line's four bytes. So a read may end within the header or within its end, or run past it
into the payload. `SearchFrom` is where the loop looks for the end after a read: it goes
back over what the read may have cut. `HeaderLimit` is the 64 KiB after
which an unfinished header is refused. When a connection's future or thread ends
its data is dropped, and the model forgets it.

`AuthInEffect`: a backend receives bytes only from a client whose credentials an
auth that was in effect since its accept admits. `RelayInOrder`: what a backend
received, with what is in the buffer, is what was read of the client's payload,
without gap or reordering; and no proxy goes on waiting for a header that it has read
whole, however the reads cut it. `ActiveCounted`: the three active counts are exact in
every intermediate state, too low at most after a reset, and never too high but
by connections whose thread panicked or never started, which stay counted.
`ConnectionsEnd`: a connection that was recorded ends, with its session closed.

### Collector (metrics.rs)

A call of the collector is a program: the steps that `Record`, `RecordLatency`,
`Snapshot`, `Reset`, `RegisterCallback` and `Trigger` list, each an atomic operation or
what happens under a lock, and a caller takes them one by one while others do the
same. A snapshot holds the locks of both maps from reading them to its end, and
`trigger_callbacks` the lock on the callbacks while they run. A callback may read a
snapshot of its own or register another.

`SnapshotFits`: without a reset, what a snapshot says for servers and for addresses
is no more than it says in total, since it reads the totals last and records add to
them first. `QuietExact`: when no call is under way and none reset them, totals, servers and
addresses agree, and the mean latency is between the extremes. `CallsReturn`: every call returns,
unless a callback that runs registers a callback.

## 4. Runs and bounds

| run | instance | shows |
|---|---|---|
| throttle | 5 connections, 3 of one address and 2 alone, limits 2 and 3 | all of Throttle's properties; both limits bind, all pairs of calls overlap |
| syn_guard | 4 connections, 2 of one address and 2 alone, room to track 2 addresses, limits 2 and 3, queue threshold 4 | counts that never exceed the truth, exact until eviction, and short of it by no more than evictions dropped; late establishes and closes; compaction |
| syn_guard_timeout (violation) | the same connections, room for all addresses | section 6 |
| guard_stack | 2 connections of different addresses, 3 guards, the first with room for one | refusals first, in the middle and last; allowlist changes; all ends, `into_stream` included |
| guard_stack_into_stream (violation) | as guard_stack | section 6 |
| sync_server | 3 connections, limit 2; mutual TLS or Mixed mode with 2 workers, plain TCP with 1; 6 kinds of client; panics and accept errors | limit, queue, drain, shutdown; nothing lost, nothing served twice, data only with the trusted, Ok only when closed |
| sync_server_panic (violation) | the same without accept errors | section 6 |
| async_server | 4 connections, limit 2, accept errors | permits, sessions, tasks, shutdown |
| guard_chain | 3 connections of an address each, room to track 2; the rate limiter (window of 1 tick for 2 requests, buckets of 1 token), or SlowLoris (idle limit 1 tick, queue threshold 4) | window and buckets at their limits, evictions; reports racing evictions, compactions and time |
| collector | 2 callers, 3 calls of 10 kinds, with TLS, latencies, failures, callbacks and reset among them | records, snapshots, resets and callbacks in every order of their parts |
| dispatch | 3 backends of weight 0 or 2, 3 rules of which 2 at a time, 1 group, 4 addresses and 2 ports | choice, turns and stability under all changes |
| proxy | 2 connections of 2 addresses, one with a header of 2 items and a payload of 2, one with a single item and no header; 2 credentials; 1 call of set or reset | both proxies, all failures, headers in pieces, wrong and replaced credentials |

Why the bounds are enough: the connections of a component interact only through
counters, a map and a queue; the instances have one connection more than each
limit (so that refusal and the last free place both occur), an address with
several connections and others alone, and for the queue more mentions than the
compaction threshold. Three guards give a first, a middle and a last. Connections
of Throttle and SynGuard ask again after closing, so that histories are unbounded
although the state is finite; those of the servers and the guard stack are used
once, since nothing of one is kept for the next. Artificial bounds are `MaxRules`,
`MaxBackends` (lists the embedder grows), `CounterMod` and, in `Proxy`,
`MaxCalls`: one change of credentials or one reset is what meets the steps of
connections, and `Sends` and `HeaderLen`: a header of two items, both of them its end,
is the shortest that a read can cut, and of the payload one item may come with the
header and one after it. The client has one of the two credentials, and what the handle
holds and is set to is any of them or none, so that it is refused, admitted, and admitted
or refused for credentials that are changed meanwhile. The second connection has little
data since connections meet only in the metrics and the accept loop. No client of the
instance sends more than `HeaderLimit` without a header's end; that refusal is covered by
the theorems only. `Collector`'s `MaxCalls` bounds the calls of both
callers together: with three, two of them overlap in all their parts while the
third came before, between or after. `guard_chain` looks at the rate limiter and at
SlowLoris in turn, as the two together are more than an instance can hold: they share nothing but time and `next`, and the proofs leave open which are
configured. In `sync_server` the plain server has one
worker so that its death leaves none while the limit leaves room for a connection.
`guard_chain` uses symmetry of its connections; it checks no liveness.

Deadlock is checked everywhere except in `async_server`, where everything really
stops after the server has returned and all connections are closed, and in
`proxy` and `collector`, where the connections or calls of the instance are used up.

`TypeOK` is an invariant of its own in no run: it is a part of the first invariant of
most, and of the inductive invariants that are proved.

## 5. Fairness

* Throttle: a call that has started runs on (WF). The steps that take the mutex
  have SF: it is a parking_lot mutex, which hands the lock over fairly from time
  to time, so that a waiter is not overtaken for ever. Calling and closing are
  not fair.
* GuardStack: a call that has started runs on; clients, handlers and the
  allowlist's users owe nothing.
* SyncServer: threads run, and a handler ends. The crate gives a socket
  timeouts but does not limit a handler's life, so that this is an assumption on
  the embedder's handler and is the reason the shutdown can be promised at all. The
  peek ends by the socket's read timeout.
* AsyncServer: the runtime polls what is ready; `connection_timeout` ends a task
  (for a handler that awaits; one that blocks its thread is outside the
  assumption). `SignalChanged` has SF because `select!` picks at random among
  ready branches. Accepting has no fairness.
* Collector: a call that has started runs on (WF). That suffices for the locks, since
  an instance's calls are finitely many; for ever new calls it takes parking_lot's
  fairness, as in Throttle. Calling is not fair.
* Proxy: threads run; in the synchronous proxy each read or write returns within
  `connection_timeout`, which is set on both sockets (a timeout of zero is
  refused by the socket and would leave reads without one; connecting then
  fails). A peer that keeps sending keeps such a connection open: the instance's
  clients send finitely many items, and of the backend's direction only the end
  is assumed. In the asynchronous proxy nothing is assumed of the peers: the
  total timeout ends the task. Neither accepting nor routing is fair.

## 6. Where the code does something else than it says

Three runs end in a counterexample; `findings` quotes the lines.

* `syn_guard_timeout`: the clock belongs to the address; an established
  connection's activity fails because a later half-open one has been waiting.
* `guard_stack_into_stream`: `into_stream` closes the session at once, so that
  guards do not count the connection that is still being served.
* `sync_server_panic`: a panicking handler skips the decrement of
  `active_connections`; shutdown then waits for ever.

Observations without a run of their own; several are the reason for a premise of a
property, and those a property depends on are listed under `hazards`:

* With a per-address limit of 0 the throttle leaves an entry for every refused
  address (`MaxPerIp > 0` in `NoEmptyEntry`).
* SynGuard's eviction un-counts connections that are still half-open, so that
  the global half-open limit can be exceeded (`evicted` in `ExactUntilEviction`), and
  the late `establish` or `close` of such a connection takes the count of another
  (`OnlyEvictionUncounts` bounds what that costs).
* SynGuard's `established` is keyed by address and port; with a port used again
  before the old session closes, a close decrements for another connection
  (`DistinctAddrs`).
* The proxies own the guard session without a `Connection`, so that no activity
  is ever reported: under a proxy the idle check of SlowLoris never runs.
* A failed `thread::spawn` for a proxied connection unwinds the accept loop's own
  thread, which ends `run` without an error and leaves the connection counted as
  active (`SpawnEndsLoop`).
* The asynchronous proxy connects to the backend before it authenticates the
  client; `AuthInEffect` is about bytes, not about connecting.
* A close that follows `MetricsCollector::reset` takes from the count of a
  connection recorded after it (`calls.resets` in `ActiveCounted`).
* A snapshot that a reset overlaps may show more for the servers than in total
  (`SnapshotFits` excepts it); `active` is read after the totals and may exceed them by
  connections recorded in between; and a latency is added to the sum before the count and
  the extremes, so that a snapshot's mean may lie outside them.
* A server built from a configuration keeps its guard stack to itself: nobody
  holds its `IpBan` or allowlist, and the runtime calls that `src/README.md:167` and
  `src/README.md:171` advertise need a stack of one's own.
* In a stack of one's own an address that is both banned and on the allowlist is let in:
  the allowlist is looked at first (`guard/stack.rs:94`).
* `SlowLoris::check_idle` runs on activity only: a connection that stays silent is
  never timed out by it, but by the socket's timeouts. After `into_stream` no activity
  is reported either.
* The UDP amplification guard judges each read, so that how TCP splits the stream
  decides whether a payload is too small.
* The synchronous server marks a session established before the TLS handshake. A
  connection whose handshake fails is never half-open for SynGuard, which its test
  (`src/src/guard/syn_guard.rs:223`) has otherwise.
* In Mixed mode a client that waits for the server to speak first is dropped when
  the peek times out, and `require_client_auth` is asked of TLS clients only.
* A client's certificate chain without a key is silently not used
  (`ClientCertificate`).
* An old mention in SynGuard's queue can make a recently tracked address the
  victim of an eviction meant for the oldest.

## 7. What is proved

Every theorem holds for all values of the constants that satisfy the module's
assumptions: finitely many connections, natural limits. The inductive invariant
is called `IInv` in each proof module; `Invariance` is `Spec => []IInv`.

* `ThrottleProofs`. `TypeCorrect`, `AccountingCorrect`, `CapsHold`,
  `RefusalsJustified` and `Refinement` (`ImplementsCap`). The caps alone are not
  inductive: that `global` was at most the limit when a call passed says
  nothing unless `global` is the number of calls between `fetch_add` and
  `fetch_sub`, which is what `CountsExact` adds, and a decrement keeps `global` a
  natural number only because the caller is one of those counted.
  `Move` says once how a change of one `pc` changes the
  cardinality of any set of places; every action is an instance of it.
* `GuardStackProofs`. `TypeCorrect`, `AllowedStaysUntouched`, `HandlersAreGuarded`,
  `NothingLeaks`, `Refinement` (`KeepsContract`) and `CapsServed`. The invariant
  says what the guards have been told as a function of where the session is and
  how far the loop there has come: during `reserve` the guards before `idx`,
  during rollback those up to `idx` still reserved, after `close` exactly one
  call for each. `closed` is tied to it (a session whose flag is set has told, or
  is telling, all guards), which is why the second `close` of the two drops is
  harmless. `CapsServed` needs that no handler uses `into_stream`, as the
  violation run shows it must.
* `AsyncServerProofs`. `TypeCorrect`, `PermitsCorrect`, `SessionsHaveTasks` and
  `Refinement` (`IsGraceful`). The three properties together are inductive: the
  permit that is in no connection yet, between `AcquirePermit` and `Spawn`, is
  accounted for by `server = "reserving"`. `Drained` maps to an empty `open`
  because all permits are back, which is the account again.

* `SynGuardProofs`. `CountsCorrect` (`CountsFaithful`), `TrackingCorrect`
  (`TrackingBounded`), `UncountedCorrect` (`OnlyEvictionUncounts`) and `ExactCorrect`
  (`ExactUntilEviction`, over the specification with its history). The invariant adds to the two properties what
  every method relies on: the map is finite and each tracked address has a mention
  in the queue. Without it an eviction could find nothing to
  remove, and the map would outgrow its limit. That a compaction keeps those
  mentions, once each, is `Compaction`, an induction over the positions of the queue:
  were there a position where it fails, there would be a least one (`Least`).
  An eviction removes the count of an address with the entries, so that `total` stays a
  lower bound (`EvictOldestKeeps`); the bound on the queue after a compaction comes
  from `ThresholdSuffices`, that the threshold is at least the number of addresses
  the map may hold. `ExactCorrect` has a second invariant, `Exact`, which needs only
  that no step since `Init` evicted. `UncountedCorrect` compares a count before and after
  each method with the half-open connections before and after: `ReservedLoses` for the
  method that evicts, `HooksKeep` for the others, which take at most one count, and only
  from where a connection stops being half-open.
* `SyncServerProofs`. `JobsCorrect` (`JobsAccounted`), `TrustCorrect`
  (`DataOnlyTrusted`) and `Refinement` (`IsGraceful`). The account of the permits is
  not inductive without the owners: a worker that ends a job frees a permit, and the
  count stays right because no other worker has that job. `Stages` says what the accepting
  thread knows where it stands: the connection it admits is accepted and nobody's
  yet, and a result of `ok` was decided with nothing open, which nothing changes any
  more. `LinksTrusted` says of every link what `DataOnlyTrusted` says, and of a worker
  that is about to call a handler on a plain stream that the mode allows one.
  `CompletedIsTrusted` is the argument about TLS: a handshake that completes shows what
  both configurations ask for. The refinement holds with panics too: a worker that
  died keeps its permit taken, so that `Ok` is never returned (its liveness fails
  instead, section 6).
* `ProxyProofs`. `AuthCorrect` (`AuthInEffect`), `RelayCorrect` (`RelayInOrder`) and
  `CountsCorrect` (`ActiveCounted`), for clients that send any number of items and for
  any number of servers and addresses. The invariant says of each connection, from its
  place and its part, which of the three counts it is in (`Placed`), what it has shown
  (`Authorised`: past the authentication it has been admitted by an auth in its
  history, and the history holds the one in effect), and how what was delivered and
  what is buffered make up what was read (`Relayed`). Nothing weaker is preserved: the
  bytes that come with the header are delivered several steps later, when the auth that
  admitted them may have been replaced. That no header is missed is `Relayed` while a
  proxy authenticates: as the end has not been seen yet, less than the header was read,
  and so the search goes back to the end's start or before it. Every action either changes one record, soundly
  and without touching the counts (`Moves`), or is one part of a call of the collector,
  which changes one count by one and one connection's place with it (`CountMoves`,
  `MapMoves`).
* `DispatchProofs`. `ChoiceCorrect` (`ChoiceValid`), `DispatchStable`
  (`StableDispatch`) and `TurnsCorrect` (`RoundRobinFair`, over the specification with
  its history). The invariant is that the ring is that of the list of backends; the
  proof then forgets the indices: the nodes stand for `Points`, a hash and an address
  each, of which those of a backend come and go together. The choice among points is
  unique (`ChoiceUnique`, from the injective hash), and what is chosen of many is chosen
  of fewer that it is among (`ChoiceOfFewer`): adding and removing are that lemma read
  in two directions. For the table, `AppendedRule` and `PrependedRule` say the same of
  rules. Turns: counting on from any turn in the history leads to the one that is next
  (`TurnsFit`), and two turns at different distances from it differ.
* `GuardChainProofs`. All six properties of `GuardChain`, for any sets of the guards, any
  callers, addresses, sizes and limits, over the specification with its histories:
  `TracksAlways` (`TracksExactly`), `WindowAlways` (`WindowHolds`), `LimitedJustly`
  (`LimitedOnlyWhenSpent`), `MeterImplemented` (`ImplementsMeter`), `EvictsJustly`
  (`EvictsLeastRecent`) and `TimesOutJustly` (`TimeoutsJustified`), for the two guards
  together as for each alone. The invariant has a part for each guard, as each step changes
  one of them or is time, which changes two.
  - `RateInv`. The queue of the window is in the order of ages, and its requests that
    are no older than the window are, one to one, those of the history (`Recorded`): a
    request that was popped is never missed, and a full window is full of requests that
    count. Without the order `allow` could stop popping at a young request in front of
    an old one. A bucket that is refilled only when it is asked fills all the same with
    each tick, by what its meter drains (`AfterTick`, which needs that `Horizon` ticks
    fill it); what `get_or_insert` forgets is one address at most, the oldest, and only
    when there is no room (`TrackingIs`), which `TokenMeter` allows (`MeterRequest`).
  - `LorisInv` and `Heard`. That each entry of the map has one live mention (`Keyed`)
    bounds the queue after a compaction and lets an eviction find its victim; that
    nobody's live mention is ahead of that of a connection that was noted before, makes
    it the right victim. `Leads` is the order of the live mentions, and that is all an
    operation is asked to preserve: noting puts one behind all others (`NotingKeyed`),
    evicting takes the first (`EvictIs`), compacting changes nothing (`Compacting`).
    `NextSeqIs`: the numbers in use are fewer than those it tries. For the timeouts
    `Heard` says that an entry's age is the silence of its connection, and that what
    `check_idle` has read is still that silence when it is judged: others may evict
    the entry meanwhile, but only its own connection notes it.

What the theorems assume of the constants is in the `ASSUME`s: finitely many
connections and addresses, natural limits, different model values for what the code
distinguishes; in `Proxy` that no address is the `None` that stands for none, and that
the proxies' own names are among the servers; in `BackendPool` that each node of a ring
has a hash and no two the same; in `RateLimiter` that `Horizon`, from where on ages are not
told apart, is beyond the window and gives a bucket the time to fill; in `SlowLoris` and
`SynGuard` that the queue's factor and floor, 4 and 16 in the code, are not zero. Nothing is assumed of how many connections, workers,
backends or rules there are. `MaxRules`, `MaxBackends` and `MaxCalls` are arbitrary
naturals there.

What recursion computes is proved for the three loops over lists that the properties rest
on: `Compacted` in `SynGuard`, `Without` in `BackendPool` and `CompactOrder` in
`SlowLoris`: they are recursive functions, that they are defined everywhere is a lemma
(`KeepExists`, `KeptExists`), and least elements take the place of induction.

Only model-checked: the liveness properties, whose fairness assumptions the
prover cannot use (the two `CallsReturn`, `GuardsAreTold`,
`AcceptedIsClosed`, `TasksEnd`, `ConnectionsEnd`, `ShutdownReturnsUnlessPanic` and the
asynchronous server's `ShutdownReturns`); and `SnapshotFits` and `QuietExact` of
Collector. These compare sums over maps (`FoldFunction`) and products of a count with a
latency, of calls whose remaining operations are sequences that a callback extends by
`FlattenSeq`: the provers can expand neither fold, and what a sum becomes when one entry
changes would have to be proved by induction over the map.

## 8. Not modelled

`components` says for each part what is left out. In short: the connection filter,
errors and socket options, which have no state and decide nothing the modules
tell apart; of the guards the UDP amplification predicate and the list of bans, one set
under one lock that is empty in every stack a server builds: GuardStack's guards that
may refuse at any time stand for both; of the client its timeouts and the state
of an attempt, beyond what it shows and says first; of TLS the files, ALPN,
protocol versions and messages; of the proxy the data from the backend; the
events of a stack's observer; and the stream enums of `handler.rs`, which forward
each call to the socket they hold.
