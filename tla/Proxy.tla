-------------------------------- MODULE Proxy --------------------------------
(***************************************************************************)
(* The proxies of proxy.rs, ProxyServer (a thread per connection) and      *)
(* AsyncProxyServer (a task), with the metrics they keep.  One loop admits *)
(* connections one by one: it asks the routing table, reserves and         *)
(* establishes a guard session, records the connection and starts its      *)
(* thread or task, which resolves the credentials, connects to the         *)
(* backend, reads the CONNECT header if there are credentials to check,    *)
(* forwards what came with it and then relays both directions.             *)
(*                                                                         *)
(* What a client sends is a sequence of numbered items, of which the first *)
(* may be a header.  A read takes any number of them.  What the backend    *)
(* sends is not followed, only when that direction ends.  Which backend is *)
(* chosen is Dispatch's subject, what the guards do GuardStack's: here     *)
(* they accept or refuse.                                                  *)
(***************************************************************************)
EXTENDS Metrics, Sequences, SequencesExt, FiniteSets

CONSTANTS Conn, IpOf,
          Credentials,   \* ProxyAuth::Basic
          Open, NoHandle,\* ProxyAuth::None; a proxy without a ProxyAuthHandle
          ConfigAuth,    \* ProxyConfig::auth
          None,          \* not known yet; a client that sends no header
          Presents,      \* what the header of each client may hold, if it sends one
          Sends,         \* the number of items each client sends
          HeaderLen,     \* how many of them its header takes, if it sends one, and
          EndLen,        \* how many of those are its end: the blank line's 4 bytes
          HeaderLimit,   \* items read without finding the header's end: 64 KiB
          MaxCalls       \* bound on the embedder's calls: of set and of reset together

Auth == Credentials \cup {Open}

ASSUME ProxyAssumption ==
  /\ IsFiniteSet(Conn) /\ IpOf \in [Conn -> Ip] /\ None \notin Ip
  /\ {"proxy", "async-proxy"} \subseteq Server
  /\ ConfigAuth \in Auth /\ None \notin Auth
  /\ NoHandle \notin Auth /\ Open \notin Credentials
  /\ Presents \in [Conn -> SUBSET (Credentials \cup {None})]
  /\ HeaderLen \in [Conn -> Nat] /\ EndLen \in Nat \ {0}
  /\ \A c \in Conn : EndLen <= HeaderLen[c]
  /\ Sends \in [Conn -> Nat] /\ {HeaderLimit, MaxCalls} \subseteq Nat

VARIABLES
  mode,    \* which of the two proxies runs: "sync" or "async"
  loop,    \* "running", or "over": run has ended by a panic
  handle,  \* what the ProxyAuthHandle holds
  conn,    \* each connection, what became of its data and, as a history
           \* (.since), the auth in effect at some time since its accept
  calls    \* history: the embedder's calls, and where its reset stands

vars == <<metrics, mode, loop, handle, conn, calls>>

Start == [place |-> "backlog", part |-> 1, session |-> "none",
          presents |-> None, auth |-> None, since |-> {},
          nread |-> 0, buf |-> <<>>, delivered |-> <<>>,
          up |-> "none", down |-> "none", leaked |-> FALSE]

Init ==
  /\ MetricsInit
  /\ mode \in {"sync", "async"} /\ loop = "running"
  /\ handle \in Auth \cup {NoHandle}
  /\ conn = [c \in Conn |-> Start]
  /\ calls = [sets |-> 0, resets |-> 0, part |-> 1]

At(c, place) == conn[c].place = place
Become(c, r) == conn' = [conn EXCEPT ![c] = r]
Goto(c, place) == Become(c, [conn[c] EXCEPT !.place = place])

\* Each proxy names itself in its metrics.
Name == IF mode = "sync" THEN "proxy" ELSE "async-proxy"

Stream(c) == [i \in 1..Sends[c] |-> i]
Unread(c) == Len(Stream(c)) - conn[c].nread
NextItems(c, n) == SubSeq(Stream(c), conn[c].nread + 1, conn[c].nread + n)

EffectiveAuth == IF handle = NoHandle THEN ConfigAuth ELSE handle

-----------------------------------------------------------------------------
(* The accept loop *)

Quiet == UNCHANGED <<metrics, mode, loop, handle, calls>>
Admitting == {"routing", "failing", "reserving", "establishing", "recording", "spawning"}

Accept(c) ==
  /\ At(c, "backlog") /\ loop = "running"
  /\ \A d \in Conn : conn[d].place \notin Admitting
  /\ \E presented \in Presents[c] :
       Become(c, [conn[c] EXCEPT !.place = "routing", !.presents = presented, !.since = {EffectiveAuth}])
  /\ Quiet

\* Forward or Pool with a backend; Reject; a pool that is empty.
Route(c) ==
  /\ At(c, "routing")
  /\ \E place \in {"reserving", "failing", "closing"} : Goto(c, place)
  /\ Quiet

Reserve(c) ==
  /\ At(c, "reserving")
  /\ \/ Become(c, [conn[c] EXCEPT !.place = "establishing", !.session = "open"])
     \/ Goto(c, "failing")
  /\ Quiet

MarkEstablished(c) ==
  /\ At(c, "establishing")
  /\ \E place \in {"recording", "failing"} : Goto(c, place)
  /\ Quiet

\* The next part of the collector's call, and after the last one the place then.
NextPart(c, then) ==
  Become(c, IF conn[c].part = 3 THEN [conn[c] EXCEPT !.place = then, !.part = 1]
            ELSE [conn[c] EXCEPT !.part = @ + 1])

RecordFailed(c) ==
  /\ At(c, "failing")
  /\ RecordFailure(conn[c].part, Name, IpOf[c])
  /\ NextPart(c, "closing")
  /\ UNCHANGED <<mode, loop, handle, calls>>

RecordTcpConnection(c) ==
  /\ At(c, "recording")
  /\ RecordConnection(conn[c].part, Name, IpOf[c])
  /\ NextPart(c, "spawning")
  /\ UNCHANGED <<mode, loop, handle, calls>>

Spawn(c) == At(c, "spawning") /\ Goto(c, "resolving") /\ Quiet

\* thread::spawn panics, and with it run: the closure is dropped, with the
\* stream and the session, and the other threads go on.
SpawnEndsLoop(c) ==
  /\ mode = "sync" /\ At(c, "spawning")
  /\ Become(c, [conn[c] EXCEPT !.place = "closing", !.leaked = TRUE])
  /\ loop' = "over"
  /\ UNCHANGED <<metrics, mode, handle, calls>>

-----------------------------------------------------------------------------
(* The connection's thread or task: forward_to and forward_async_connection *)

\* They return or are dropped, and with them the streams and their data: what
\* the connection has relayed is of no interest any more.
Ended(c) == [Start EXCEPT !.place = "ending", !.session = conn[c].session]
Fail(c, place) == At(c, place) /\ Become(c, Ended(c)) /\ Quiet

\* The trailing payload is written before the relay starts, if there is any.
Forward(r, trailing) ==
  [r EXCEPT !.buf = trailing, !.place = IF trailing = <<>> THEN "relaying" ELSE "writing"]

\* Variant: the configuration's auth although there is a handle.
ResolveConfigured(c) ==
  /\ At(c, "resolving")
  /\ LET first == IF mode = "sync" /\ ConfigAuth # Open THEN "authenticating"
                  ELSE "connecting"
     IN Become(c, [conn[c] EXCEPT !.auth = ConfigAuth, !.place = first])
  /\ Quiet
\* Only the synchronous proxy authenticates before it connects.
Resolve(c) ==
  /\ At(c, "resolving")
  /\ LET first == IF mode = "sync" /\ EffectiveAuth # Open THEN "authenticating"
                  ELSE "connecting"
     IN Become(c, [conn[c] EXCEPT !.auth = EffectiveAuth, !.place = first])
  /\ Quiet

\* With TLS offload the handshake with the client follows.
Connect(c) ==
  /\ At(c, "connecting")
  /\ IF mode = "async" /\ conn[c].auth # Open THEN Goto(c, "authenticating")
     ELSE Become(c, Forward(conn[c], conn[c].buf))
  /\ Quiet
ConnectFails(c) == Fail(c, "connecting")

\* Variant: drops what was read with the end of the header.
AuthenticatedOnly(r, trailing) ==
  IF mode = "async" THEN Forward(r, <<>>)
  ELSE [r EXCEPT !.buf = <<>>, !.place = "connecting"]
Authenticated(r, trailing) ==
  IF mode = "async" THEN Forward(r, trailing)
  ELSE [r EXCEPT !.buf = trailing, !.place = "connecting"]

\* Variant: looks only at what the last read brought.
SearchFromNew(before) == before
\* Where the search for the header's end starts when `before' items had been
\* read: early enough for an end that was cut by the last read.
SearchFrom(before) == IF before < EndLen THEN 0 ELSE before - (EndLen - 1)

\* The end is found in what was read, after the items that are not searched.
EndFound(c, before, nread) ==
  /\ conn[c].presents # None /\ HeaderLen[c] <= nread
  /\ SearchFrom(before) <= HeaderLen[c] - EndLen

\* A read of n items: it may end within the header, in its end too, or run past
\* it; without its end the loop reads again, up to the limit.
ReadHeader(c) ==
  /\ At(c, "authenticating")
  /\ \E n \in 1..Unread(c) :
       LET nread == conn[c].nread + n
           read == [conn[c] EXCEPT !.nread = nread]
           trailing == SubSeq(Stream(c), HeaderLen[c] + 1, nread)
       IN Become(c, IF ~EndFound(c, conn[c].nread, nread)
                    THEN IF nread > HeaderLimit THEN Ended(c) ELSE read
                    ELSE IF conn[c].presents = conn[c].auth THEN Authenticated(read, trailing)
                    ELSE Ended(c))
  /\ Quiet
\* Variant: no read timeout while the synchronous proxy waits for the header.
ReadHeaderBlocks(c) == mode = "async" /\ Fail(c, "authenticating")
\* The client closes, or the read fails or times out.
ReadHeaderFails(c) == Fail(c, "authenticating")

WriteTrailing(c) ==
  /\ At(c, "writing")
  /\ Become(c, [conn[c] EXCEPT !.delivered = @ \o conn[c].buf, !.buf = <<>>, !.place = "relaying"])
  /\ Quiet

WriteTrailingFails(c) == Fail(c, "writing")

\* forward_bidirectional starts a thread for each direction; copy_bidirectional
\* polls both.
StartRelay(c) ==
  /\ At(c, "relaying") /\ conn[c].up = "none"
  /\ Become(c, [conn[c] EXCEPT !.up = "running", !.down = "running"])
  /\ Quiet
\* try_clone fails.
CloneFails(c) ==
  /\ mode = "sync" /\ At(c, "relaying") /\ conn[c].up = "none"
  /\ Become(c, Ended(c)) /\ Quiet
\* thread::spawn panics, the second time with the first thread running.
SpawnPanics(c) ==
  /\ mode = "sync" /\ At(c, "relaying") /\ conn[c].up = "none"
  /\ \E up \in {"none", "running"} :
       Become(c, [conn[c] EXCEPT !.place = "closing", !.up = up, !.leaked = TRUE])
  /\ Quiet

Running(c) == conn[c].up = "running"

RelayRead(c) ==
  /\ Running(c) /\ conn[c].buf = <<>>
  /\ \E n \in 1..Unread(c) :
       Become(c, [conn[c] EXCEPT !.buf = NextItems(c, n), !.nread = @ + n])
  /\ Quiet
RelayWrite(c) ==
  /\ Running(c) /\ conn[c].buf # <<>>
  /\ Become(c, [conn[c] EXCEPT !.delivered = @ \o conn[c].buf, !.buf = <<>>])
  /\ Quiet
\* End of stream; in the synchronous proxy also an error or a timeout, and of a
\* write that fails the backend may have any part.
RelayUpEnds(c) ==
  /\ Running(c) /\ (mode = "async" => conn[c].buf = <<>>)
  /\ \E n \in 0..Len(conn[c].buf) :
       Become(c, [conn[c] EXCEPT !.delivered = @ \o SubSeq(conn[c].buf, 1, n),
                                 !.buf = <<>>, !.up = "ended"])
  /\ Quiet
RelayDownEnds(c) ==
  /\ conn[c].down = "running"
  /\ Become(c, [conn[c] EXCEPT !.down = "ended"]) /\ Quiet

Joined(c) ==
  /\ At(c, "relaying") /\ conn[c].up = "ended" /\ conn[c].down = "ended"
  /\ Become(c, Ended(c)) /\ Quiet

\* An error in one direction of copy_bidirectional ends both.
CopyFails(c) ==
  /\ mode = "async" /\ At(c, "relaying") /\ "running" \in {conn[c].up, conn[c].down}
  /\ Become(c, Ended(c)) /\ Quiet

InTask == {"resolving", "connecting", "authenticating", "writing", "relaying"}
\* connection_timeout drops the future at the await it stands at.
TimedOut(c) ==
  /\ mode = "async" /\ conn[c].place \in InTask \ {"resolving"}
  /\ Become(c, Ended(c)) /\ Quiet

RecordClose(c) ==
  /\ At(c, "ending")
  /\ RecordConnectionClose(conn[c].part, Name, IpOf[c])
  /\ NextPart(c, "closing")
  /\ UNCHANGED <<mode, loop, handle, calls>>

\* guard_session.close, by a call, on a panic by its drop; or there is none.
CloseSession(c) ==
  /\ At(c, "closing")
  /\ LET session == IF conn[c].session = "open" THEN "closed" ELSE conn[c].session
     IN Become(c, IF Running(c) THEN [conn[c] EXCEPT !.place = "closed", !.session = session]
                  ELSE [Start EXCEPT !.place = "closed", !.session = session, !.leaked = conn[c].leaked])
  /\ Quiet

-----------------------------------------------------------------------------
(* The embedder *)

\* ProxyAuthHandle::set, at any time.
SetAuth ==
  /\ handle # NoHandle /\ calls.sets + calls.resets < MaxCalls
  /\ handle' \in Auth \ {handle}
  /\ calls' = [calls EXCEPT !.sets = @ + 1]
  /\ conn' = [c \in Conn |-> IF conn[c].since = {} THEN conn[c]
                            ELSE [conn[c] EXCEPT !.since = @ \cup {handle'}]]
  /\ UNCHANGED <<metrics, mode, loop>>

Reset ==
  /\ \/ calls.part = 1 /\ calls.sets + calls.resets < MaxCalls
     \/ calls.part > 1
  /\ ResetPart(calls.part)
  /\ calls' = [calls EXCEPT !.part = IF @ = 3 THEN 1 ELSE @ + 1,
                            !.resets = IF calls.part = 1 THEN @ + 1 ELSE @]
  /\ UNCHANGED <<mode, loop, handle, conn>>

-----------------------------------------------------------------------------
Admit(c) == \/ Accept(c) \/ Route(c) \/ Reserve(c) \/ MarkEstablished(c)
            \/ RecordFailed(c) \/ RecordTcpConnection(c)
            \/ Spawn(c) \/ SpawnEndsLoop(c)

Establish(c) == \/ Resolve(c) \/ Connect(c) \/ ConnectFails(c)
                \/ ReadHeader(c) \/ ReadHeaderFails(c)
                \/ WriteTrailing(c) \/ WriteTrailingFails(c)
                \/ StartRelay(c) \/ CloneFails(c) \/ SpawnPanics(c)

Up(c) == RelayRead(c) \/ RelayWrite(c) \/ RelayUpEnds(c)

End(c) == Joined(c) \/ RecordClose(c) \/ CloseSession(c)

Next ==
  \/ \E c \in Conn : \/ Admit(c) \/ Establish(c) \/ Up(c) \/ RelayDownEnds(c)
                     \/ CopyFails(c) \/ TimedOut(c) \/ End(c)
  \/ SetAuth \/ Reset

\* A thread runs, and none of its reads and writes blocks longer than
\* connection_timeout; a task is woken by its timeout, whatever its peers do.
Fairness ==
  \A c \in Conn :
    /\ WF_vars(End(c)) /\ WF_vars(Spawn(c) \/ Resolve(c))
    /\ WF_vars(mode = "sync" /\ Establish(c))
    /\ WF_vars(mode = "sync" /\ Up(c)) /\ WF_vars(mode = "sync" /\ RelayDownEnds(c))
    /\ WF_vars(TimedOut(c))

Spec == Init /\ [][Next]_vars
FairSpec == Spec /\ Fairness

-----------------------------------------------------------------------------
(* Properties *)

Places == Admitting \cup InTask \cup {"backlog", "ending", "closing", "closed"}

TypeOK ==
  /\ MetricsTypeOK
  /\ mode \in {"sync", "async"} /\ loop \in {"running", "over"} /\ handle \in Auth \cup {NoHandle}
  /\ calls \in [sets : 0..MaxCalls, resets : 0..MaxCalls, part : Parts]
  /\ \A c \in Conn :
       /\ conn[c].place \in Places /\ conn[c].part \in Parts
       /\ conn[c].session \in {"none", "open", "closed"}
       /\ conn[c].presents \in Credentials \cup {None}
       /\ conn[c].auth \in Auth \cup {None} /\ conn[c].since \subseteq Auth
       /\ conn[c].nread \in 0..Len(Stream(c))
       /\ {conn[c].up, conn[c].down} \subseteq {"none", "running", "ended"}

\* A backend gets bytes of a client only if an auth that was in effect at some
\* time since its accept admits it: none, or the credentials it presented.
AuthInEffect ==
  \A c \in Conn : conn[c].delivered # <<>> => conn[c].since \cap {Open, conn[c].presents} # {}

\* The number of items not for the backend: those of a header that was asked for.
Skipped(c) == IF conn[c].auth = Open THEN 0 ELSE HeaderLen[c]

\* A backend gets what the client sent after its header, in order and without
\* a gap, wherever the reads fell: also what came in the read that completed
\* the header, and before anything that was read later.  And no proxy waits for
\* more than the header: once it has all been read, its end has been found, even
\* if a read ended in the middle of it.
RelayInOrder ==
  \A c \in Conn :
    LET got == conn[c].delivered \o conn[c].buf
        sent == SubSeq(Stream(c), Skipped(c) + 1, conn[c].nread)
    IN /\ IsPrefix(got, sent)
       /\ At(c, "relaying") /\ conn[c].up # "ended" => got = sent
       /\ At(c, "authenticating") /\ conn[c].presents # None => conn[c].nread < HeaderLen[c]

\* The connections that a part of the metrics should count: recorded there and
\* not closed there.
Counted(c, part) ==
  \/ conn[c].place \in InTask \cup {"spawning"} \/ conn[c].leaked
  \/ At(c, "recording") /\ part < conn[c].part
  \/ At(c, "ending") /\ part >= conn[c].part
Entry(m, k) == IF k \in DOMAIN m THEN m[k] ELSE 0
Count(part, ip) == Cardinality({c \in Conn : Counted(c, part) /\ ip \in {None, IpOf[c]}})

\* The counts are exact, but for the connections whose thread panicked or could
\* not be started, which they keep; once reset was called they can be short, and are never too high.
ActiveCounted ==
  /\ TypeOK
  /\ LET Matches(count, exact) == count <= exact /\ (calls.resets = 0 => count = exact)
     IN /\ Matches(active, Count(1, None))
        /\ Matches(Entry(perServer, Name), Count(2, None))
        /\ \A ip \in Ip : Matches(Entry(perIp, ip), Count(3, ip))

\* A connection that was recorded and is to be given its thread or task ends,
\* whether it gets one or not, with its session closed and neither direction
\* relayed any more.
ConnectionsEnd ==
  \A c \in Conn : At(c, "spawning") ~>
    (At(c, "closed") /\ conn[c].session = "closed" /\ "running" \notin {conn[c].up, conn[c].down})
=============================================================================
