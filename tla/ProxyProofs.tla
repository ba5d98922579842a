---------------------------- MODULE ProxyProofs ----------------------------
(***************************************************************************)
(* Proofs about Proxy for any number of connections, addresses and         *)
(* credentials and for clients that send any amount: only clients that are *)
(* admitted reach a backend, what they send arrives in order and whole, and *)
(* the collector's counts of active connections.                           *)
(***************************************************************************)
EXTENDS Proxy, FiniteSetTheorems, SequenceTheorems, TLAPS

-----------------------------------------------------------------------------
(* The invariant: what is true of one connection, with its record r *)

Record ==
  [place : Places, part : Parts, session : {"none", "open", "closed"},
   presents : Credentials \cup {None}, auth : Auth \cup {None}, since : SUBSET Auth,
   nread : Nat, buf : Seq(Nat), delivered : Seq(Nat),
   up : {"none", "running", "ended"}, down : {"none", "running", "ended"}, leaked : BOOLEAN]

\* Before its thread or task has looked at the credentials.
Early == Admitting \cup {"backlog", "resolving"}

\* Where a connection stands says how far its calls of the collector have come,
\* and whether its relay may run.
Placed(r) ==
  /\ r.part # 1 => r.place \in {"failing", "recording", "ending"}
  /\ r.leaked => r.place \in {"closing", "closed"}
  /\ r.up # "none" => r.place = "relaying" \/ r.leaked

\* Its client need not authenticate, or has presented what it must.
Admitted(r) == r.auth # None /\ r.auth \in {Open, r.presents}
\* The synchronous proxy connects to the backend after that.
PastAuthentication(r) ==
  \/ r.place \in {"writing", "relaying"} \/ r.up # "none" \/ r.delivered # <<>>
  \/ mode = "sync" /\ r.place = "connecting"

\* The history of the auth holds the one in effect and the one it has taken.
Authorised(r) ==
  /\ r.since # {} => EffectiveAuth \in r.since
  /\ r.place \in Admitting \cup {"resolving"} => r.since # {}
  /\ r.place \in Early => r.auth = None
  /\ r.auth # None => r.auth \in r.since
  /\ r.place \in InTask \ {"resolving"} => r.auth # None
  /\ PastAuthentication(r) => Admitted(r)

\* What the client sends, what of it is for the backend, and what has gone there
\* or is on its way.
SkippedOf(r, c) == IF r.auth = Open THEN 0 ELSE HeaderLen[c]
Sent(r, c) == SubSeq(Stream(c), SkippedOf(r, c) + 1, r.nread)
Got(r) == r.delivered \o r.buf

\* Nothing is missing until the direction has ended.
Complete(r) ==
  \/ r.place = "writing" \/ r.up = "running" \/ (r.place = "relaying" /\ r.up = "none")
  \/ mode = "sync" /\ r.place = "connecting"
Relayed(r, c) ==
  /\ r.nread <= Len(Stream(c))
  /\ r.place \in Early => r.nread = 0
  /\ r.place \in Early \cup {"authenticating"} => r.buf = <<>>
  /\ r.place \in Early \cup {"authenticating", "connecting"} => r.delivered = <<>>
  /\ mode = "async" /\ r.place = "connecting" => r.nread = 0 /\ r.buf = <<>>
  /\ Complete(r) => SkippedOf(r, c) <= r.nread /\ Got(r) = Sent(r, c)
  /\ IsPrefix(Got(r), Sent(r, c))
  /\ r.place = "authenticating" /\ r.presents # None => r.nread < HeaderLen[c]

Sound(r, c) == r \in Record /\ Placed(r) /\ Authorised(r) /\ Relayed(r, c)

\* The embedder's calls: a reset that is under way has been counted.
CallsSound ==
  /\ calls \in [sets : 0..MaxCalls, resets : 0..MaxCalls, part : Parts]
  /\ calls.part # 1 => calls.resets # 0

\* Every connection is sound.
Connections == conn \in [Conn -> Record] /\ \A c \in Conn : Sound(conn[c], c)

\* The counts of the collector are those of the connections, part by part.
Matches(count, exact) == count <= exact /\ (calls.resets = 0 => count = exact)
CountsMatch ==
  /\ Matches(active, Count(1, None))
  /\ Matches(Entry(perServer, Name), Count(2, None))
  /\ \A ip \in Ip : Matches(Entry(perIp, ip), Count(3, ip))

\* The counts are preserved only because a connection's place and part say which
\* of them it is in; that a backend is reached only with an auth in effect, and
\* by what follows the header, because its place says what it has shown and what
\* has been read.
IInv ==
  /\ MetricsTypeOK /\ CallsSound
  /\ mode \in {"sync", "async"} /\ loop \in {"running", "over"} /\ handle \in Auth \cup {NoHandle}
  /\ Connections /\ CountsMatch

-----------------------------------------------------------------------------
(* Sequences of items *)

\* How long a header is, and how much of what is sent is not for the backend.
LEMMA SkippedType ==
  ASSUME NEW c \in Conn
  PROVE  /\ HeaderLen[c] \in Nat /\ EndLen \in Nat \ {0} /\ EndLen <= HeaderLen[c]
         /\ \A r : SkippedOf(r, c) \in Nat /\ SkippedOf(r, c) + 1 \in Nat \ {0}
BY ProxyAssumption DEF SkippedOf

\* What a client sends is a sequence.
LEMMA StreamType == ASSUME NEW c \in Conn PROVE Stream(c) \in Seq(Nat)
<1>1. Sends[c] \in Nat
  BY ProxyAssumption
<1> QED
  BY <1>1 DEF Stream

\* What begins a sequence.
LEMMA WholeIsPrefix ==
  ASSUME NEW s \in Seq(Nat) PROVE IsPrefix(<<>>, s) /\ IsPrefix(s, s)
<1>1. Len(s) \in Nat /\ Len(<<>>) = 0
  BY LenProperties, EmptySeq
<1>2. SubSeq(<<>>, 1, 0) = <<>> /\ SubSeq(s, 1, 0) = <<>>
  BY SubSeqEmpty
<1> QED
  BY <1>1, <1>2 DEF IsPrefix

\* What takes only the beginning of a sequence begins what would take all of it.
LEMMA CutIsPrefix ==
  ASSUME NEW s \in Seq(Nat), NEW t \in Seq(Nat), NEW n \in 0..Len(t)
  PROVE  /\ SubSeq(t, 1, n) \in Seq(Nat) /\ Len(SubSeq(t, 1, n)) = n
         /\ IsPrefix(s \o SubSeq(t, 1, n), s \o t)
<1> DEFINE u == SubSeq(t, 1, n)
<1>1. Len(s) \in Nat /\ Len(t) \in Nat /\ n \in Nat
  BY LenProperties
<1>2. u \in Seq(Nat) /\ Len(u) = n /\ \A i \in 1..n : u[i] = t[i]
  <2>1. \A i \in 1..n : t[i] \in Nat
    BY <1>1, ElementOfSeq
  <2>2. /\ u \in Seq(Nat) /\ Len(u) = IF 1 <= n THEN n - 1 + 1 ELSE 0
        /\ \A i \in 1..n - 1 + 1 : u[i] = t[1 + i - 1]
    BY <1>1, <2>1, SubSeqProperties
  <2> QED
    BY <1>1, <2>2
<1> HIDE DEF u
<1>3. /\ s \o u \in Seq(Nat) /\ Len(s \o u) = Len(s) + n
      /\ \A i \in 1..Len(s) + n : (s \o u)[i] = IF i <= Len(s) THEN s[i] ELSE u[i - Len(s)]
  BY <1>2, ConcatProperties
<1>4. /\ s \o t \in Seq(Nat) /\ Len(s \o t) = Len(s) + Len(t)
      /\ \A i \in 1..Len(s) + Len(t) : (s \o t)[i] = IF i <= Len(s) THEN s[i] ELSE t[i - Len(s)]
  BY ConcatProperties
<1>5. SubSeq(s \o u, 1, Len(s \o u)) = s \o u
  BY <1>3, SubSeqFull
<1>6. /\ SubSeq(s \o t, 1, Len(s) + n) \in Seq(Nat)
      /\ Len(SubSeq(s \o t, 1, Len(s) + n)) = Len(s) + n
      /\ \A i \in 1..Len(s) + n : SubSeq(s \o t, 1, Len(s) + n)[i] = (s \o t)[i]
  <2> DEFINE m == Len(s) + n
             st == s \o t
  <2>1. m \in Nat /\ m <= Len(st)
    BY <1>1, <1>4
  <2>2. st \in Seq(Nat)
    BY <1>4
  <2> HIDE DEF m, st
  <2>3. \A i \in 1..m : st[i] \in Nat
    BY <2>1, <2>2, ElementOfSeq
  <2>4. /\ SubSeq(st, 1, m) \in Seq(Nat) /\ Len(SubSeq(st, 1, m)) = IF 1 <= m THEN m - 1 + 1 ELSE 0
        /\ \A i \in 1..m - 1 + 1 : SubSeq(st, 1, m)[i] = st[1 + i - 1]
    BY <2>1, <2>3, SubSeqProperties
  <2>5. /\ SubSeq(st, 1, m) \in Seq(Nat) /\ Len(SubSeq(st, 1, m)) = m
        /\ \A i \in 1..m : SubSeq(st, 1, m)[i] = st[i]
    BY <2>1, <2>4
  <2> QED
    BY <2>5 DEF m, st
<1>7. \A i \in 1..Len(s) + n : (s \o u)[i] = (s \o t)[i]
  BY <1>1, <1>2, <1>3, <1>4
<1>8. s \o u = SubSeq(s \o t, 1, Len(s) + n)
  BY <1>3, <1>6, <1>7, SeqEqual
<1>9. IsPrefix(s \o u, s \o t)
  BY <1>1, <1>3, <1>4, <1>5, <1>8 DEF IsPrefix
<1> QED
  BY <1>2, <1>9 DEF u

\* A part of the stream, and the part that follows it.
LEMMA PartOfStream ==
  ASSUME NEW s \in Seq(Nat), NEW m \in Nat \ {0}, NEW n \in Nat, n <= Len(s)
  PROVE  SubSeq(s, m, n) \in Seq(Nat) /\ (n < m => SubSeq(s, m, n) = <<>>)
         /\ (m <= n => Len(SubSeq(s, m, n)) = n - m + 1)
<1>1. \A i \in m..n : s[i] \in Nat
  BY ElementOfSeq, LenProperties
<1>2. SubSeq(s, m, n) \in Seq(Nat) /\ Len(SubSeq(s, m, n)) = IF m <= n THEN n - m + 1 ELSE 0
  BY <1>1, SubSeqProperties
<1> QED
  BY <1>2, SubSeqEmpty

\* A read continues what was read before.
LEMMA NextPartOfStream ==
  ASSUME NEW s \in Seq(Nat), NEW k \in Nat, NEW n \in Nat, NEW i \in Nat,
         k <= n, n + i <= Len(s)
  PROVE  SubSeq(s, k + 1, n) \o SubSeq(s, n + 1, n + i) = SubSeq(s, k + 1, n + i)
<1>1. Len(s) \in Nat
  BY LenProperties
<1>2. k + 1 \in 1..Len(s) + 1 /\ n \in (k + 1) - 1..Len(s) /\ n + i \in n..Len(s)
  BY <1>1
<1> QED
  BY <1>2, ConcatAdjacentSubSeq

-----------------------------------------------------------------------------
(* The steps of one connection *)

\* Whether a part of the metrics should count a connection with the record r.
CountedBy(r, part) ==
  \/ r.place \in InTask \cup {"spawning"} \/ r.leaked
  \/ r.place = "recording" /\ part < r.part
  \/ r.place = "ending" /\ part >= r.part

\* From r to q, with no change of what is counted.
Moves(r, q, c) ==
  Sound(q, c) /\ \A part \in Parts : CountedBy(q, part) = CountedBy(r, part)

\* The auth in effect is one of those that exist.
LEMMA AuthType ==
  ASSUME handle \in Auth \cup {NoHandle}
  PROVE  EffectiveAuth \in Auth /\ None \notin Auth /\ Open \in Auth
BY ProxyAssumption DEF EffectiveAuth, Auth

\* What has been sent is a sequence.
LEMMA SentType ==
  ASSUME NEW c \in Conn, NEW r, Sound(r, c)
  PROVE  /\ Sent(r, c) \in Seq(Nat) /\ Got(r) \in Seq(Nat)
         /\ Stream(c) \in Seq(Nat)
<1>1. Stream(c) \in Seq(Nat)
  BY StreamType
<1>2. r.nread \in Nat /\ r.nread <= Len(Stream(c))
  BY DEF Sound, Record, Relayed
<1>3. SkippedOf(r, c) + 1 \in Nat \ {0}
  BY SkippedType
<1>4. Sent(r, c) \in Seq(Nat)
  BY <1>1, <1>2, <1>3, PartOfStream DEF Sent
<1>5. r.delivered \in Seq(Nat) /\ r.buf \in Seq(Nat)
  BY DEF Sound, Record
<1> QED
  BY <1>1, <1>4, <1>5, ConcatProperties DEF Got

\* A record with nothing in it is sound wherever it is not part of the relay.
Blank(q) ==
  /\ q.part = 1 /\ q.presents = None /\ q.auth = None /\ q.since = {}
  /\ q.nread = 0 /\ q.buf = <<>> /\ q.delivered = <<>> /\ q.up = "none"

\* A connection starts with nothing done for it.
LEMMA StartIsBlank == Start \in Record /\ Blank(Start)
BY EmptySeq DEF Start, Record, Blank, Places, Admitting, InTask, Parts

\* Such a record is sound.
LEMMA BlankIsSound ==
  ASSUME NEW c \in Conn, NEW q \in Record, Blank(q),
         q.place \in {"backlog", "ending", "closing", "closed"},
         q.leaked => q.place \in {"closing", "closed"}
  PROVE  Sound(q, c)
<1>1. Placed(q) /\ Authorised(q)
  BY DEF Blank, Placed, Authorised, PastAuthentication, Admitting, InTask, Early
<1>2. Sent(q, c) \in Seq(Nat) /\ Stream(c) \in Seq(Nat)
  <2> DEFINE s == Stream(c)
  <2>1. s \in Seq(Nat) /\ SkippedOf(q, c) + 1 \in Nat \ {0} /\ 0 <= Len(s)
    BY StreamType, SkippedType, LenProperties
  <2> HIDE DEF s
  <2>2. SubSeq(s, SkippedOf(q, c) + 1, 0) \in Seq(Nat)
    BY <2>1, PartOfStream
  <2> QED
    BY <2>1, <2>2 DEF Sent, s, Blank
<1>3. Got(q) = <<>>
  BY ConcatEmptySeq, EmptySeq DEF Got, Blank
<1>4. IsPrefix(Got(q), Sent(q, c))
  BY <1>2, <1>3, WholeIsPrefix
<1>5. 0 <= Len(Stream(c))
  BY <1>2, LenProperties
<1>6. Relayed(q, c)
  BY <1>4, <1>5 DEF Relayed, Complete, Blank
<1> QED
  BY <1>1, <1>6 DEF Sound

\* The thread or task returns or is dropped.
LEMMA EndedMoves ==
  ASSUME NEW c \in Conn, Sound(conn[c], c), conn[c].place \in InTask
  PROVE  Moves(conn[c], Ended(c), c)
<1>1. conn[c].session \in {"none", "open", "closed"} /\ conn[c] \in Record
  BY DEF Sound, Record
<1>2. Ended(c) \in Record
  BY <1>1, StartIsBlank DEF Ended, Record, Places
<1>3. /\ Blank(Ended(c)) /\ Ended(c).place = "ending" /\ Ended(c).part = 1
      /\ Ended(c).leaked = FALSE
  BY StartIsBlank DEF Ended, Blank, Start
<1>4. Sound(Ended(c), c)
  BY <1>2, <1>3, BlankIsSound
<1>5. \A part \in Parts : CountedBy(Ended(c), part) = CountedBy(conn[c], part)
  BY <1>3 DEF CountedBy, Parts
<1> QED
  BY <1>4, <1>5 DEF Moves

SameData(q, r) ==
  /\ q.presents = r.presents /\ q.auth = r.auth /\ q.since = r.since
  /\ q.nread = r.nread /\ q.buf = r.buf /\ q.delivered = r.delivered

\* On the way to its thread or task a connection only changes its place.
LEMMA AdmissionMoves ==
  ASSUME NEW c \in Conn, Sound(conn[c], c), NEW q,
         \/ /\ conn[c].place \in {"routing", "reserving", "establishing"}
            /\ \E place \in {"reserving", "failing", "closing", "establishing", "recording"} :
                 \E session \in {conn[c].session, "open"} :
                   q = [conn[c] EXCEPT !.place = place, !.session = session]
         \/ conn[c].place = "spawning" /\ q = [conn[c] EXCEPT !.place = "resolving"]
         \/ /\ conn[c].place = "spawning"
            /\ q = [conn[c] EXCEPT !.place = "closing", !.leaked = TRUE]
  PROVE  Moves(conn[c], q, c)
<1> DEFINE r == conn[c]
<1>1. r \in Record /\ Placed(r) /\ Authorised(r) /\ Relayed(r, c) /\ r.place \in Admitting
  BY DEF Sound, Admitting
<1>2. /\ SameData(q, r) /\ q.up = r.up /\ q.part = r.part
      /\ q.place \in Places /\ q.session \in {"none", "open", "closed"}
      /\ q.leaked \in BOOLEAN /\ q \in Record /\ r.leaked = FALSE
      /\ \/ /\ r.place \in {"routing", "reserving", "establishing"} /\ q.leaked = FALSE
            /\ q.place \in {"reserving", "failing", "closing", "establishing", "recording"}
         \/ r.place = "spawning" /\ q.leaked = FALSE /\ q.place = "resolving"
         \/ r.place = "spawning" /\ q.leaked = TRUE /\ q.place = "closing"
  BY <1>1 DEF SameData, Record, Places, Admitting, Placed, InTask
<1> HIDE DEF r
<1>3. Placed(q)
  BY <1>1, <1>2 DEF Placed, Admitting
<1>4. Authorised(q)
  BY <1>1, <1>2
     DEF SameData, Authorised, PastAuthentication, Admitted, Admitting, InTask, Placed, Early, Relayed
<1>5. Relayed(q, c)
  BY <1>1, <1>2 DEF SameData, Relayed, Complete, Got, Sent, SkippedOf, Admitting, Early, Placed
<1>6. \A part \in Parts : CountedBy(q, part) = CountedBy(r, part)
  BY <1>1, <1>2 DEF CountedBy, Parts, InTask, Admitting, Placed, Record
<1> QED
  BY <1>2, <1>3, <1>4, <1>5, <1>6 DEF Moves, Sound, r

\* A connection is accepted: its client is chosen, and the auth in effect begins
\* its history.
LEMMA AcceptMoves ==
  ASSUME NEW c \in Conn, Sound(conn[c], c), handle \in Auth \cup {NoHandle}, Accept(c)
  PROVE  \E q : Become(c, q) /\ Moves(conn[c], q, c)
<1> DEFINE r == conn[c]
<1>1. /\ r \in Record /\ Placed(r) /\ Authorised(r) /\ Relayed(r, c) /\ r.place = "backlog"
      /\ EffectiveAuth \in Auth
  BY AuthType DEF Sound, Accept, At
<1>2. PICK presented, q :
        /\ presented \in Presents[c]
        /\ Become(c, q)
        /\ q = [r EXCEPT !.place = "routing", !.presents = presented, !.since = {EffectiveAuth}]
  BY DEF Accept
<1>3. presented \in Credentials \cup {None}
  BY <1>2, ProxyAssumption
<1>4. /\ q.auth = r.auth /\ q.nread = r.nread /\ q.buf = r.buf /\ q.delivered = r.delivered
      /\ q.up = r.up /\ q.part = r.part /\ q.leaked = r.leaked /\ q.since = {EffectiveAuth}
      /\ q.place = "routing" /\ q.presents = presented /\ q \in Record
  BY <1>1, <1>2, <1>3 DEF Record, Places, Admitting
<1> HIDE DEF r
<1>5. Placed(q) /\ Authorised(q)
  BY <1>1, <1>4 DEF Placed, Authorised, PastAuthentication, Admitted, Admitting, InTask, Early, Relayed
<1>6. q.nread = 0 /\ q.buf = <<>> /\ q.delivered = <<>> /\ q.up = "none"
  BY <1>1, <1>4 DEF Relayed, Early, Placed
<1>7. Relayed(q, c)
  <2> DEFINE s == Stream(c)
  <2>1. s \in Seq(Nat) /\ SkippedOf(q, c) + 1 \in Nat \ {0} /\ 0 <= Len(s)
    BY StreamType, SkippedType, LenProperties
  <2> HIDE DEF s
  <2>2. SubSeq(s, SkippedOf(q, c) + 1, 0) \in Seq(Nat)
    BY <2>1, PartOfStream
  <2>3. Sent(q, c) \in Seq(Nat)
    BY <1>6, <2>2 DEF Sent, s
  <2>4. IsPrefix(Got(q), Sent(q, c))
    BY <1>6, <2>3, WholeIsPrefix, ConcatEmptySeq, EmptySeq DEF Got
  <2> QED
    BY <1>4, <1>6, <2>1, <2>4 DEF Relayed, Complete, s
<1>8. \A part \in Parts : CountedBy(q, part) = CountedBy(r, part)
  BY <1>1, <1>4 DEF CountedBy, InTask
<1> QED
  BY <1>2, <1>4, <1>5, <1>7, <1>8 DEF Moves, Sound, r

\* The auth in effect is taken, and with it the way to the backend.
LEMMA ResolveMoves ==
  ASSUME NEW c \in Conn, Sound(conn[c], c), handle \in Auth \cup {NoHandle},
         mode \in {"sync", "async"}, Resolve(c)
  PROVE  \E q : Become(c, q) /\ Moves(conn[c], q, c)
<1> DEFINE r == conn[c]
<1>1. /\ r \in Record /\ Placed(r) /\ Authorised(r) /\ Relayed(r, c) /\ r.place = "resolving"
      /\ EffectiveAuth \in Auth /\ None \notin Auth
  BY AuthType DEF Sound, Resolve, At
<1>2. PICK place, q :
        /\ Become(c, q) /\ q = [r EXCEPT !.auth = EffectiveAuth, !.place = place]
        /\ place = IF mode = "sync" /\ EffectiveAuth # Open THEN "authenticating" ELSE "connecting"
  BY DEF Resolve
<1>3. /\ q.presents = r.presents /\ q.nread = r.nread /\ q.buf = r.buf /\ q.delivered = r.delivered
      /\ q.up = r.up /\ q.part = r.part /\ q.leaked = r.leaked /\ q.since = r.since
      /\ q.place = place /\ q.auth = EffectiveAuth /\ q \in Record
      /\ place \in {"authenticating", "connecting"}
  BY <1>1, <1>2 DEF Record, Places, InTask
<1> HIDE DEF r
<1>4. q.nread = 0 /\ q.buf = <<>> /\ q.delivered = <<>> /\ q.up = "none"
  BY <1>1, <1>3 DEF Relayed, Early, Placed
<1>5. mode = "sync" /\ place = "connecting" => q.auth = Open
  BY <1>2, <1>3
<1>6. Placed(q) /\ Authorised(q)
  BY <1>1, <1>3, <1>4, <1>5
     DEF Placed, Authorised, PastAuthentication, Admitted, Admitting, InTask, Early
<1>7. Relayed(q, c)
  <2> DEFINE s == Stream(c)
  <2>1. s \in Seq(Nat) /\ SkippedOf(q, c) + 1 \in Nat \ {0} /\ 0 <= Len(s)
    BY StreamType, SkippedType, LenProperties
  <2> HIDE DEF s
  <2>2. SubSeq(s, SkippedOf(q, c) + 1, 0) \in Seq(Nat) /\ SubSeq(s, SkippedOf(q, c) + 1, 0) = <<>>
    <3>1. 0 < SkippedOf(q, c) + 1
      BY SkippedType
    <3> QED
      BY <2>1, <3>1, PartOfStream
  <2>3. Sent(q, c) = <<>> /\ Got(q) = <<>>
    BY <1>4, <2>2, ConcatEmptySeq, EmptySeq DEF Sent, Got, s
  <2>4. IsPrefix(Got(q), Sent(q, c))
    BY <2>3, WholeIsPrefix, EmptySeq
  <2>5. 0 < HeaderLen[c]
    BY SkippedType
  <2> QED
    BY <1>3, <1>4, <1>5, <2>1, <2>3, <2>4, <2>5 DEF Relayed, Complete, Early, Admitting, s, SkippedOf
<1>8. \A part \in Parts : CountedBy(q, part) = CountedBy(r, part)
  BY <1>1, <1>3 DEF CountedBy, InTask
<1> QED
  BY <1>2, <1>3, <1>6, <1>7, <1>8 DEF Moves, Sound, r

\* The backend is there: the relay comes next, after what is left of the read
\* that completed the header, or the client is asked for its header.
LEMMA ConnectMoves ==
  ASSUME NEW c \in Conn, Sound(conn[c], c), mode \in {"sync", "async"}, Connect(c)
  PROVE  \E q : Become(c, q) /\ Moves(conn[c], q, c)
<1> DEFINE r == conn[c]
<1>1. /\ r \in Record /\ Placed(r) /\ Authorised(r) /\ Relayed(r, c) /\ r.place = "connecting"
  BY DEF Sound, Connect, At
<1>2. PICK place, q :
        /\ Become(c, q) /\ q = [r EXCEPT !.place = place, !.buf = r.buf]
        /\ \/ mode = "async" /\ r.auth # Open /\ place = "authenticating"
           \/ (mode = "sync" \/ r.auth = Open) /\ r.buf = <<>> /\ place = "relaying"
           \/ (mode = "sync" \/ r.auth = Open) /\ r.buf # <<>> /\ place = "writing"
  <2>1. CASE mode = "async" /\ r.auth # Open
    <3>1. [r EXCEPT !.place = "authenticating", !.buf = r.buf] = [r EXCEPT !.place = "authenticating"]
      BY <1>1 DEF Record
    <3> QED
      BY <2>1, <3>1 DEF Connect, Goto
  <2>2. CASE ~(mode = "async" /\ r.auth # Open)
    <3>1. Forward(r, r.buf) =
            [r EXCEPT !.place = IF r.buf = <<>> THEN "relaying" ELSE "writing", !.buf = r.buf]
      BY <1>1 DEF Record, Forward
    <3>2. Become(c, Forward(r, r.buf))
      BY <2>2 DEF Connect
    <3> QED
      BY <2>2, <3>1, <3>2
  <2> QED
    BY <2>1, <2>2
<1>3. /\ SameData(q, r) /\ q.up = r.up /\ q.part = r.part /\ q.leaked = r.leaked
      /\ q.place = place /\ q \in Record /\ place \in {"authenticating", "relaying", "writing"}
  BY <1>1, <1>2 DEF Record, Places, InTask, SameData
<1> HIDE DEF r
<1>4. q.up = "none" /\ r.delivered = <<>> /\ r.leaked = FALSE /\ r.part = 1
  BY <1>1, <1>3 DEF Relayed, Placed, Record
<1>5. Placed(q)
  BY <1>1, <1>3, <1>4 DEF Placed
<1>6. Authorised(q)
  BY <1>1, <1>2, <1>3, <1>4
     DEF Authorised, PastAuthentication, Admitted, Admitting, InTask, Early, SameData
<1>7. Relayed(q, c)
  <2>1. Got(q) = Got(r) /\ Sent(q, c) = Sent(r, c) /\ SkippedOf(q, c) = SkippedOf(r, c)
    BY <1>3 DEF Got, Sent, SkippedOf, SameData
  <2>2. ASSUME mode = "async", r.auth = Open
        PROVE  SkippedOf(r, c) = 0 /\ r.nread = 0 /\ Got(r) = <<>> /\ Sent(r, c) = <<>>
    <3>1. SkippedOf(r, c) = 0 /\ r.nread = 0 /\ r.buf = <<>>
      BY <1>1, <2>2 DEF SkippedOf, Relayed
    <3>2. Got(r) = <<>>
      BY <1>4, <3>1, ConcatEmptySeq, EmptySeq DEF Got
    <3>3. SubSeq(Stream(c), 1, 0) = <<>>
      BY SubSeqEmpty
    <3> QED
      BY <3>1, <3>2, <3>3 DEF Sent
  <2>3. place # "authenticating" => SkippedOf(r, c) <= r.nread /\ Got(r) = Sent(r, c)
    BY <1>1, <1>2, <2>2 DEF Relayed, Complete
  <2>4. place = "authenticating" => r.buf = <<>>
    BY <1>1, <1>2 DEF Relayed
  <2>5. place = "authenticating" /\ r.presents # None => r.nread < HeaderLen[c]
    <3>1. 0 < HeaderLen[c]
      BY SkippedType
    <3>2. place = "authenticating" => mode = "async"
      BY <1>2
    <3> QED
      BY <1>1, <3>1, <3>2 DEF Relayed
  <2> QED
    BY <1>1, <1>3, <1>4, <2>1, <2>3, <2>4, <2>5 DEF Relayed, Complete, SameData, Early, Admitting
<1>8. \A part \in Parts : CountedBy(q, part) = CountedBy(r, part)
  BY <1>1, <1>3 DEF CountedBy, InTask
<1> QED
  BY <1>2, <1>3, <1>5, <1>6, <1>7, <1>8 DEF Moves, Sound, r

\* A read of the header: more is to come, the connection is refused, or it is
\* let through, with what was read after the header.
LEMMA ReadHeaderMoves ==
  ASSUME NEW c \in Conn, Sound(conn[c], c), mode \in {"sync", "async"}, ReadHeader(c)
  PROVE  \E q : Become(c, q) /\ Moves(conn[c], q, c)
<1> DEFINE r == conn[c]
           s == Stream(c)
<1>1. /\ r \in Record /\ Placed(r) /\ Authorised(r) /\ Relayed(r, c) /\ r.place = "authenticating"
      /\ s \in Seq(Nat) /\ Len(s) \in Nat
  BY StreamType, LenProperties DEF Sound, ReadHeader, At
<1>2. PICK n, q :
        /\ n \in 1..Len(s) - r.nread
        /\ Become(c, q)
        /\ \/ q = Ended(c)
           \/ /\ ~EndFound(c, r.nread, r.nread + n)
              /\ q = [r EXCEPT !.nread = r.nread + n]
           \/ /\ EndFound(c, r.nread, r.nread + n) /\ r.presents = r.auth
              /\ q = Authenticated([r EXCEPT !.nread = r.nread + n],
                                   SubSeq(s, HeaderLen[c] + 1, r.nread + n))
  BY DEF ReadHeader, Unread
<1>3. CASE q = Ended(c)
  BY <1>1, <1>2, <1>3, EndedMoves DEF InTask
<1> HIDE DEF r, s
<1>4. /\ n \in Nat /\ r.nread \in Nat /\ r.nread + n <= Len(s) /\ 1 <= r.nread + n
      /\ r.delivered = <<>> /\ r.buf = <<>> /\ r.up = "none" /\ r.leaked = FALSE /\ r.part = 1
  BY <1>1, <1>2 DEF Record, Relayed, Placed
<1>5. CASE ~EndFound(c, r.nread, r.nread + n) /\ q = [r EXCEPT !.nread = r.nread + n]
  <2> DEFINE m == r.nread + n
  <2>0. /\ m \in Nat /\ m <= Len(s) /\ q = [r EXCEPT !.nread = m]
        /\ r.presents # None => m < HeaderLen[c]
    <3>1. r.presents # None => r.nread < HeaderLen[c]
      BY <1>1 DEF Relayed
    <3>2. /\ HeaderLen[c] \in Nat /\ EndLen \in Nat \ {0} /\ EndLen <= HeaderLen[c]
      BY SkippedType
    <3>3. ASSUME r.presents # None PROVE SearchFrom(r.nread) <= HeaderLen[c] - EndLen
      BY <1>4, <3>1, <3>2, <3>3 DEF SearchFrom
    <3>4. ~EndFound(c, r.nread, m) /\ q = [r EXCEPT !.nread = m]
      BY <1>5
    <3>5. r.presents # None => ~(HeaderLen[c] <= m)
      BY <3>3, <3>4 DEF EndFound, r
    <3> QED
      BY <1>4, <3>2, <3>4, <3>5
  <2> HIDE DEF m
  <2>1. /\ q.presents = r.presents /\ q.auth = r.auth /\ q.since = r.since /\ q.place = r.place
        /\ q.buf = <<>> /\ q.delivered = <<>> /\ q.up = "none" /\ q.part = r.part
        /\ q.leaked = r.leaked /\ q.nread = m /\ q \in Record
    BY <1>1, <1>4, <2>0 DEF Record
  <2>2. Placed(q) /\ Authorised(q)
    BY <1>1, <1>4, <2>1 DEF Placed, Authorised, PastAuthentication, Admitted, InTask, Early, Admitting
  <2>3. Got(q) = <<>>
    BY <2>1, ConcatEmptySeq, EmptySeq DEF Got
  <2>4. Sent(q, c) \in Seq(Nat)
    <3>1. SkippedOf(q, c) + 1 \in Nat \ {0}
      BY SkippedType
    <3>2. SubSeq(s, SkippedOf(q, c) + 1, m) \in Seq(Nat)
      BY <1>1, <2>0, <3>1, PartOfStream
    <3> QED
      BY <2>1, <3>2 DEF Sent, s
  <2>5. Relayed(q, c)
    BY <1>1, <1>4, <2>0, <2>1, <2>3, <2>4, WholeIsPrefix DEF Relayed, Complete, Early, Admitting, s
  <2>6. \A part \in Parts : CountedBy(q, part) = CountedBy(r, part)
    BY <1>1, <2>1 DEF CountedBy
  <2> QED
    BY <1>2, <2>1, <2>2, <2>5, <2>6 DEF Moves, Sound, r
<1>6. CASE /\ EndFound(c, r.nread, r.nread + n) /\ r.presents = r.auth
           /\ q = Authenticated([r EXCEPT !.nread = r.nread + n],
                                SubSeq(s, HeaderLen[c] + 1, r.nread + n))
  <2> DEFINE m == r.nread + n
             rest == SubSeq(s, HeaderLen[c] + 1, m)
  <2>1. /\ m \in Nat /\ HeaderLen[c] <= m /\ m <= Len(s)
        /\ HeaderLen[c] \in Nat /\ HeaderLen[c] + 1 \in Nat \ {0}
        /\ q = Authenticated([r EXCEPT !.nread = m], rest)
    BY <1>4, <1>6, SkippedType DEF EndFound
  <2> HIDE DEF m
  <2>2. rest \in Seq(Nat)
    BY <1>1, <2>1, PartOfStream
  <2> HIDE DEF rest
  <2>3. /\ q.presents = r.presents /\ q.auth = r.auth /\ q.since = r.since
        /\ q.buf = rest /\ q.delivered = <<>> /\ q.up = "none" /\ q.part = r.part
        /\ q.leaked = r.leaked /\ q.nread = m /\ q \in Record
        /\ \/ mode = "async" /\ rest = <<>> /\ q.place = "relaying"
           \/ mode = "async" /\ rest # <<>> /\ q.place = "writing"
           \/ mode = "sync" /\ q.place = "connecting"
    BY <1>1, <1>4, <2>1, <2>2 DEF Record, Authenticated, Forward, Places, InTask
  <2>4. r.auth # None /\ r.auth # Open
    BY <1>1, <1>6, ProxyAssumption DEF Authorised, InTask, Record, Auth
  <2>5. Placed(q)
    BY <1>1, <1>4, <2>3 DEF Placed
  <2>6. Authorised(q)
    BY <1>1, <1>6, <2>3, <2>4
       DEF Authorised, PastAuthentication, Admitted, InTask, Early, Admitting
  <2>7. Got(q) = rest
    BY <2>2, <2>3, ConcatEmptySeq DEF Got
  <2>8. SkippedOf(q, c) = HeaderLen[c] /\ Sent(q, c) = rest
    BY <2>3, <2>4 DEF Sent, SkippedOf, rest, s
  <2>9. Relayed(q, c)
    BY <1>1, <1>4, <2>1, <2>2, <2>3, <2>7, <2>8, WholeIsPrefix DEF Relayed, Complete, Early, Admitting, s
  <2>10. \A part \in Parts : CountedBy(q, part) = CountedBy(r, part)
    BY <1>1, <2>3 DEF CountedBy, InTask
  <2> QED
    BY <1>2, <2>3, <2>5, <2>6, <2>9, <2>10 DEF Moves, Sound, r
<1> QED
  BY <1>2, <1>3, <1>5, <1>6

\* What is written has been read before: nothing is lost on the way.
LEMMA WriteMoves ==
  ASSUME NEW c \in Conn, Sound(conn[c], c), WriteTrailing(c) \/ RelayWrite(c)
  PROVE  \E q : Become(c, q) /\ Moves(conn[c], q, c)
<1> DEFINE r == conn[c]
<1>1. /\ r \in Record /\ Placed(r) /\ Authorised(r) /\ Relayed(r, c)
      /\ (r.place = "writing" /\ WriteTrailing(c)) \/ (r.up = "running" /\ RelayWrite(c))
  BY DEF Sound, WriteTrailing, RelayWrite, At, Running
<1>2. PICK place, q :
        /\ Become(c, q)
        /\ q = [r EXCEPT !.delivered = r.delivered \o r.buf, !.buf = <<>>, !.place = place]
        /\ \/ r.place = "writing" /\ place = "relaying"
           \/ r.up = "running" /\ place = r.place
  <2>1. CASE WriteTrailing(c)
    BY <1>1, <2>1 DEF WriteTrailing, At
  <2>2. CASE RelayWrite(c)
    <3>1. [r EXCEPT !.delivered = r.delivered \o r.buf, !.buf = <<>>]
            = [r EXCEPT !.delivered = r.delivered \o r.buf, !.buf = <<>>, !.place = r.place]
      BY <1>1 DEF Record
    <3> QED
      BY <2>2, <3>1 DEF RelayWrite, Running
  <2> QED
    BY <2>1, <2>2, <1>1
<1> HIDE DEF r
<1>3. r.delivered \in Seq(Nat) /\ r.buf \in Seq(Nat) /\ Got(r) \in Seq(Nat)
  BY <1>1, ConcatProperties DEF Record, Got
<1>4. /\ q.presents = r.presents /\ q.auth = r.auth /\ q.since = r.since /\ q.nread = r.nread
      /\ q.up = r.up /\ q.part = r.part /\ q.leaked = r.leaked /\ q.place = place
      /\ q.delivered = Got(r) /\ q.buf = <<>> /\ q \in Record
  BY <1>1, <1>2, <1>3, EmptySeq DEF Record, Places, InTask, Got
<1>5. r.place \in {"writing", "relaying", "closing", "closed"}
  BY <1>1, <1>2 DEF Placed
<1>6. Placed(q) /\ Authorised(q)
  BY <1>1, <1>2, <1>4, <1>5
     DEF Placed, Authorised, PastAuthentication, Admitted, InTask, Early, Admitting
<1>7. Got(q) = Got(r) /\ Sent(q, c) = Sent(r, c) /\ SkippedOf(q, c) = SkippedOf(r, c)
  BY <1>3, <1>4, ConcatEmptySeq DEF Got, Sent, SkippedOf
<1>8. Relayed(q, c)
  BY <1>1, <1>2, <1>4, <1>5, <1>7 DEF Relayed, Complete, Early, Admitting
<1>9. \A part \in Parts : CountedBy(q, part) = CountedBy(r, part)
  BY <1>2, <1>4, <1>5 DEF CountedBy, InTask
<1> QED
  BY <1>2, <1>4, <1>6, <1>8, <1>9 DEF Moves, Sound, r

\* The relay starts, or its threads do not; one direction of it ends.
LEMMA RelayMoves ==
  ASSUME NEW c \in Conn, Sound(conn[c], c), StartRelay(c) \/ SpawnPanics(c) \/ RelayDownEnds(c)
  PROVE  \E q : Become(c, q) /\ Moves(conn[c], q, c)
<1> DEFINE r == conn[c]
<1>1. r \in Record /\ Placed(r) /\ Authorised(r) /\ Relayed(r, c)
  BY DEF Sound
<1>2. PICK q :
        /\ Become(c, q)
        /\ \/ r.place = "relaying" /\ r.up = "none" /\ q = [r EXCEPT !.up = "running", !.down = "running"]
           \/ /\ r.place = "relaying" /\ r.up = "none"
              /\ \E up \in {"none", "running"} : q = [r EXCEPT !.place = "closing", !.up = up, !.leaked = TRUE]
           \/ q = [r EXCEPT !.down = "ended"]
  BY DEF StartRelay, SpawnPanics, RelayDownEnds, At
<1> HIDE DEF r
<1>3. /\ SameData(q, r) /\ q.part = r.part /\ q \in Record
      /\ \/ /\ r.place = "relaying" /\ r.up = "none" /\ q.up \in {"none", "running"}
            /\ (q.place = r.place /\ q.leaked = r.leaked /\ q.up = "running")
                 \/ (q.place = "closing" /\ q.leaked)
         \/ q.place = r.place /\ q.leaked = r.leaked /\ q.up = r.up
  BY <1>1, <1>2 DEF Record, Places, SameData
<1>4. Placed(q) /\ Authorised(q)
  BY <1>1, <1>3
     DEF Placed, Authorised, PastAuthentication, Admitted, InTask, Early, Admitting, SameData
<1>5. Got(q) = Got(r) /\ Sent(q, c) = Sent(r, c) /\ SkippedOf(q, c) = SkippedOf(r, c)
  BY <1>3 DEF Got, Sent, SkippedOf, SameData
<1>6. Relayed(q, c)
  BY <1>1, <1>3, <1>5 DEF Relayed, Complete, Early, Admitting, SameData
<1>7. \A part \in Parts : CountedBy(q, part) = CountedBy(r, part)
  BY <1>1, <1>3 DEF CountedBy, InTask, Placed
<1> QED
  BY <1>2, <1>3, <1>4, <1>6, <1>7 DEF Moves, Sound, r

\* The next items are read when the last ones have been written.
LEMMA RelayReadMoves ==
  ASSUME NEW c \in Conn, Sound(conn[c], c), RelayRead(c)
  PROVE  \E q : Become(c, q) /\ Moves(conn[c], q, c)
<1> DEFINE r == conn[c]
           s == Stream(c)
<1>1. /\ r \in Record /\ Placed(r) /\ Authorised(r) /\ Relayed(r, c)
      /\ r.up = "running" /\ r.buf = <<>> /\ s \in Seq(Nat) /\ Len(s) \in Nat
  BY StreamType, LenProperties DEF Sound, RelayRead, Running
<1>2. PICK n, q :
        /\ n \in 1..Len(s) - r.nread
        /\ Become(c, q)
        /\ q = [r EXCEPT !.buf = SubSeq(s, r.nread + 1, r.nread + n), !.nread = r.nread + n]
  BY DEF RelayRead, Unread, NextItems
<1> HIDE DEF r, s
<1>3. /\ n \in Nat /\ r.nread \in Nat /\ r.nread + n <= Len(s)
      /\ r.delivered \in Seq(Nat) /\ SkippedOf(r, c) \in Nat /\ SkippedOf(r, c) <= r.nread
      /\ Got(r) = Sent(r, c)
  <2>1. SkippedOf(r, c) \in Nat
    BY SkippedType
  <2>2. r.nread \in Nat /\ r.delivered \in Seq(Nat) /\ Len(s) \in Nat
    BY <1>1 DEF Record
  <2>3. SkippedOf(r, c) <= r.nread /\ Got(r) = Sent(r, c)
    BY <1>1 DEF Relayed, Complete
  <2> QED
    BY <1>2, <2>1, <2>2, <2>3
<1> DEFINE m == r.nread + n
           new == SubSeq(s, r.nread + 1, m)
<1>4. m \in Nat /\ m <= Len(s) /\ r.nread <= m /\ q = [r EXCEPT !.buf = new, !.nread = m]
  BY <1>2, <1>3
<1>5. new \in Seq(Nat)
  <2> HIDE DEF m
  <2>1. r.nread + 1 \in Nat \ {0}
    BY <1>3
  <2> QED
    BY <1>1, <1>4, <2>1, PartOfStream
<1>6. SubSeq(s, SkippedOf(r, c) + 1, r.nread) \o new = SubSeq(s, SkippedOf(r, c) + 1, m)
  BY <1>1, <1>3, NextPartOfStream
<1> HIDE DEF m, new
<1>7. /\ q.presents = r.presents /\ q.auth = r.auth /\ q.since = r.since /\ q.nread = m
      /\ q.up = r.up /\ q.part = r.part /\ q.leaked = r.leaked /\ q.place = r.place
      /\ q.delivered = r.delivered /\ q.buf = new /\ q \in Record
  BY <1>1, <1>4, <1>5 DEF Record
<1>8. Placed(q) /\ Authorised(q)
  BY <1>1, <1>7 DEF Placed, Authorised, PastAuthentication, Admitted, InTask, Early, Admitting
<1>9. Got(q) = Sent(q, c) /\ SkippedOf(q, c) = SkippedOf(r, c) /\ SkippedOf(q, c) <= m
  <2>1. r.delivered = SubSeq(s, SkippedOf(r, c) + 1, r.nread)
    BY <1>1, <1>3, ConcatEmptySeq DEF Got, Sent, s
  <2>2. SkippedOf(q, c) = SkippedOf(r, c) /\ SkippedOf(r, c) <= m
    BY <1>3, <1>4, <1>7 DEF SkippedOf
  <2> QED
    BY <1>6, <1>7, <2>1, <2>2 DEF Got, Sent, s
<1>10. Relayed(q, c)
  <2>1. Got(q) \in Seq(Nat)
    BY <1>3, <1>5, <1>7, ConcatProperties DEF Got
  <2>2. IsPrefix(Got(q), Sent(q, c))
    BY <1>9, <2>1, WholeIsPrefix
  <2>3. r.place \in {"relaying", "closing", "closed"}
    BY <1>1 DEF Placed
  <2> QED
    BY <1>4, <1>7, <1>9, <2>2, <2>3 DEF Relayed, Early, Admitting, s
<1>11. \A part \in Parts : CountedBy(q, part) = CountedBy(r, part)
  BY <1>7 DEF CountedBy
<1> QED
  BY <1>2, <1>7, <1>8, <1>10, <1>11 DEF Moves, Sound, r

\* The direction to the backend ends, the last write of it in any part.
LEMMA RelayEndMoves ==
  ASSUME NEW c \in Conn, Sound(conn[c], c), RelayUpEnds(c)
  PROVE  \E q : Become(c, q) /\ Moves(conn[c], q, c)
<1> DEFINE r == conn[c]
<1>1. r \in Record /\ Placed(r) /\ Authorised(r) /\ Relayed(r, c) /\ r.up = "running"
  BY DEF Sound, RelayUpEnds, Running
<1>2. PICK n, q :
        /\ n \in 0..Len(r.buf)
        /\ Become(c, q)
        /\ q = [r EXCEPT !.delivered = r.delivered \o SubSeq(r.buf, 1, n), !.buf = <<>>, !.up = "ended"]
  BY DEF RelayUpEnds
<1> HIDE DEF r
<1> DEFINE written == r.delivered \o SubSeq(r.buf, 1, n)
<1>3. r.delivered \in Seq(Nat) /\ r.buf \in Seq(Nat)
  BY <1>1 DEF Record
<1>4. written \in Seq(Nat) /\ IsPrefix(written, Got(r))
  BY <1>2, <1>3, CutIsPrefix, ConcatProperties DEF Got
<1> HIDE DEF written
<1>5. q = [r EXCEPT !.delivered = written, !.buf = <<>>, !.up = "ended"]
  BY <1>2 DEF written
<1>6. /\ q.presents = r.presents /\ q.auth = r.auth /\ q.since = r.since /\ q.nread = r.nread
      /\ q.up = "ended" /\ q.part = r.part /\ q.leaked = r.leaked /\ q.place = r.place
      /\ q.delivered = written /\ q.buf = <<>> /\ q \in Record
  BY <1>1, <1>4, <1>5, EmptySeq DEF Record
<1>7. Placed(q) /\ Authorised(q)
  BY <1>1, <1>6 DEF Placed, Authorised, PastAuthentication, Admitted, InTask, Early, Admitting
<1>8. Got(q) = written /\ Sent(q, c) = Sent(r, c) /\ Got(r) = Sent(r, c)
  BY <1>1, <1>4, <1>6, ConcatEmptySeq DEF Got, Sent, SkippedOf, Relayed, Complete
<1>9. Relayed(q, c)
  <2>1. r.place \in {"relaying", "closing", "closed"}
    BY <1>1 DEF Placed
  <2> QED
    BY <1>1, <1>4, <1>6, <1>8, <2>1 DEF Relayed, Complete, Early, Admitting
<1>10. \A part \in Parts : CountedBy(q, part) = CountedBy(r, part)
  BY <1>6 DEF CountedBy
<1> QED
  BY <1>2, <1>6, <1>7, <1>9, <1>10 DEF Moves, Sound, r

\* The guard session is closed; a direction that still runs goes on.
LEMMA CloseMoves ==
  ASSUME NEW c \in Conn, Sound(conn[c], c), CloseSession(c)
  PROVE  \E q : Become(c, q) /\ Moves(conn[c], q, c)
<1> DEFINE r == conn[c]
<1>1. /\ r \in Record /\ Placed(r) /\ Authorised(r) /\ Relayed(r, c) /\ r.place = "closing"
  BY DEF Sound, CloseSession, At
<1> DEFINE session == IF r.session = "open" THEN "closed" ELSE r.session
<1>2. /\ session \in {"none", "open", "closed"}
      /\ \/ r.up = "running" /\ Become(c, [r EXCEPT !.place = "closed", !.session = session])
         \/ Become(c, [Start EXCEPT !.place = "closed", !.session = session, !.leaked = r.leaked])
  <2>1. session \in {"none", "open", "closed"}
    BY <1>1 DEF Record
  <2>2. Become(c, IF r.up = "running" THEN [r EXCEPT !.place = "closed", !.session = session]
                  ELSE [Start EXCEPT !.place = "closed", !.session = session, !.leaked = r.leaked])
    BY DEF CloseSession, Running
  <2> QED
    BY <2>1, <2>2
<1> HIDE DEF session
<1> HIDE DEF r
<1>3. ASSUME NEW q, q = [r EXCEPT !.place = "closed", !.session = session], r.up = "running"
      PROVE  Moves(r, q, c)
  <2>1. /\ SameData(q, r) /\ q.part = r.part /\ q.up = r.up /\ q.leaked = r.leaked
        /\ q.place = "closed" /\ q \in Record
    BY <1>1, <1>2, <1>3 DEF Record, Places, SameData
  <2>2. Placed(q) /\ Authorised(q)
    BY <1>1, <1>3, <2>1
       DEF Placed, Authorised, PastAuthentication, Admitted, InTask, Early, Admitting, SameData
  <2>3. Got(q) = Got(r) /\ Sent(q, c) = Sent(r, c) /\ SkippedOf(q, c) = SkippedOf(r, c)
    BY <2>1 DEF Got, Sent, SkippedOf, SameData
  <2>4. Relayed(q, c)
    BY <1>1, <1>3, <2>1, <2>3 DEF Relayed, Complete, Early, Admitting, SameData
  <2>5. \A part \in Parts : CountedBy(q, part) = CountedBy(r, part)
    BY <1>1, <2>1 DEF CountedBy, InTask
  <2> QED
    BY <2>1, <2>2, <2>4, <2>5 DEF Moves, Sound
<1>4. ASSUME NEW q, q = [Start EXCEPT !.place = "closed", !.session = session, !.leaked = r.leaked]
      PROVE  Moves(r, q, c)
  <2>1. q \in Record
    BY <1>1, <1>2, <1>4, StartIsBlank DEF Record, Places
  <2>2. Blank(q) /\ q.place = "closed" /\ q.leaked = r.leaked
    BY <1>4, StartIsBlank DEF Blank, Start
  <2>3. Sound(q, c)
    BY <2>1, <2>2, BlankIsSound
  <2>4. \A part \in Parts : CountedBy(q, part) = CountedBy(r, part)
    BY <1>1, <2>2 DEF CountedBy, InTask
  <2> QED
    BY <2>3, <2>4 DEF Moves
<1> QED
  BY <1>2, <1>3, <1>4 DEF r

\* A call of the collector: the connection goes from part to part, and after
\* the last one to its next place.
LEMMA PartMoves ==
  ASSUME NEW c \in Conn, Sound(conn[c], c), NEW then,
         \/ At(c, "failing") /\ then = "closing"
         \/ At(c, "recording") /\ then = "spawning"
         \/ At(c, "ending") /\ then = "closing",
         NextPart(c, then)
  PROVE  \E q : /\ Become(c, q) /\ Sound(q, c) /\ q \in Record
                /\ \A part \in Parts :
                     CountedBy(q, part) <=> IF part # conn[c].part THEN CountedBy(conn[c], part)
                                            ELSE At(c, "recording")
                /\ (CountedBy(conn[c], conn[c].part) <=> At(c, "ending"))
                /\ conn[c].part \in Parts
<1> DEFINE r == conn[c]
<1>1. /\ r \in Record /\ Placed(r) /\ Authorised(r) /\ Relayed(r, c) /\ r.part \in Parts
      /\ \/ r.place = "failing" /\ then = "closing"
         \/ r.place = "recording" /\ then = "spawning"
         \/ r.place = "ending" /\ then = "closing"
  BY DEF Sound, At, Record
<1>2. PICK q : /\ Become(c, q)
               /\ q = IF r.part = 3 THEN [r EXCEPT !.place = then, !.part = 1]
                      ELSE [r EXCEPT !.part = r.part + 1]
  BY DEF NextPart
<1>3. (At(c, "recording") <=> r.place = "recording") /\ (At(c, "ending") <=> r.place = "ending")
  BY DEF At
<1> HIDE DEF r
<1>4. r.leaked = FALSE /\ r.up = "none"
  BY <1>1 DEF Placed, Record
<1>5. /\ SameData(q, r) /\ q.up = r.up /\ q.leaked = r.leaked /\ q \in Record
      /\ \/ r.part = 3 /\ q.place = then /\ q.part = 1
         \/ r.part \in {1, 2} /\ q.place = r.place /\ q.part = r.part + 1
  <2>1. r.part \in {1, 2, 3} /\ Parts = {1, 2, 3}
    BY <1>1 DEF Parts
  <2>2. CASE r.part = 3
    BY <1>1, <1>2, <2>1, <2>2 DEF Record, Places, Admitting, SameData
  <2>3. CASE r.part # 3
    <3>1. PICK k \in Parts : k = r.part + 1 /\ q = [r EXCEPT !.part = k]
      BY <1>2, <2>1, <2>3
    <3> QED
      BY <1>1, <2>1, <2>3, <3>1 DEF Record, SameData
  <2> QED
    BY <2>2, <2>3
<1>6. Placed(q) /\ Authorised(q)
  BY <1>1, <1>4, <1>5
     DEF Placed, Authorised, PastAuthentication, Admitted, InTask, Early, Admitting, SameData
<1>7. Got(q) = Got(r) /\ Sent(q, c) = Sent(r, c) /\ SkippedOf(q, c) = SkippedOf(r, c)
  BY <1>5 DEF Got, Sent, SkippedOf, SameData
<1>8. Relayed(q, c)
  BY <1>1, <1>4, <1>5, <1>7 DEF Relayed, Complete, Early, Admitting, SameData
<1>9. \A part \in Parts :
        CountedBy(q, part) <=> IF part # r.part THEN CountedBy(r, part) ELSE r.place = "recording"
  <2>1. \A part \in Parts : CountedBy(r, part) <=>
           \/ r.place = "recording" /\ part < r.part
           \/ r.place = "ending" /\ part >= r.part
    BY <1>1, <1>4 DEF CountedBy, InTask
  <2>2. \A part \in Parts : CountedBy(q, part) <=>
           \/ q.place = "spawning"
           \/ q.place = "recording" /\ part < q.part
           \/ q.place = "ending" /\ part >= q.part
    BY <1>1, <1>4, <1>5 DEF CountedBy, InTask
  <2>3. r.part \in {1, 2, 3} /\ Parts = {1, 2, 3}
    BY <1>1 DEF Parts
  <2> QED
    BY <1>1, <1>5, <2>1, <2>2, <2>3
<1>10. CountedBy(r, r.part) <=> r.place = "ending"
  <2>1. r.part \in Nat
    BY <1>1 DEF Parts
  <2> QED
    BY <1>1, <1>4, <2>1 DEF CountedBy, InTask
<1> QED
  BY <1>1, <1>2, <1>3, <1>5, <1>6, <1>8, <1>9, <1>10 DEF Sound, r

-----------------------------------------------------------------------------
(* The connections together *)

\* One connection is given a record that is sound, and the others are as they
\* were.
LEMMA ConnectionsKept ==
  ASSUME Connections, NEW c \in Conn, NEW q, Become(c, q), Sound(q, c), UNCHANGED <<mode, handle>>
  PROVE  Connections'
<1>1. q \in Record
  BY DEF Sound
<1>2. conn' \in [Conn -> Record] /\ conn'[c] = q /\ \A d \in Conn \ {c} : conn'[d] = conn[d]
  BY <1>1 DEF Connections, Become
<1>3. \A d \in Conn : Sound(conn'[d], d)
  BY <1>2 DEF Connections
<1>4. ASSUME NEW d \in Conn PROVE Sound(conn[d], d)'
  <2>1. EffectiveAuth' = EffectiveAuth /\ mode' = mode
    BY DEF EffectiveAuth
  <2>2. Authorised(conn'[d]) /\ Relayed(conn'[d], d) /\ conn'[d] \in Record /\ Placed(conn'[d])
    BY <1>3 DEF Sound
  <2>3. Authorised(conn[d])'
    BY <2>1, <2>2 DEF Authorised, PastAuthentication, Admitted
  <2>4. Relayed(conn[d], d)'
    BY <2>1, <2>2 DEF Relayed, Complete, Got, Sent, SkippedOf
  <2> QED
    BY <2>2, <2>3, <2>4 DEF Sound, Placed
<1> QED
  BY <1>2, <1>4 DEF Connections

\* The connections that a count of the collector is about.
CountSet(part, ip) == {c \in Conn : CountedBy(conn[c], part) /\ ip \in {None, IpOf[c]}}

\* What is counted is a finite set of connections.
LEMMA CountIs ==
  ASSUME NEW part, NEW ip
  PROVE  /\ Count(part, ip) = Cardinality(CountSet(part, ip))
         /\ IsFiniteSet(CountSet(part, ip)) /\ Count(part, ip) \in Nat
<1>1. {c \in Conn : Counted(c, part) /\ ip \in {None, IpOf[c]}} = CountSet(part, ip)
  BY DEF CountSet, Counted, CountedBy, At
<1>2. CountSet(part, ip) \subseteq Conn
  BY DEF CountSet
<1>3. IsFiniteSet(CountSet(part, ip))
  BY <1>2, ProxyAssumption, FS_Subset
<1> QED
  BY <1>1, <1>3, FS_CardinalityType DEF Count

\* A count rises, falls or stands as the one connection enters it, leaves it or
\* does neither.
LEMMA CountMoves ==
  ASSUME Connections, NEW c \in Conn, NEW q, Become(c, q), q \in Record,
         NEW part \in Parts, NEW ip
  PROVE  /\ (CountedBy(q, part) <=> CountedBy(conn[c], part)) \/ ip \notin {None, IpOf[c]} =>
              Count(part, ip)' = Count(part, ip)
         /\ CountedBy(q, part) /\ ~CountedBy(conn[c], part) /\ ip \in {None, IpOf[c]} =>
              Count(part, ip)' = Count(part, ip) + 1
         /\ ~CountedBy(q, part) /\ CountedBy(conn[c], part) /\ ip \in {None, IpOf[c]} =>
              Count(part, ip)' = Count(part, ip) - 1 /\ Count(part, ip) > 0
<1>1. conn'[c] = q /\ \A d \in Conn \ {c} : conn'[d] = conn[d]
  BY DEF Connections, Become
<1> DEFINE before == CountSet(part, ip)
           after == {d \in Conn : CountedBy(conn'[d], part) /\ ip \in {None, IpOf[d]}}
<1>2. Count(part, ip)' = Cardinality(after)
  BY DEF Count, Counted, CountedBy, At
<1>3. Count(part, ip) = Cardinality(before) /\ IsFiniteSet(before) /\ Cardinality(before) \in Nat
  BY CountIs
<1>4. /\ (CountedBy(q, part) <=> CountedBy(conn[c], part)) \/ ip \notin {None, IpOf[c]} =>
           after = before
      /\ CountedBy(q, part) /\ ~CountedBy(conn[c], part) /\ ip \in {None, IpOf[c]} =>
           after = before \cup {c} /\ c \notin before
      /\ ~CountedBy(q, part) /\ CountedBy(conn[c], part) /\ ip \in {None, IpOf[c]} =>
           after = before \ {c} /\ c \in before
  BY <1>1 DEF CountSet
<1> HIDE DEF before, after
<1>5. /\ c \notin before => Cardinality(before \cup {c}) = Cardinality(before) + 1
      /\ c \in before => Cardinality(before \ {c}) = Cardinality(before) - 1
  BY <1>3, FS_AddElement, FS_RemoveElement
<1>6. c \in before => Cardinality(before) > 0
  BY <1>3, FS_EmptySet
<1> QED
  BY <1>2, <1>3, <1>4, <1>5, <1>6

-----------------------------------------------------------------------------
(* The maps of the collector *)

MapOf(K, m) == \E ks \in SUBSET K : m \in [ks -> Nat]

\* What a call does to the entry of each key.
CallsChange(K, m, k) ==
  /\ \A j \in K : Entry(m, j) \in Nat
  /\ MapOf(K, Added(m, k)) /\ MapOf(K, Mentioned(m, k)) /\ MapOf(K, Subtracted(m, k))
  /\ \A j \in K \ {k} : /\ Entry(Added(m, k), j) = Entry(m, j)
                        /\ Entry(Subtracted(m, k), j) = Entry(m, j)
  /\ \A j \in K : Entry(Mentioned(m, k), j) = Entry(m, j)
  /\ Entry(Added(m, k), k) = Entry(m, k) + 1
  /\ Entry(Subtracted(m, k), k) = IF Entry(m, k) > 0 THEN Entry(m, k) - 1 ELSE 0

\* What the collector's operations do to the entries of a map.
LEMMA MapMoves == ASSUME NEW K, NEW m, MapOf(K, m), NEW k \in K PROVE CallsChange(K, m, k)
<1>1. PICK ks \in SUBSET K : m \in [ks -> Nat]
  BY DEF MapOf
<1>2. \A j \in K : Entry(m, j) \in Nat
  BY <1>1 DEF Entry
<1>3. /\ Added(m, k) \in [ks \cup {k} -> Nat]
      /\ \A j \in ks \cup {k} : Added(m, k)[j] = IF j = k THEN Entry(m, k) + 1 ELSE m[j]
  BY <1>1 DEF Added, With, Entry
<1>4. /\ Mentioned(m, k) \in [ks \cup {k} -> Nat]
      /\ \A j \in ks \cup {k} : Mentioned(m, k)[j] = IF j = k THEN Entry(m, k) ELSE m[j]
  BY <1>1 DEF Mentioned, With, Entry
<1>5. /\ Subtracted(m, k) \in [ks -> Nat]
      /\ \A j \in ks : Subtracted(m, k)[j] = IF j = k /\ m[k] > 0 THEN m[k] - 1 ELSE m[j]
  BY <1>1 DEF Subtracted
<1>6. ks \cup {k} \in SUBSET K
  OBVIOUS
<1>7. /\ \A j \in K \ {k} : /\ Entry(Added(m, k), j) = Entry(m, j)
                            /\ Entry(Subtracted(m, k), j) = Entry(m, j)
      /\ \A j \in K : Entry(Mentioned(m, k), j) = Entry(m, j)
      /\ Entry(Added(m, k), k) = Entry(m, k) + 1
      /\ Entry(Subtracted(m, k), k) = IF Entry(m, k) > 0 THEN Entry(m, k) - 1 ELSE 0
  <2>1. /\ DOMAIN m = ks /\ DOMAIN Added(m, k) = ks \cup {k} /\ DOMAIN Subtracted(m, k) = ks
        /\ DOMAIN Mentioned(m, k) = ks \cup {k}
    BY <1>1, <1>3, <1>4, <1>5
  <2>2. \A j \in ks : m[j] \in Nat
    BY <1>1
  <2>3. \A j \in K \ {k} : Entry(Added(m, k), j) = Entry(m, j)
    BY <1>3, <2>1 DEF Entry
  <2>4. \A j \in K \ {k} : Entry(Subtracted(m, k), j) = Entry(m, j)
    BY <1>5, <2>1 DEF Entry
  <2>5. \A j \in K : Entry(Mentioned(m, k), j) = Entry(m, j)
    BY <1>4, <2>1 DEF Entry
  <2>6. Entry(Added(m, k), k) = Entry(m, k) + 1
    BY <1>3, <2>1 DEF Entry
  <2>7. Entry(Subtracted(m, k), k) = IF Entry(m, k) > 0 THEN Entry(m, k) - 1 ELSE 0
    BY <1>5, <2>1, <2>2 DEF Entry
  <2> QED
    BY <2>3, <2>4, <2>5, <2>6, <2>7
<1> QED
  BY <1>2, <1>3, <1>4, <1>5, <1>6, <1>7 DEF CallsChange, MapOf

-----------------------------------------------------------------------------
(* The steps of the specification *)

\* The names of the servers and the addresses are keys of the maps.
LEMMA NamesType ==
  ASSUME IInv
  PROVE  /\ Name \in Server /\ None \notin Ip /\ \A c \in Conn : IpOf[c] \in Ip
         /\ active \in Nat /\ Entry(perServer, Name) \in Nat
         /\ \A ip \in Ip : Entry(perIp, ip) \in Nat
<1>1. Name \in Server /\ None \notin Ip /\ \A c \in Conn : IpOf[c] \in Ip
  BY ProxyAssumption DEF Name
<1>2. MapOf(Server, perServer) /\ MapOf(Ip, perIp) /\ active \in Nat
  BY DEF IInv, MetricsTypeOK, MapOf
<1>3. Entry(perServer, Name) \in Nat
  BY <1>1, <1>2, MapMoves DEF CallsChange
<1>4. \A ip \in Ip : Entry(perIp, ip) \in Nat
  BY <1>2, MapMoves DEF CallsChange
<1> QED
  BY <1>1, <1>2, <1>3, <1>4

\* At the start there is no connection and nothing is counted.
LEMMA InitIInv == Init => IInv
<1> SUFFICES ASSUME Init PROVE IInv
  OBVIOUS
<1>1. MetricsTypeOK
  <2>1. <<>> \in [{} -> Nat]
    OBVIOUS
  <2>2. {} \in SUBSET Server /\ {} \in SUBSET Ip
    OBVIOUS
  <2> QED
    BY <2>1, <2>2 DEF Init, MetricsInit, MetricsTypeOK
<1>2. CallsSound
  BY ProxyAssumption DEF Init, CallsSound, Parts
<1>3. Connections
  <2>1. /\ Start \in Record /\ Blank(Start) /\ Start.place = "backlog" /\ Start.leaked = FALSE
    BY StartIsBlank DEF Start
  <2>2. \A c \in Conn : Sound(Start, c)
    BY <2>1, BlankIsSound
  <2> QED
    BY <2>1, <2>2 DEF Init, Connections
<1>4. \A part, ip : Count(part, ip) = 0
  <2>1. \A c \in Conn : \A part : ~CountedBy(conn[c], part)
    BY DEF Init, Start, CountedBy, InTask
  <2>2. \A part, ip : CountSet(part, ip) = {}
    BY <2>1 DEF CountSet
  <2> QED
    BY <2>2, CountIs, FS_EmptySet
<1>5. \A k : Entry(<<>>, k) = 0
  BY DEF Entry
<1>6. CountsMatch
  BY <1>4, <1>5 DEF Init, MetricsInit, CountsMatch, Matches
<1> QED
  BY <1>1, <1>2, <1>3, <1>6 DEF Init, IInv

\* Steps that the collector is not told of.
LEMMA QuietKeeps ==
  ASSUME IInv, NEW c \in Conn, NEW q, Become(c, q), Moves(conn[c], q, c),
         UNCHANGED <<metrics, mode, handle, calls>>, loop' \in {"running", "over"}
  PROVE  IInv'
<1>1. Connections'
  BY ConnectionsKept DEF IInv, Moves
<1>2. \A part \in Parts : \A ip : Count(part, ip)' = Count(part, ip)
  BY CountMoves DEF IInv, Moves, Sound
<1>3. Name' = Name /\ 1 \in Parts /\ 2 \in Parts /\ 3 \in Parts
  BY DEF Name, Parts
<1>4. CountsMatch'
  BY <1>2, <1>3 DEF IInv, CountsMatch, Matches, Entry, metrics
<1> QED
  BY <1>1, <1>4 DEF IInv, MetricsTypeOK, CallsSound, metrics

\* The steps of a connection that the collector is not told of.
LEMMA QuietSteps ==
  ASSUME IInv, NEW c \in Conn,
         \/ Accept(c) \/ Route(c) \/ Reserve(c) \/ MarkEstablished(c) \/ Spawn(c) \/ SpawnEndsLoop(c)
         \/ Establish(c) \/ Up(c) \/ RelayDownEnds(c) \/ CopyFails(c) \/ TimedOut(c)
         \/ Joined(c) \/ CloseSession(c)
  PROVE  IInv'
<1>1. /\ Sound(conn[c], c) /\ mode \in {"sync", "async"} /\ handle \in Auth \cup {NoHandle}
      /\ loop \in {"running", "over"}
  BY DEF IInv, Connections
<1>2. UNCHANGED <<metrics, mode, handle, calls>> /\ loop' \in {"running", "over"}
  BY <1>1 DEF Accept, Route, Reserve, MarkEstablished, Spawn, SpawnEndsLoop, Establish, Resolve,
     Connect, ConnectFails, ReadHeader, ReadHeaderFails, WriteTrailing, WriteTrailingFails,
     StartRelay, CloneFails, SpawnPanics, Up, RelayRead, RelayWrite, RelayUpEnds, RelayDownEnds,
     CopyFails, TimedOut, Joined, CloseSession, Fail, Quiet
<1>3. ASSUME Route(c) \/ Reserve(c) \/ MarkEstablished(c) \/ Spawn(c) \/ SpawnEndsLoop(c)
      PROVE  \E q : Become(c, q) /\ Moves(conn[c], q, c)
  <2>1. PICK q : /\ Become(c, q)
                 /\ \/ /\ conn[c].place \in {"routing", "reserving", "establishing"}
                       /\ \E place \in {"reserving", "failing", "closing", "establishing", "recording"} :
                            \E session \in {conn[c].session, "open"} :
                              q = [conn[c] EXCEPT !.place = place, !.session = session]
                    \/ conn[c].place = "spawning" /\ q = [conn[c] EXCEPT !.place = "resolving"]
                    \/ /\ conn[c].place = "spawning"
                       /\ q = [conn[c] EXCEPT !.place = "closing", !.leaked = TRUE]
    <3>1. conn[c] \in Record
      BY <1>1 DEF Sound
    <3>2. \A place : [conn[c] EXCEPT !.place = place]
                       = [conn[c] EXCEPT !.place = place, !.session = conn[c].session]
      BY <3>1 DEF Record
    <3> QED
      BY <1>3, <3>2 DEF Route, Reserve, MarkEstablished, Spawn, SpawnEndsLoop, At, Goto
  <2> QED
    BY <1>1, <2>1, AdmissionMoves
<1>4. ASSUME \/ ConnectFails(c) \/ ReadHeaderFails(c) \/ WriteTrailingFails(c) \/ CloneFails(c)
             \/ CopyFails(c) \/ TimedOut(c) \/ Joined(c)
      PROVE  \E q : Become(c, q) /\ Moves(conn[c], q, c)
  <2>1. Become(c, Ended(c)) /\ conn[c].place \in InTask
    BY <1>4 DEF ConnectFails, ReadHeaderFails, WriteTrailingFails, CloneFails, CopyFails, TimedOut,
       Joined, Fail, At, InTask
  <2> QED
    BY <1>1, <2>1, EndedMoves
<1>5. \E q : Become(c, q) /\ Moves(conn[c], q, c)
  BY <1>1, <1>3, <1>4, AcceptMoves, ResolveMoves, ConnectMoves, ReadHeaderMoves, WriteMoves,
     RelayMoves, RelayReadMoves, RelayEndMoves, CloseMoves DEF Establish, Up
<1> QED
  BY <1>2, <1>5, QuietKeeps

\* A call of the collector for one connection, one part of it.
LEMMA RecordSteps ==
  ASSUME IInv, NEW c \in Conn, RecordFailed(c) \/ RecordTcpConnection(c) \/ RecordClose(c)
  PROVE  IInv'
<1>1. Sound(conn[c], c) /\ UNCHANGED <<mode, loop, handle, calls>>
  BY DEF IInv, Connections, RecordFailed, RecordTcpConnection, RecordClose
<1>2. PICK q : /\ Become(c, q) /\ Sound(q, c) /\ q \in Record
               /\ \A part \in Parts :
                    CountedBy(q, part) <=> IF part # conn[c].part THEN CountedBy(conn[c], part)
                                           ELSE At(c, "recording")
               /\ (CountedBy(conn[c], conn[c].part) <=> At(c, "ending"))
               /\ conn[c].part \in Parts
  BY <1>1, PartMoves DEF RecordFailed, RecordTcpConnection, RecordClose
<1>3. PICK k \in Parts : k = conn[c].part
  BY <1>2
<1>4. Connections'
  BY <1>1, <1>2, ConnectionsKept DEF IInv
<1>5. Name' = Name /\ Name \in Server /\ IpOf[c] \in Ip /\ None \notin Ip
  BY <1>1, NamesType DEF Name
<1>6. \A part \in Parts : \A ip : part # k \/ ip \notin {None, IpOf[c]} => Count(part, ip)' = Count(part, ip)
  BY <1>2, <1>3, CountMoves DEF IInv
<1>7. \A part \in Parts : \A ip : Count(part, ip) \in Nat
  BY CountIs
<1>8. 1 \in Parts /\ 2 \in Parts /\ 3 \in Parts /\ k \in {1, 2, 3}
  BY DEF Parts
<1>9. MapOf(Server, perServer) /\ MapOf(Ip, perIp) /\ active \in Nat
  BY DEF IInv, MetricsTypeOK, MapOf
<1>10. CallsChange(Server, perServer, Name)
  BY <1>5, <1>9, MapMoves
<1>11. CallsChange(Ip, perIp, IpOf[c])
  BY <1>5, <1>9, MapMoves
<1>12. /\ Matches(active, Count(1, None)) /\ Matches(Entry(perServer, Name), Count(2, None))
       /\ \A ip \in Ip : Matches(Entry(perIp, ip), Count(3, ip))
  BY DEF IInv, CountsMatch
<1>13. MetricsTypeOK' /\ CountsMatch' => IInv'
  BY <1>1, <1>4 DEF IInv, CallsSound
<1>14. CASE RecordFailed(c)
  <2>1. \A ip \in {None, IpOf[c]} : Count(k, ip)' = Count(k, ip)
    BY <1>2, <1>3, <1>14, CountMoves DEF IInv, RecordFailed, At
  <2>2. \A part \in Parts : \A ip : Count(part, ip)' = Count(part, ip)
    BY <1>6, <2>1
  <2>3. RecordFailure(k, Name, IpOf[c])
    BY <1>3, <1>14 DEF RecordFailed
  <2>4. /\ MetricsTypeOK' /\ active' = active
        /\ Entry(perServer', Name) = Entry(perServer, Name)
        /\ \A ip \in Ip : Entry(perIp', ip) = Entry(perIp, ip)
    <3>1. CASE k = 1
      BY <2>3, <3>1 DEF RecordFailure, metrics, IInv, MetricsTypeOK
    <3>2. CASE k = 2
      <4>1. perServer' = Mentioned(perServer, Name) /\ UNCHANGED <<active, perIp>>
        BY <2>3, <3>2 DEF RecordFailure
      <4>2. Entry(perServer', Name) = Entry(perServer, Name) /\ MapOf(Server, perServer')
        BY <1>5, <1>10, <4>1 DEF CallsChange
      <4> QED
        BY <1>9, <4>1, <4>2 DEF MetricsTypeOK, MapOf
    <3>3. CASE k = 3
      BY <1>9, <1>11, <2>3, <3>3 DEF RecordFailure, MetricsTypeOK, CallsChange, MapOf
    <3> QED
      BY <1>8, <3>1, <3>2, <3>3
  <2>5. CountsMatch'
    <3>1. \A ip : Entry(perIp, ip)' = Entry(perIp', ip)
      BY DEF Entry
    <3>2. Entry(perServer, Name)' = Entry(perServer', Name)
      BY <1>5 DEF Entry
    <3> QED
      BY <1>1, <1>8, <1>12, <2>2, <2>4, <3>1, <3>2 DEF CountsMatch, Matches
  <2> QED
    BY <1>13, <2>4, <2>5
<1>15. CASE RecordTcpConnection(c)
  <2>1. \A ip \in {None, IpOf[c]} : Count(k, ip)' = Count(k, ip) + 1
    BY <1>2, <1>3, <1>15, CountMoves DEF IInv, RecordTcpConnection, At
  <2>2. RecordConnection(k, Name, IpOf[c])
    BY <1>3, <1>15 DEF RecordTcpConnection
  <2>3. CASE k = 1
    <3>1. active' = active + 1 /\ UNCHANGED <<perServer, perIp>>
      BY <2>2, <2>3 DEF RecordConnection
    <3>2. Count(1, None)' = Count(1, None) + 1
      BY <2>1, <2>3
    <3>3. /\ Count(2, None)' = Count(2, None)
          /\ \A ip \in Ip : Count(3, ip)' = Count(3, ip)
      BY <1>6, <1>8, <2>3
    <3>4. MetricsTypeOK'
      BY <1>9, <3>1 DEF MetricsTypeOK, MapOf
    <3>5. CountsMatch'
      BY <1>1, <1>5, <1>7, <1>8, <1>9, <1>12, <3>1, <3>2, <3>3 DEF CountsMatch, Matches, Entry
    <3> QED
      BY <1>13, <3>4, <3>5
  <2>4. CASE k = 2
    <3>1. perServer' = Added(perServer, Name) /\ UNCHANGED <<active, perIp>>
      BY <2>2, <2>4 DEF RecordConnection
    <3>2. Count(2, None)' = Count(2, None) + 1
      BY <2>1, <2>4
    <3>3. /\ Count(1, None)' = Count(1, None)
          /\ \A ip \in Ip : Count(3, ip)' = Count(3, ip)
      BY <1>6, <1>8, <2>4
    <3>4. MetricsTypeOK'
      BY <1>9, <1>10, <3>1 DEF MetricsTypeOK, CallsChange, MapOf
    <3>5. /\ Entry(perServer, Name)' = Entry(perServer, Name) + 1
          /\ \A ip : Entry(perIp, ip)' = Entry(perIp, ip)
      BY <1>5, <1>10, <3>1 DEF Entry, CallsChange
    <3>6. CountsMatch'
      BY <1>1, <1>5, <1>7, <1>8, <1>10, <1>12, <3>1, <3>2, <3>3, <3>5
         DEF CountsMatch, Matches, CallsChange
    <3> QED
      BY <1>13, <3>4, <3>6
  <2>5. CASE k = 3
    <3>1. perIp' = Added(perIp, IpOf[c]) /\ UNCHANGED <<active, perServer>>
      BY <2>2, <2>5 DEF RecordConnection
    <3>2. /\ Count(3, IpOf[c])' = Count(3, IpOf[c]) + 1
          /\ \A ip \in Ip \ {IpOf[c]} : Count(3, ip)' = Count(3, ip)
      BY <1>5, <1>6, <1>8, <2>1, <2>5
    <3>3. /\ Count(1, None)' = Count(1, None)
          /\ Count(2, None)' = Count(2, None)
      BY <1>6, <1>8, <2>5
    <3>4. MetricsTypeOK'
      BY <1>9, <1>11, <3>1 DEF MetricsTypeOK, CallsChange, MapOf
    <3>5. /\ Entry(perServer, Name)' = Entry(perServer, Name)
          /\ Entry(perIp, IpOf[c])' = Entry(perIp, IpOf[c]) + 1
          /\ \A ip \in Ip \ {IpOf[c]} : Entry(perIp, ip)' = Entry(perIp, ip)
      BY <1>5, <1>11, <3>1 DEF Entry, CallsChange
    <3>6. \A ip \in Ip : Matches(Entry(perIp, ip), Count(3, ip))'
      BY <1>1, <1>5, <1>7, <1>8, <1>11, <1>12, <3>2, <3>5 DEF Matches, CallsChange
    <3>7. CountsMatch'
      BY <1>1, <1>12, <3>1, <3>3, <3>5, <3>6 DEF CountsMatch, Matches
    <3> QED
      BY <1>13, <3>4, <3>7
  <2> QED
    BY <1>8, <2>3, <2>4, <2>5
<1>16. CASE RecordClose(c)
  <2>1. \A ip \in {None, IpOf[c]} : Count(k, ip)' = Count(k, ip) - 1 /\ Count(k, ip) > 0
    BY <1>2, <1>3, <1>16, CountMoves DEF IInv, RecordClose, At
  <2>2. RecordConnectionClose(k, Name, IpOf[c])
    BY <1>3, <1>16 DEF RecordClose
  <2>3. CASE k = 1
    <3>1. active' = (IF active > 0 THEN active - 1 ELSE 0) /\ UNCHANGED <<perServer, perIp>>
      BY <2>2, <2>3 DEF RecordConnectionClose
    <3>2. Count(1, None)' = Count(1, None) - 1 /\ Count(1, None) > 0
      BY <2>1, <2>3
    <3>3. /\ Count(2, None)' = Count(2, None)
          /\ \A ip \in Ip : Count(3, ip)' = Count(3, ip)
      BY <1>6, <1>8, <2>3
    <3>4. MetricsTypeOK'
      BY <1>9, <3>1 DEF MetricsTypeOK, MapOf
    <3>5. CountsMatch'
      BY <1>1, <1>5, <1>7, <1>8, <1>9, <1>12, <3>1, <3>2, <3>3 DEF CountsMatch, Matches, Entry
    <3> QED
      BY <1>13, <3>4, <3>5
  <2>4. CASE k = 2
    <3>1. perServer' = Subtracted(perServer, Name) /\ UNCHANGED <<active, perIp>>
      BY <2>2, <2>4 DEF RecordConnectionClose
    <3>2. Count(2, None)' = Count(2, None) - 1 /\ Count(2, None) > 0
      BY <2>1, <2>4
    <3>3. /\ Count(1, None)' = Count(1, None)
          /\ \A ip \in Ip : Count(3, ip)' = Count(3, ip)
      BY <1>6, <1>8, <2>4
    <3>4. MetricsTypeOK'
      BY <1>9, <1>10, <3>1 DEF MetricsTypeOK, CallsChange, MapOf
    <3>5. /\ Entry(perServer, Name)' =
               IF Entry(perServer, Name) > 0 THEN Entry(perServer, Name) - 1 ELSE 0
          /\ \A ip : Entry(perIp, ip)' = Entry(perIp, ip)
      BY <1>5, <1>10, <3>1 DEF Entry, CallsChange
    <3>6. CountsMatch'
      BY <1>1, <1>5, <1>7, <1>8, <1>10, <1>12, <3>1, <3>2, <3>3, <3>5
         DEF CountsMatch, Matches, CallsChange
    <3> QED
      BY <1>13, <3>4, <3>6
  <2>5. CASE k = 3
    <3>1. perIp' = Subtracted(perIp, IpOf[c]) /\ UNCHANGED <<active, perServer>>
      BY <2>2, <2>5 DEF RecordConnectionClose
    <3>2. /\ Count(3, IpOf[c])' = Count(3, IpOf[c]) - 1 /\ Count(3, IpOf[c]) > 0
          /\ \A ip \in Ip \ {IpOf[c]} : Count(3, ip)' = Count(3, ip)
      BY <1>5, <1>6, <1>8, <2>1, <2>5
    <3>3. /\ Count(1, None)' = Count(1, None)
          /\ Count(2, None)' = Count(2, None)
      BY <1>6, <1>8, <2>5
    <3>4. MetricsTypeOK'
      BY <1>9, <1>11, <3>1 DEF MetricsTypeOK, CallsChange, MapOf
    <3>5. /\ Entry(perServer, Name)' = Entry(perServer, Name)
          /\ Entry(perIp, IpOf[c])' =
               IF Entry(perIp, IpOf[c]) > 0 THEN Entry(perIp, IpOf[c]) - 1 ELSE 0
          /\ \A ip \in Ip \ {IpOf[c]} : Entry(perIp, ip)' = Entry(perIp, ip)
      BY <1>5, <1>11, <3>1 DEF Entry, CallsChange
    <3>6. \A ip \in Ip : Matches(Entry(perIp, ip), Count(3, ip))'
      BY <1>1, <1>5, <1>7, <1>8, <1>11, <1>12, <3>2, <3>5 DEF Matches, CallsChange
    <3>7. CountsMatch'
      BY <1>1, <1>12, <3>1, <3>3, <3>5, <3>6 DEF CountsMatch, Matches
    <3> QED
      BY <1>13, <3>4, <3>7
  <2> QED
    BY <1>8, <2>3, <2>4, <2>5
<1> QED
  BY <1>14, <1>15, <1>16

\* set and reset of the embedder.
LEMMA SetAuthStep == ASSUME IInv, SetAuth PROVE IInv'
<1>1. /\ handle # NoHandle /\ handle' \in Auth /\ UNCHANGED <<metrics, mode, loop>>
      /\ calls.sets + calls.resets < MaxCalls /\ calls' = [calls EXCEPT !.sets = @ + 1]
      /\ conn' = [c \in Conn |-> IF conn[c].since = {} THEN conn[c]
                                 ELSE [conn[c] EXCEPT !.since = @ \cup {handle'}]]
  BY DEF SetAuth
<1>2. EffectiveAuth' = handle' /\ NoHandle \notin Auth
  BY <1>1, ProxyAssumption DEF EffectiveAuth
<1>3. MaxCalls \in Nat
  BY ProxyAssumption
<1>4. CallsSound' /\ calls'.resets = calls.resets
  BY <1>1, <1>3 DEF IInv, CallsSound
<1>5. ASSUME NEW c \in Conn
      PROVE  /\ conn'[c] \in Record /\ Sound(conn[c], c)'
             /\ \A part : CountedBy(conn'[c], part) <=> CountedBy(conn[c], part)
  <2> DEFINE r == conn[c]
             q == conn'[c]
  <2>1. r \in Record /\ Placed(r) /\ Authorised(r) /\ Relayed(r, c)
    BY DEF IInv, Connections, Sound
  <2>2. q = IF r.since = {} THEN r ELSE [r EXCEPT !.since = r.since \cup {handle'}]
    BY <1>1
  <2>3. PICK auth \in Auth : auth = handle'
    BY <1>1
  <2> HIDE DEF r, q
  <2>4. /\ q.presents = r.presents /\ q.auth = r.auth /\ q.nread = r.nread
        /\ q.buf = r.buf /\ q.delivered = r.delivered /\ q.up = r.up /\ q.part = r.part
        /\ q.leaked = r.leaked /\ q.place = r.place /\ q \in Record
        /\ r.since \subseteq q.since /\ (q.since # {} => handle' \in q.since /\ r.since # {})
    BY <2>1, <2>2, <2>3 DEF Record
  <2>5. Placed(q)
    BY <2>1, <2>4 DEF Placed
  <2>6. Authorised(conn[c])'
    BY <1>1, <1>2, <2>1, <2>4 DEF Authorised, PastAuthentication, Admitted, q
  <2>7. Relayed(conn[c], c)'
    BY <1>1, <2>1, <2>4 DEF Relayed, Complete, Got, Sent, SkippedOf, q
  <2>8. \A part : CountedBy(q, part) <=> CountedBy(r, part)
    BY <2>4 DEF CountedBy
  <2> QED
    BY <2>4, <2>5, <2>6, <2>7, <2>8 DEF Sound, Placed, q, r
<1>6. Connections'
  BY <1>1, <1>5 DEF Connections
<1>7. \A part, ip : Count(part, ip)' = Count(part, ip)
  <2> SUFFICES ASSUME NEW part, NEW ip PROVE Count(part, ip)' = Count(part, ip)
    OBVIOUS
  <2>1. {c \in Conn : Counted(c, part)' /\ ip \in {None, IpOf[c]}}
          = {c \in Conn : Counted(c, part) /\ ip \in {None, IpOf[c]}}
    BY <1>5 DEF Counted, CountedBy, At
  <2> QED
    BY <2>1 DEF Count
<1>8. CountsMatch'
  BY <1>1, <1>4, <1>7 DEF IInv, CountsMatch, Matches, Entry, Name, metrics
<1> QED
  BY <1>1, <1>4, <1>6, <1>8 DEF IInv, MetricsTypeOK, metrics

\* A part of reset: counts fall to zero, below what they should be.
LEMMA ResetStep == ASSUME IInv, Reset PROVE IInv'
<1>1. /\ UNCHANGED <<mode, loop, handle, conn>> /\ ResetPart(calls.part)
      /\ calls' = [calls EXCEPT !.part = IF @ = 3 THEN 1 ELSE @ + 1,
                                !.resets = IF calls.part = 1 THEN @ + 1 ELSE @]
      /\ calls.part = 1 => calls.sets + calls.resets < MaxCalls
  BY DEF Reset, IInv, CallsSound, Parts
<1>2. /\ calls.part \in {1, 2, 3} /\ calls.resets \in Nat /\ calls.sets \in Nat /\ MaxCalls \in Nat
      /\ calls \in [sets : 0..MaxCalls, resets : 0..MaxCalls, part : Parts] /\ Parts = {1, 2, 3}
      /\ calls.part # 1 => calls.resets # 0
  BY ProxyAssumption DEF IInv, CallsSound, Parts
<1>3. CallsSound' /\ calls'.resets # 0
  <2> DEFINE part == IF calls.part = 3 THEN 1 ELSE calls.part + 1
             resets == IF calls.part = 1 THEN calls.resets + 1 ELSE calls.resets
             moved == [calls EXCEPT !.part = part]
  <2>1. part \in Parts /\ resets \in 0..MaxCalls /\ resets # 0
    BY <1>1, <1>2
  <2>2. calls' = [moved EXCEPT !.resets = resets]
    BY <1>1, <1>2
  <2> HIDE DEF part, resets
  <2>3. calls' \in [sets : 0..MaxCalls, resets : 0..MaxCalls, part : Parts] /\ calls'.resets = resets
    BY <1>2, <2>1, <2>2
  <2> QED
    BY <2>1, <2>3 DEF CallsSound
<1>4. /\ MetricsTypeOK' /\ active' \in {0, active}
      /\ perServer' \in {<<>>, perServer} /\ perIp' \in {<<>>, perIp}
  <2>1. \A K : MapOf(K, <<>>)
    <3>1. <<>> \in [{} -> Nat] /\ \A K : {} \in SUBSET K
      OBVIOUS
    <3> QED
      BY <3>1 DEF MapOf
  <2>2. active' \in {0, active} /\ perServer' \in {<<>>, perServer} /\ perIp' \in {<<>>, perIp}
    BY <1>1, <1>2 DEF ResetPart
  <2>3. MapOf(Server, perServer) /\ MapOf(Ip, perIp) /\ active \in Nat
    BY DEF IInv, MetricsTypeOK, MapOf
  <2>4. MapOf(Server, perServer') /\ MapOf(Ip, perIp') /\ active' \in Nat
    BY <2>1, <2>2, <2>3
  <2> QED
    BY <2>2, <2>4 DEF MetricsTypeOK, MapOf
<1>5. Connections'
  <2>1. \A c \in Conn : Sound(conn[c], c)' <=> Sound(conn[c], c)
    BY <1>1 DEF Sound, Placed, Authorised, PastAuthentication, Admitted, EffectiveAuth,
       Relayed, Complete, Got, Sent, SkippedOf
  <2> QED
    BY <1>1, <2>1 DEF IInv, Connections
<1>6. \A part, ip : Count(part, ip)' = Count(part, ip) /\ Count(part, ip) \in Nat
  <2>1. \A part, ip : Count(part, ip)' = Count(part, ip)
    BY <1>1 DEF Count, Counted, At
  <2> QED
    BY <2>1, CountIs
<1>7. \A k : Entry(<<>>, k) = 0
  BY DEF Entry
<1>8. CountsMatch'
  <2>1. active' <= Count(1, None)
    BY <1>4, <1>6 DEF IInv, CountsMatch, Matches
  <2>2. Entry(perServer', Name) <= Count(2, None)
    BY <1>4, <1>6, <1>7 DEF IInv, CountsMatch, Matches
  <2>3. \A ip \in Ip : Entry(perIp', ip) <= Count(3, ip)
    BY <1>4, <1>6, <1>7 DEF IInv, CountsMatch, Matches
  <2>4. Name' = Name /\ \A ip : Entry(perIp, ip)' = Entry(perIp', ip)
    BY <1>1 DEF Name, Entry
  <2>5. Entry(perServer, Name)' = Entry(perServer', Name)
    BY <2>4 DEF Entry
  <2> QED
    BY <1>3, <1>6, <2>1, <2>2, <2>3, <2>4, <2>5 DEF CountsMatch, Matches
<1> QED
  BY <1>1, <1>3, <1>4, <1>5, <1>8 DEF IInv

\* Every step preserves the invariant.
LEMMA StepIInv == IInv /\ [Next]_vars => IInv'
<1> SUFFICES ASSUME IInv, [Next]_vars PROVE IInv'
  OBVIOUS
<1>1. CASE \E c \in Conn : \/ Admit(c) \/ Establish(c) \/ Up(c) \/ RelayDownEnds(c)
                           \/ CopyFails(c) \/ TimedOut(c) \/ End(c)
  BY <1>1, QuietSteps, RecordSteps DEF Admit, End
<1>2. CASE SetAuth \/ Reset
  BY <1>2, SetAuthStep, ResetStep
<1>3. CASE UNCHANGED vars
  <2>1. UNCHANGED <<active, perServer, perIp, mode, loop, handle, conn, calls>>
    BY <1>3 DEF vars, metrics
  <2>2. \A c \in Conn : Sound(conn[c], c)' <=> Sound(conn[c], c)
    BY <2>1 DEF Sound, Placed, Authorised, PastAuthentication, Admitted, EffectiveAuth,
       Relayed, Complete, Got, Sent, SkippedOf
  <2>3. Connections'
    BY <2>1, <2>2 DEF IInv, Connections
  <2>4. \A part, ip : Count(part, ip)' = Count(part, ip)
    BY <2>1 DEF Count, Counted, At
  <2>5. CountsMatch'
    BY <2>1, <2>4 DEF IInv, CountsMatch, Matches, Entry, Name
  <2> QED
    BY <2>1, <2>3, <2>5 DEF IInv, MetricsTypeOK, CallsSound
<1> QED
  BY <1>1, <1>2, <1>3 DEF Next

\* Every reachable state satisfies the inductive invariant: it holds first, and
\* every step of the program preserves it.
THEOREM Invariance == Spec => []IInv
<1>1. Init => IInv
  BY InitIInv
<1>2. IInv /\ [Next]_vars => IInv'
  BY StepIInv
<1> QED
  BY <1>1, <1>2, PTL DEF Spec

\* It says what the properties say.
LEMMA IInvAuth == IInv => AuthInEffect
<1> SUFFICES ASSUME IInv, NEW c \in Conn, conn[c].delivered # <<>>
             PROVE  conn[c].since \cap {Open, conn[c].presents} # {}
  BY DEF AuthInEffect
<1>1. Authorised(conn[c])
  BY DEF IInv, Connections, Sound
<1> QED
  BY <1>1 DEF Authorised, PastAuthentication, Admitted

\* The invariant says what was read and what was delivered.
LEMMA IInvRelay == IInv => RelayInOrder
<1> SUFFICES ASSUME IInv, NEW c \in Conn
             PROVE  LET got == conn[c].delivered \o conn[c].buf
                        sent == SubSeq(Stream(c), Skipped(c) + 1, conn[c].nread)
                    IN /\ IsPrefix(got, sent)
                       /\ At(c, "relaying") /\ conn[c].up # "ended" => got = sent
                       /\ At(c, "authenticating") /\ conn[c].presents # None
                            => conn[c].nread < HeaderLen[c]
  BY DEF RelayInOrder
<1>1. Relayed(conn[c], c) /\ conn[c] \in Record
  BY DEF IInv, Connections, Sound
<1>2. Sent(conn[c], c) = SubSeq(Stream(c), Skipped(c) + 1, conn[c].nread)
  BY DEF Sent, SkippedOf, Skipped
<1>3. At(c, "relaying") /\ conn[c].up # "ended" => Complete(conn[c])
  BY <1>1 DEF At, Complete, Record
<1> QED
  BY <1>1, <1>2, <1>3 DEF Relayed, Got, At

\* And what the three counts are.
LEMMA IInvCounts == IInv => ActiveCounted
<1> SUFFICES ASSUME IInv PROVE ActiveCounted
  OBVIOUS
<1>1. ASSUME NEW c \in Conn
      PROVE  conn[c] \in Record /\ conn[c].nread \in 0..Len(Stream(c))
  <2>1. conn[c] \in Record /\ conn[c].nread <= Len(Stream(c))
    BY DEF IInv, Connections, Sound, Relayed
  <2>2. Len(Stream(c)) \in Nat
    BY StreamType, LenProperties
  <2> QED
    BY <2>1, <2>2 DEF Record
<1>2. TypeOK
  BY <1>1 DEF TypeOK, IInv, CallsSound, Record
<1> QED
  BY <1>2 DEF ActiveCounted, IInv, CountsMatch, Matches

\* No byte of a client reaches a backend that no auth in effect since its accept
\* has let through, whatever the embedder sets and when (proxy.rs: the
\* authentication of the forwarding functions).
THEOREM AuthCorrect == Spec => []AuthInEffect
BY Invariance, IInvAuth, PTL

\* What a client sends after its header arrives in order and without a gap, for
\* streams of any length and however the reads cut them (proxy.rs: the trailing
\* payload and the relay).
THEOREM RelayCorrect == Spec => []RelayInOrder
BY Invariance, IInvRelay, PTL

\* The three counts of active connections are exact until reset is called and
\* never too high after, although each call changes them one by one (metrics.rs,
\* as the proxies call it).
THEOREM CountsCorrect == Spec => []ActiveCounted
BY Invariance, IInvCounts, PTL
=============================================================================
