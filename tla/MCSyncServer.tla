---------------------------- MODULE MCSyncServer ----------------------------
\* Three connections for two workers and a limit of two: the limit turns one
\* away, both workers are busy at once, and when one is dead the queue waits.
\* The server speaks TLS, to clients with a certificate of its authority only;
\* or TLS and plain TCP, and tells clients by the first byte; or plain TCP with
\* one worker, whose death leaves none while the limit is not reached.
EXTENDS SyncServer

CONSTANTS c1, c2, c3, w1, w2, ours, theirs, host

MCConn == {c1, c2, c3}
MCWorker == {w1, w2}
MCAuthority == {ours, theirs}
MCSystemRoots == {theirs}
MCName == {host, Localhost}

Signed(authority) == [by |-> authority, for |-> host]

Mutual == [TlsDefault EXCEPT !.certificate_chain = Signed(ours), !.private_key = TRUE,
                             !.trust_anchors = {ours}, !.require_client_auth = TRUE]
MCConfig ==
  {[accept_mode |-> "Tcp", enabled |-> TRUE, tls |-> Mutual, worker_threads |-> MCWorker],
   [accept_mode |-> "Mixed", enabled |-> FALSE, worker_threads |-> MCWorker,
    tls |-> [Mutual EXCEPT !.require_client_auth = FALSE]],
   [accept_mode |-> "Tcp", enabled |-> FALSE, tls |-> TlsDefault, worker_threads |-> {w1}]}

\* A client with a certificate of the server's authority, which it trusts; one
\* with none, that does not verify; one that trusts the system's authorities.
Member   == [TlsDefault EXCEPT !.client_certificate_chain = Signed(ours), !.client_private_key = TRUE,
                               !.trust_anchors = {ours}, !.server_name = host]
Careless == [TlsDefault EXCEPT !.verify_peer = FALSE]
Stranger == [TlsDefault EXCEPT !.client_certificate_chain = Signed(theirs), !.client_private_key = TRUE,
                               !.server_name = host]

MCClient == [first : {"hello"}, tls : {Member, Careless, Stranger}]
              \cup [first : {"data", "end", "nothing"}, tls : {TlsDefault}]
=============================================================================
