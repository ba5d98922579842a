-------------------------------- MODULE Tls --------------------------------
(***************************************************************************)
(* What the TLS configuration of a server and of a client ask of the other *)
(* side (tls/rustls.rs, client/tls.rs, server/tls.rs).  PEM, algorithms,   *)
(* ALPN and the protocol itself, which is rustls's, are left out: a        *)
(* certificate is who signed it and for which name, and a handshake        *)
(* completes when both sides accept what they are shown.                   *)
(***************************************************************************)
CONSTANTS Authority,       \* who may sign certificates
          Name, Localhost, \* names of servers, and the one that is the default
          SystemRoots,     \* the authorities that the system trusts
          NoCert

ASSUME TlsAssumption ==
  /\ Localhost \in Name /\ SystemRoots \subseteq Authority
  /\ NoCert \notin [by : Authority, for : Name]

Certificate == [by : Authority, for : Name] \cup {NoCert}

\* A chain and its key are configured apart: one may be missing.
TlsConfig ==
  [certificate_chain : Certificate, private_key : BOOLEAN,
   client_certificate_chain : Certificate, client_private_key : BOOLEAN,
   trust_anchors : SUBSET Authority, use_system_roots : BOOLEAN,
   server_name : Name, verify_peer : BOOLEAN, require_client_auth : BOOLEAN]

TlsDefault ==
  [certificate_chain |-> NoCert, private_key |-> FALSE,
   client_certificate_chain |-> NoCert, client_private_key |-> FALSE,
   trust_anchors |-> {}, use_system_roots |-> TRUE,
   server_name |-> Localhost, verify_peer |-> TRUE, require_client_auth |-> FALSE]

-----------------------------------------------------------------------------
(* The server: build_server_config *)

\* Variant: only whether there are anchors is looked at.
ClientAuthByAnchors(tls) ==
  IF tls.trust_anchors = {} THEN "none" ELSE "optional"

\* Whether a client certificate is asked for.
ClientAuth(tls) ==
  IF tls.require_client_auth THEN "required"
  ELSE IF tls.trust_anchors = {} THEN "none" ELSE "optional"

\* The certificate and its key must be there, and a verifier of clients cannot
\* be built without anchors.
ServerConfigBuilds(tls) ==
  /\ tls.certificate_chain # NoCert /\ tls.private_key
  /\ tls.require_client_auth => tls.trust_anchors # {}

-----------------------------------------------------------------------------
(* The client: build_client_config *)

\* The certificate it shows when asked: a chain without its key is not used.
ClientCertificate(tls) ==
  IF tls.client_private_key THEN tls.client_certificate_chain ELSE NoCert

\* Anchors replace the roots of the system.
ClientRoots(tls) ==
  IF tls.trust_anchors # {} THEN tls.trust_anchors
  ELSE IF tls.use_system_roots THEN SystemRoots ELSE {}

-----------------------------------------------------------------------------
(* The two together: rustls runs the handshake with the verifiers above *)

ServerAccepts(server, client) ==
  LET cert == ClientCertificate(client)
  IN  CASE ClientAuth(server) = "none"     -> TRUE
        [] ClientAuth(server) = "optional" -> cert # NoCert => cert.by \in server.trust_anchors
        [] ClientAuth(server) = "required" -> cert # NoCert /\ cert.by \in server.trust_anchors

\* NoopServerVerifier accepts whatever it is shown.
ClientAccepts(client, server) ==
  client.verify_peer =>
    /\ server.certificate_chain.by \in ClientRoots(client)
    /\ server.certificate_chain.for = client.server_name

Completes(server, client) ==
  ServerConfigBuilds(server) /\ ClientAccepts(client, server) /\ ServerAccepts(server, client)
=============================================================================
