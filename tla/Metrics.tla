------------------------------- MODULE Metrics -------------------------------
(***************************************************************************)
(* The counts of active connections that MetricsCollector of metrics.rs    *)
(* keeps: a global one, one per server and one per peer address, each      *)
(* behind an atomic or a lock of its own.  A call of the collector changes *)
(* them one after the other, with other calls in between, so every         *)
(* operator below is about one Part.  The totals, failures and latencies   *)
(* are only ever added to and read by snapshot; they are left out.         *)
(***************************************************************************)
EXTENDS Naturals

CONSTANTS Server, Ip

VARIABLES active, perServer, perIp

metrics == <<active, perServer, perIp>>

Parts == 1..3 \* in the order in which every call visits them

MetricsInit == active = 0 /\ perServer = <<>> /\ perIp = <<>>

MetricsTypeOK ==
  /\ active \in Nat
  /\ \E ss \in SUBSET Server : perServer \in [ss -> Nat]
  /\ \E is \in SUBSET Ip : perIp \in [is -> Nat]

\* What each call does to the entry of a key in a map.
With(m, k, n) == [j \in DOMAIN m \cup {k} |-> IF j = k THEN n ELSE m[j]]
Added(m, k) == With(m, k, IF k \in DOMAIN m THEN m[k] + 1 ELSE 1)
MentionedActive(m, k) == IF k \in DOMAIN m THEN m ELSE With(m, k, 1) \* variant: counts a failure
Mentioned(m, k) == IF k \in DOMAIN m THEN m ELSE With(m, k, 0)
Subtracted(m, k) ==
  IF k \in DOMAIN m /\ m[k] > 0 THEN [m EXCEPT ![k] = @ - 1] ELSE m

RecordConnection(part, s, ip) ==
  \/ part = 1 /\ active' = active + 1 /\ UNCHANGED <<perServer, perIp>>
  \/ part = 2 /\ perServer' = Added(perServer, s) /\ UNCHANGED <<active, perIp>>
  \/ part = 3 /\ perIp' = Added(perIp, ip) /\ UNCHANGED <<active, perServer>>

\* A failure opens an entry, but counts nothing that is active.
RecordFailure(part, s, ip) ==
  \/ part = 1 /\ UNCHANGED metrics
  \/ part = 2 /\ perServer' = Mentioned(perServer, s) /\ UNCHANGED <<active, perIp>>
  \/ part = 3 /\ perIp' = Mentioned(perIp, ip) /\ UNCHANGED <<active, perServer>>

\* saturating_sub: a close that finds nothing to take changes nothing.
RecordConnectionClose(part, s, ip) ==
  \/ part = 1 /\ active' = (IF active > 0 THEN active - 1 ELSE 0) /\ UNCHANGED <<perServer, perIp>>
  \/ part = 2 /\ perServer' = Subtracted(perServer, s) /\ UNCHANGED <<active, perIp>>
  \/ part = 3 /\ perIp' = Subtracted(perIp, ip) /\ UNCHANGED <<active, perServer>>

ResetPart(part) ==
  \/ part = 1 /\ active' = 0 /\ UNCHANGED <<perServer, perIp>>
  \/ part = 2 /\ perServer' = <<>> /\ UNCHANGED <<active, perIp>>
  \/ part = 3 /\ perIp' = <<>> /\ UNCHANGED <<active, perServer>>
=============================================================================
