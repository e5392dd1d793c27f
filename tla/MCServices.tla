----------------------------- MODULE MCServices -----------------------------
(***************************************************************************)
(* The services around the escrows: notifications, the tracking lookup,    *)
(* stress runs, the readiness probe, the audit log and the vendor's        *)
(* reports and listing.  They share no variable (a stress run's audit      *)
(* entries are kept in StressTest), so their interleavings tell nothing:   *)
(* each is explored while the others are in one initial state.             *)
(***************************************************************************)
EXTENDS Notifications, Tracking, StressTest, Readiness, AuditTrail, VendorReports

P(users, rate, duration) == [users |-> users, rate |-> rate, duration |-> duration]

\* Three users on two workers, then a profile without requests (the limits of a
\* profile are declared but not validated: the list is checked to be one, its
\* members are not); one request.
MCPlan == <<<<P(3, 3, 1), P(1, 0, 1)>>, <<P(1, 1, 1)>>>>

MCThresholds == [maxResponseTime |-> 1, maxErrorRate |-> 50, minThroughput |-> 1]

MCOldEntries == <<"e3", "e2", "e1">>

\* Half a day west and east of Greenwich.
MCOffsets == {-1, 0, 1}

MCRowStates == {"DELIVERED", "RELEASED", "DISPUTED", "REFUNDED", "CANCELLED"}

VARIABLE part

vars == <<notifyVars, trackingVars, stressVars, probeVars, auditVars, reportVars, part>>

Init ==
    /\ NotifyInit /\ TrackingInit /\ StressInit /\ ProbeInit /\ AuditInit /\ ReportInit
    /\ part \in {"notify", "tracking", "stress", "probe", "audit", "reports", "listing"}
    /\ part # "notify" =>
           /\ route = "admin" /\ contact = [ch \in Channels |-> "none"]
           /\ wanted = {} /\ ~registered
    /\ part # "tracking" => ~tracked
    /\ part # "probe" => binding = "server" /\ word = "pass" /\ ~redisUrl

NotifyPart(A) ==
    /\ part = "notify" /\ A
    /\ UNCHANGED <<part, trackingVars, stressVars, probeVars, auditVars, reportVars>>

TrackingPart ==
    /\ part = "tracking" /\ TrackingNext
    /\ UNCHANGED <<part, notifyVars, stressVars, probeVars, auditVars, reportVars>>

StressPart ==
    /\ part = "stress" /\ StressNext
    /\ UNCHANGED <<part, notifyVars, trackingVars, probeVars, auditVars, reportVars>>

ProbePart ==
    /\ part = "probe" /\ ProbeNext
    /\ UNCHANGED <<part, notifyVars, trackingVars, stressVars, auditVars, reportVars>>

AuditPart ==
    /\ part = "audit" /\ AuditNext
    /\ UNCHANGED <<part, notifyVars, trackingVars, stressVars, probeVars, reportVars>>

ReportPart ==
    /\ \/ part = "reports" /\ ReportNext
       \/ part = "listing" /\ ListingNext
    /\ UNCHANGED <<part, notifyVars, trackingVars, stressVars, probeVars, auditVars>>

Next ==
    \/ NotifyPart(NotifyNext) \/ TrackingPart \/ StressPart \/ ProbePart \/ AuditPart \/ ReportPart

(* The calls a notification waits for settle and its backoff timers fire.  *)
Spec == Init /\ [][Next]_vars /\ WF_vars(NotifyPart(NotifyStep))
=============================================================================
