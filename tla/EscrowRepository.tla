-------------------------- MODULE EscrowRepository --------------------------
(***************************************************************************)
(* The Escrow row of src/escrow/escrow.repository.ts and the row updates   *)
(* its methods issue.  Every method addresses one row by id, so one row is *)
(* modelled; the columns kept are the ones a guard or a property reads.    *)
(***************************************************************************)
EXTENDS FiniteSets

States == {"CREATED", "FUNDED", "SHIPPED", "DELIVERED", "DISPUTED",
           "COMPLETED", "RELEASED", "REFUNDED", "CANCELLED"}

\* escrow.service.ts and auto-release.worker.ts keep one copy each.
TERMINAL_STATES == {"COMPLETED", "RELEASED", "REFUNDED", "CANCELLED"}

DISPUTABLE_STATES == {"FUNDED", "SHIPPED", "DELIVERED"}

\* A nullable text column: null, the empty string, or a value.  A hash is
\* either the one the worker recorded or the one a chain event carried.
TrackingIds == {"null", "empty", "id"}
TxHashes    == {"null", "empty", "submitted", "event"}

\* Mutant: no fallback.
NoFallback(v) == v

\* The ?? '' and || '' fallbacks of syncStateFromChain.
OrEmpty(v) == IF v = "null" THEN "empty" ELSE v

Rows == [state              : States,
         trackingId         : TrackingIds,
         mapped             : BOOLEAN,      \* contractEscrowId is not null
         deliveredAt        : BOOLEAN,      \* timestamps: set or null
         deliveryRecordedAt : BOOLEAN,
         submittedAt        : BOOLEAN,      \* autoReleaseSubmittedAt
         txHash             : TxHashes]     \* autoReleaseTxHash

\* What a cached or loaded record shows its reader.
Views == [state : States, trackingId : TrackingIds, mapped : BOOLEAN,
          txHash : TxHashes]

\* Mutant: the raw row is handed out.
RawRow(r) == r

toEscrowRecord(r) == [state |-> r.state, trackingId |-> r.trackingId,
                      mapped |-> r.mapped, txHash |-> r.txHash]

-----------------------------------------------------------------------------
(* Row updates.  Each is one unconditional UPDATE ... WHERE id = ?.        *)

create(mapped) ==
    [state |-> "CREATED", trackingId |-> "null", mapped |-> mapped,
     deliveredAt |-> FALSE, deliveryRecordedAt |-> FALSE,
     submittedAt |-> FALSE, txHash |-> "null"]

updateState(r, s)   == [r EXCEPT !.state = s]
markShipped(r, tid) == [r EXCEPT !.state = "SHIPPED", !.trackingId = tid]
markCompleted(r)    == [r EXCEPT !.state = "COMPLETED"]
markRefunded(r)     == [r EXCEPT !.state = "REFUNDED"]
markCancelled(r)    == [r EXCEPT !.state = "CANCELLED"]

markDelivered(r) ==
    [r EXCEPT !.state = "DELIVERED", !.deliveredAt = TRUE,
              !.deliveryRecordedAt = TRUE]

markAutoReleased(r, hash) ==
    [r EXCEPT !.state = "RELEASED", !.txHash = hash]

\* Mutant: the hash replaces the claim.
RecordReleasesClaim(r) == [r EXCEPT !.submittedAt = FALSE, !.txHash = "submitted"]

recordAutoReleaseSubmission(r) ==
    [r EXCEPT !.submittedAt = TRUE, !.txHash = "submitted"]

clearAutoReleaseSubmitting(r) == [r EXCEPT !.submittedAt = FALSE]
clearDeliveryClaim(r)         == [r EXCEPT !.deliveryRecordedAt = FALSE]

(* Queries of the two workers, as predicates on the row.  disputeId is     *)
(* never written, so that conjunct of the auto-release query is true; the  *)
(* 48-hour cutoff is elapsed time and may hold at any moment.              *)

findAutoReleaseEligible(r) ==
    /\ r.state = "DELIVERED"
    /\ r.deliveredAt
    /\ r.txHash = "null"
    /\ ~r.submittedAt

findShippedWithTracking(r) ==
    /\ r.state = "SHIPPED"
    /\ r.trackingId # "null"
    /\ r.mapped
=============================================================================
