--------------------------- MODULE EscrowHandlers ---------------------------
(***************************************************************************)
(* Everything in the backend that changes an escrow, running concurrently  *)
(* over one row, its Dispute row and its cache entry: the HTTP operations  *)
(* of EscrowService, BuyerDisputeService and DisputeService, the chain     *)
(* events of syncStateFromChain, the payment webhook and the two workers.  *)
(*                                                                         *)
(* A thread is one call in flight in some replica.  Every await of the     *)
(* code ends a step, so other threads run between a read and the write it  *)
(* leads to.  Callers are the participants the code admits: a refused      *)
(* caller only performs the read, which is getEscrow.                      *)
(***************************************************************************)
EXTENDS EscrowRepository, Naturals

CONSTANTS Threads,    \* calls in flight at once
          Ops,        \* the operations that occur
          Replicas,   \* processes running each worker
          Faulty,     \* database calls fail, processes die, Redis drops calls
          Miss        \* the absence of a cache entry

HttpOps == {"getEscrow", "cancelEscrow", "cancelPendingEscrow",
            "handleShipment", "updateBuyerContact", "openDispute",
            "resolveRelease", "resolveRefund"}

ChainEvents == {"EscrowFunded", "EscrowShipped", "EscrowCompleted",
                "EscrowCancelled", "DisputeRaised", "DisputeResolvedRelease",
                "DisputeResolvedRefund", "AutoReleased",
                "EscrowAutoCancelled", "EscrowExpired", "RefundApproved"}

\* The operations whose first read is the cached findById.
CachedOps == HttpOps \cup ChainEvents

AllOps == CachedOps \cup {"handlePayment", "autoRelease", "trackingPoll"}

ASSUME HandlerAssumption ==
    /\ Ops \subseteq AllOps
    /\ Replicas \in Nat
    /\ Faulty \in BOOLEAN
    /\ Miss \notin Views

VARIABLES row,        \* the Escrow row
          dispute,    \* the Dispute row of this escrow (escrowId is unique)
          cache,      \* the entry escrow:<id>
          thr         \* what each thread is doing

vars == <<row, dispute, cache, thr>>

PCs == {"idle", "get", "fetch", "fill", "chainState", "chainCancel",
        "chainResolve", "createDispute", "findDispute", "resolveDispute",
        "lookup", "carrier", "claim", "claimWrite", "claimInval", "submit", "record",
        "write", "clear", "inval", "checked"}

Idle == [op |-> "getEscrow", pc |-> "idle", seen |-> Miss, arg |-> "null"]

Calls == [op : AllOps, pc : PCs, seen : Views \cup {Miss},
          arg : TrackingIds \cup TxHashes]

-----------------------------------------------------------------------------
(* What each operation requires of the record it loaded.                   *)

cancelEscrowGuard(v)        == v.state = "FUNDED"
cancelPendingEscrowGuard(v) == v.state = "CREATED"
handleShipmentGuard(v)      == v.state = "FUNDED" /\ v.trackingId # "id"
updateBuyerContactGuard(v)  == v.state \notin TERMINAL_STATES
openDisputeGuard(v)         == v.state \in DISPUTABLE_STATES
resolveGuard(v)             == v.state = "DISPUTED" /\ v.mapped
handlePaymentGuard(v)       == v.state = "CREATED"


syncStateFromChainGuard(event, v) ==
    /\ event \in ChainEvents
    /\ v.state \notin TERMINAL_STATES
    /\ event = "EscrowFunded"  => v.state = "CREATED"
    /\ event = "EscrowShipped" => v.state \in {"CREATED", "FUNDED"}
    /\ event = "DisputeRaised" => v.state # "DISPUTED"

Guard(op, v) ==
    \/ op = "cancelEscrow"        /\ cancelEscrowGuard(v)
    \/ op = "cancelPendingEscrow" /\ cancelPendingEscrowGuard(v)
    \/ op = "handleShipment"      /\ handleShipmentGuard(v)
    \/ op = "updateBuyerContact"  /\ updateBuyerContactGuard(v)
    \/ op = "openDispute"         /\ openDisputeGuard(v)
    \/ op \in {"resolveRelease", "resolveRefund"} /\ resolveGuard(v)
    \/ op = "handlePayment"       /\ handlePaymentGuard(v)
    \/ op = "autoRelease"         \* the claim's findById: any record will do
    \/ syncStateFromChainGuard(op, v)

(* The step that follows the guards.                                       *)
FirstStep(op, v) ==
    IF op = "cancelPendingEscrow" /\ v.mapped THEN "chainState"
    ELSE IF op \in {"openDispute", "DisputeRaised"} THEN "createDispute"
    ELSE IF op \in {"resolveRelease", "resolveRefund"} THEN "chainResolve"
    ELSE IF op \in {"DisputeResolvedRelease", "DisputeResolvedRefund"} THEN "findDispute"
    ELSE IF op = "autoRelease" THEN "claimInval"
    ELSE "write"

(* The text the final update stores: an event carries its own value or     *)
(* falls back to the loaded one.                                           *)
Args(op, v) ==
    IF op = "handleShipment" THEN {"id"}
    ELSE IF op = "EscrowShipped" THEN {"id", "empty", OrEmpty(v.trackingId)}
    ELSE IF op = "AutoReleased" THEN {"event", OrEmpty(v.txHash)}
    ELSE {"null"}

(* The final update of each operation; updateBuyerContact stores only      *)
(* columns that are not modelled.                                          *)
Written(op, r, arg) ==
    IF op \in {"handlePayment", "EscrowFunded"} THEN updateState(r, "FUNDED")
    ELSE IF op \in {"handleShipment", "EscrowShipped"} THEN markShipped(r, arg)
    ELSE IF op \in {"openDispute", "DisputeRaised"} THEN updateState(r, "DISPUTED")
    ELSE IF op \in {"resolveRelease", "DisputeResolvedRelease", "EscrowCompleted"}
         THEN markCompleted(r)
    ELSE IF op \in {"resolveRefund", "DisputeResolvedRefund", "EscrowExpired",
                    "RefundApproved"} THEN markRefunded(r)
    ELSE IF op \in {"cancelEscrow", "cancelPendingEscrow", "EscrowCancelled",
                    "EscrowAutoCancelled"} THEN markCancelled(r)
    ELSE IF op = "AutoReleased" THEN markAutoReleased(r, arg)
    ELSE IF op = "trackingPoll" THEN markDelivered(r)
    ELSE r

Decisions(op, v) ==
    IF Guard(op, v)
    THEN {[op |-> op, pc |-> FirstStep(op, v), seen |-> Miss, arg |-> a] :
              a \in Args(op, v)}
    ELSE {Idle}

-----------------------------------------------------------------------------
Init ==
    /\ \E mapped \in BOOLEAN : row = create(mapped)
    /\ dispute = "none"
    /\ cache = Miss
    /\ thr = [t \in Threads |-> Idle]

At(t, pc)   == thr[t].pc = pc
Goto(t, pc) == thr' = [thr EXCEPT ![t].pc = pc]
Return(t)   == thr' = [thr EXCEPT ![t] = Idle]
Enter(t, op, pc) ==
    thr' = [thr EXCEPT ![t] = [op |-> op, pc |-> pc, seen |-> Miss, arg |-> "null"]]
Decide(t, v) ==
    \E call \in Decisions(thr[t].op, v) : thr' = [thr EXCEPT ![t] = call]

(* A call arrives.                                                         *)
Call(t, op) ==
    /\ At(t, "idle")
    /\ op \in Ops \cap CachedOps
    /\ Enter(t, op, "get")
    /\ UNCHANGED <<row, dispute, cache>>

(* findById: cache, then database, then cache fill; a failing get is a     *)
(* miss.                                                                   *)
CacheGet(t) ==
    /\ At(t, "get")
    /\ \/ cache # Miss /\ Decide(t, cache)
       \/ (cache = Miss \/ Faulty) /\ Goto(t, "fetch")
    /\ UNCHANGED <<row, dispute, cache>>

FindUnique(t) ==
    /\ At(t, "fetch")
    /\ thr' = [thr EXCEPT ![t].pc = "fill", ![t].seen = toEscrowRecord(row)]
    /\ UNCHANGED <<row, dispute, cache>>

CacheSet(t) ==
    /\ At(t, "fill")
    /\ \/ cache' = thr[t].seen
       \/ Faulty /\ cache' = cache
    /\ Decide(t, thr[t].seen)
    /\ UNCHANGED <<row, dispute>>

(* handlePayment lists the vendor's rows straight from the database.       *)
HandlePayment(t) ==
    /\ At(t, "idle")
    /\ "handlePayment" \in Ops
    /\ \E call \in Decisions("handlePayment", toEscrowRecord(row)) :
           thr' = [thr EXCEPT ![t] = call]
    /\ UNCHANGED <<row, dispute, cache>>

(* The final update of an operation, followed by invalidate.               *)
Write(t) ==
    /\ At(t, "write")
    /\ row' = Written(thr[t].op, row, thr[t].arg)
    /\ Goto(t, "inval")
    /\ UNCHANGED <<dispute, cache>>

CacheDel == cache' = Miss \/ (Faulty /\ cache' = cache)

\* Mutant: an update that leaves the cache entry.
NoInvalidation(t) ==
    /\ At(t, "inval")
    /\ IF thr[t].op = "trackingPoll" THEN Goto(t, "checked") ELSE Return(t)
    /\ UNCHANGED <<row, dispute, cache>>

Invalidate(t) ==
    /\ At(t, "inval")
    /\ CacheDel
    /\ IF thr[t].op = "trackingPoll" THEN Goto(t, "checked") ELSE Return(t)
    /\ UNCHANGED <<row, dispute>>

-----------------------------------------------------------------------------
(* cancelPendingEscrow asks the contract: FUNDED is refunded first, any    *)
(* other state but CREATED or absent is refused.                           *)
GetEscrowState(t) ==
    /\ At(t, "chainState")
    /\ \/ Goto(t, "write")
       \/ Goto(t, "chainCancel")
       \/ Return(t)
    /\ UNCHANGED <<row, dispute, cache>>

CancelEscrowOnChain(t) ==
    /\ At(t, "chainCancel")
    /\ Goto(t, "write") \/ Return(t)
    /\ UNCHANGED <<row, dispute, cache>>

(* openDispute and DisputeRaised: the Dispute row first; a second row is a *)
(* unique-constraint error.                                                *)
CreateDispute(t) ==
    /\ At(t, "createDispute")
    /\ \/ dispute = "none" /\ dispute' = "OPEN" /\ Goto(t, "write")
       \/ dispute # "none" /\ Return(t) /\ UNCHANGED dispute
    /\ UNCHANGED <<row, cache>>

(* DisputeService.resolve calls the contract, which may refuse.            *)
ResolveOnChain(t) ==
    /\ At(t, "chainResolve")
    /\ Goto(t, "findDispute") \/ Return(t)
    /\ UNCHANGED <<row, dispute, cache>>

(* A resolved dispute stops the chain event; resolve only looks for an     *)
(* open one and goes on without it.                                        *)
FindDispute(t) ==
    /\ At(t, "findDispute")
    /\ \/ dispute = "OPEN" /\ Goto(t, "resolveDispute")
       \/ dispute = "none" /\ Goto(t, "write")
       \/ /\ dispute = "RESOLVED"
          /\ IF thr[t].op \in HttpOps THEN Goto(t, "write") ELSE Return(t)
    /\ UNCHANGED <<row, dispute, cache>>

\* Mutant: the dispute is resolved, the escrow left DISPUTED.
ResolveDisputeOnly(t) ==
    /\ At(t, "resolveDispute")
    /\ dispute' = "RESOLVED"
    /\ Return(t)
    /\ UNCHANGED <<row, cache>>

ResolveDispute(t) ==
    /\ At(t, "resolveDispute")
    /\ dispute' = "RESOLVED"
    /\ Goto(t, "write")
    /\ UNCHANGED <<row, cache>>

-----------------------------------------------------------------------------
(* The workers.  The running flag admits one cycle per replica.            *)
MayRun(op) ==
    /\ op \in Ops
    /\ Cardinality({t \in Threads : ~At(t, "idle") /\ thr[t].op = op}) < Replicas

(* AutoReleaseWorker: query, dispute lookup, atomic claim (then findById   *)
(* and invalidate), contract call, record; an error clears the claim.      *)
AutoRelease(t) ==
    /\ At(t, "idle")
    /\ MayRun("autoRelease")
    /\ findAutoReleaseEligible(row)
    /\ Enter(t, "autoRelease", "lookup")
    /\ UNCHANGED <<row, dispute, cache>>

LookupDispute(t) ==
    /\ At(t, "lookup")
    /\ IF dispute = "none" /\ row.mapped THEN Goto(t, "claim") ELSE Return(t)
    /\ UNCHANGED <<row, dispute, cache>>

\* Mutant: an update by id instead of the conditional updateMany.
UnconditionalClaim(t) ==
    /\ At(t, "claim") /\ thr[t].op = "autoRelease"
    /\ row' = [row EXCEPT !.submittedAt = TRUE]
    /\ Goto(t, "get")
    /\ UNCHANGED <<dispute, cache>>

MarkAutoReleaseSubmitting(t) ==
    /\ At(t, "claim") /\ thr[t].op = "autoRelease"
    /\ \/ row.submittedAt /\ Return(t) /\ UNCHANGED row
       \/ /\ ~row.submittedAt
          /\ row' = [row EXCEPT !.submittedAt = TRUE]
          /\ Goto(t, "get")
    /\ UNCHANGED <<dispute, cache>>

ClaimInvalidate(t) ==
    /\ At(t, "claimInval")
    /\ CacheDel
    /\ Goto(t, "submit")
    /\ UNCHANGED <<row, dispute>>

\* Mutant: the catch block does not clear the claim.
SubmitKeepsClaim(t) ==
    /\ At(t, "submit")
    /\ \/ Goto(t, IF thr[t].op = "autoRelease" THEN "record" ELSE "write")
       \/ Return(t)
    /\ UNCHANGED <<row, dispute, cache>>

(* The contract call returns, or throws: refused, or sent and unconfirmed. *)
Submit(t) ==
    /\ At(t, "submit")
    /\ \/ Goto(t, IF thr[t].op = "autoRelease" THEN "record" ELSE "write")
       \/ Goto(t, "clear")
    /\ UNCHANGED <<row, dispute, cache>>

RecordSubmission(t) ==
    /\ At(t, "record")
    /\ row' = recordAutoReleaseSubmission(row)
    /\ Goto(t, "inval")
    /\ UNCHANGED <<dispute, cache>>

ClearClaim(t) ==
    /\ At(t, "clear")
    /\ row' = IF thr[t].op = "autoRelease"
              THEN clearAutoReleaseSubmitting(row)
              ELSE clearDeliveryClaim(row)
    /\ Goto(t, "inval")
    /\ UNCHANGED <<dispute, cache>>

(* TrackingPollWorker: query, carrier status, claimDelivery (a read, then  *)
(* an update), contract call, markDelivered; an error clears the claim and *)
(* every path ends with markTrackingChecked.                               *)
TrackingPoll(t) ==
    /\ At(t, "idle")
    /\ MayRun("trackingPoll")
    /\ findShippedWithTracking(row)
    /\ Enter(t, "trackingPoll",
             IF row.trackingId = "empty" THEN "checked" ELSE "carrier")
    /\ UNCHANGED <<row, dispute, cache>>

GetStatus(t) ==
    /\ At(t, "carrier")
    /\ Goto(t, "claim") \/ Goto(t, "checked")
    /\ UNCHANGED <<row, dispute, cache>>

\* Mutant: the state alone decides.
ClaimWithoutCheck(t) ==
    /\ At(t, "claim") /\ thr[t].op = "trackingPoll"
    /\ Goto(t, IF row.state = "SHIPPED" THEN "claimWrite" ELSE "checked")
    /\ UNCHANGED <<row, dispute, cache>>

ClaimDeliveryFind(t) ==
    /\ At(t, "claim") /\ thr[t].op = "trackingPoll"
    /\ Goto(t, IF row.state = "SHIPPED" /\ ~row.deliveryRecordedAt
               THEN "claimWrite" ELSE "checked")
    /\ UNCHANGED <<row, dispute, cache>>

ClaimDeliveryUpdate(t) ==
    /\ At(t, "claimWrite")
    /\ row' = [row EXCEPT !.deliveryRecordedAt = TRUE]
    /\ Goto(t, "claimInval")
    /\ UNCHANGED <<dispute, cache>>

MarkTrackingChecked(t) ==
    /\ At(t, "checked")
    /\ CacheDel
    /\ Return(t)
    /\ UNCHANGED <<row, dispute>>

-----------------------------------------------------------------------------
(* The cache entry outlives its 60-second TTL.                             *)
Expire ==
    /\ cache # Miss
    /\ cache' = Miss
    /\ UNCHANGED <<row, dispute, thr>>

(* A database call fails without effect and the handler's catch and        *)
(* finally blocks run.                                                     *)
DatabasePCs == {"fetch", "createDispute", "findDispute", "resolveDispute",
                "lookup", "claim", "claimWrite", "record", "write", "clear",
                "checked"}

OnError(op, pc) ==
    IF \/ op = "autoRelease" /\ pc = "record"
       \/ op = "trackingPoll" /\ pc = "write"
    THEN "clear"
    ELSE IF op = "trackingPoll" /\ pc \in {"claim", "claimWrite", "clear"}
    THEN "checked"
    ELSE "idle"

DatabaseError(t) ==
    /\ Faulty
    /\ thr[t].pc \in DatabasePCs
    /\ LET next == OnError(thr[t].op, thr[t].pc)
       IN  IF next = "idle" THEN Return(t) ELSE Goto(t, next)
    /\ UNCHANGED <<row, dispute, cache>>

(* The process dies.                                                       *)
Crash(t) ==
    /\ Faulty
    /\ ~At(t, "idle")
    /\ Return(t)
    /\ UNCHANGED <<row, dispute, cache>>

Arrive(t) ==
    \/ \E op \in Ops : Call(t, op)
    \/ HandlePayment(t)
    \/ AutoRelease(t)
    \/ TrackingPoll(t)

Step(t) ==
    \/ CacheGet(t) \/ FindUnique(t) \/ CacheSet(t) \/ Write(t) \/ Invalidate(t)
    \/ GetEscrowState(t) \/ CancelEscrowOnChain(t)
    \/ CreateDispute(t) \/ ResolveOnChain(t) \/ FindDispute(t) \/ ResolveDispute(t)
    \/ LookupDispute(t) \/ MarkAutoReleaseSubmitting(t) \/ ClaimInvalidate(t)
    \/ Submit(t) \/ RecordSubmission(t) \/ ClearClaim(t)
    \/ GetStatus(t) \/ ClaimDeliveryFind(t) \/ ClaimDeliveryUpdate(t)
    \/ MarkTrackingChecked(t)

Next ==
    \/ \E t \in Threads : Arrive(t) \/ Step(t) \/ DatabaseError(t) \/ Crash(t)
    \/ Expire

Spec == Init /\ [][Next]_vars

(* A call in flight runs to its end; nothing obliges calls to arrive.      *)
FairSpec == Spec /\ \A t \in Threads : WF_vars(Step(t))
-----------------------------------------------------------------------------
(* The row and the thread records have the shapes the code gives them, and *)
(* a database record is in hand exactly between findUnique and cache.set.  *)
TypeOK ==
    /\ row \in Rows
    /\ dispute \in {"none", "OPEN", "RESOLVED"}
    /\ cache \in Views \cup {Miss}
    /\ thr \in [Threads -> Calls]
    /\ \A t \in Threads : At(t, "fill") <=> thr[t].seen \in Views

(* A thread between its successful claim and the end of the submission.    *)
Submitting(t) ==
    /\ thr[t].op = "autoRelease"
    /\ thr[t].pc \in {"get", "fetch", "fill", "claimInval", "submit",
                      "record", "clear"}

(* markAutoReleaseSubmitting is a lock: whatever runs, fails or dies, at   *)
(* most one worker is between claim and record, and the column says so.    *)
AutoReleaseClaimExclusive ==
    \A t, u \in Threads :
        Submitting(t) => row.submittedAt /\ (Submitting(u) => t = u)

(* A recorded submission is never followed by another: once the worker's   *)
(* hash is stored the claim stays taken, also for a worker that selected   *)
(* the escrow before (comment of recordAutoReleaseSubmission).             *)
NoResubmission ==
    [][row.txHash = "submitted" =>
          row'.submittedAt /\ \A t \in Threads : ~Submitting(t)']_vars

(* The columns each state relies on are there whatever order updates come  *)
(* in: a dispute row for DISPUTED, a tracking id for SHIPPED, deliveredAt  *)
(* for DELIVERED (issue #395), a hash for RELEASED.                        *)
RowConsistent ==
    /\ row.state = "DISPUTED"  => dispute # "none"
    /\ row.state = "SHIPPED"   => row.trackingId # "null"
    /\ row.state = "DELIVERED" => row.deliveredAt
    /\ row.state = "RELEASED"  => row.txHash # "null"

(* clearDeliveryClaim never erases the record of a delivery markDelivered  *)
(* stored; holds while one replica runs the TrackingPollWorker.            *)
DeliveredIsRecorded == row.deliveredAt => row.deliveryRecordedAt

(* "preventing concurrent delivery recordings across worker instances":    *)
(* at most one worker is past claimDelivery.                               *)
Recording(t) ==
    thr[t].op = "trackingPoll" /\ thr[t].pc \in {"claimInval", "submit"}

DeliveryClaimExclusive ==
    \A t, u \in Threads : Recording(t) /\ Recording(u) => t = u

(* Without failures a claim is always given up or turned into a record:    *)
(* no interleaving of the workers with anything else strands an escrow.    *)
ClaimsResolved ==
    /\ (row.submittedAt /\ row.txHash = "null") ~>
           (~row.submittedAt \/ row.txHash # "null")
    /\ (row.deliveryRecordedAt /\ ~row.deliveredAt) ~>
           (~row.deliveryRecordedAt \/ row.deliveredAt)

(* No state change leaves a state of TERMINAL_STATES.                      *)
TerminalAbsorbing ==
    [][row.state \in TERMINAL_STATES => row'.state = row.state]_vars

(* The transition matrix of docs/state-machine.md: the rows of requests,   *)
(* payments and workers, and the rows of syncStateFromChain.               *)
OwnTransitions ==
    {<<"CREATED", "FUNDED">>, <<"CREATED", "CANCELLED">>, <<"FUNDED", "SHIPPED">>,
     <<"FUNDED", "CANCELLED">>, <<"FUNDED", "DISPUTED">>, <<"SHIPPED", "DELIVERED">>,
     <<"SHIPPED", "DISPUTED">>, <<"DELIVERED", "DISPUTED">>,
     <<"DISPUTED", "COMPLETED">>, <<"DISPUTED", "REFUNDED">>}

ChainTransitions ==
    {<<"CREATED", "FUNDED">>, <<"CREATED", "SHIPPED">>, <<"FUNDED", "SHIPPED">>} \cup
    ((States \ TERMINAL_STATES) \X
         {"COMPLETED", "DISPUTED", "RELEASED", "CANCELLED", "REFUNDED"})


(* invalidate keeps its promise as long as calls do not overlap: when none *)
(* is in flight, a cache entry is what the database holds.                 *)
CacheFresh ==
    (\A t \in Threads : At(t, "idle")) => cache \in {Miss, toEscrowRecord(row)}

(* A disputed escrow has a dispute to resolve, unless its resolution is    *)
(* being stored; holds while calls do not overlap.                         *)
DisputedIsOpen ==
    row.state = "DISPUTED" =>
        \/ dispute = "OPEN"
        \/ \E t \in Threads : At(t, "write")
=============================================================================
