----------------------- MODULE EscrowHandlers_proofs ------------------------
(***************************************************************************)
(* Proofs about EscrowHandlers for any set of threads, any operations, any *)
(* number of replicas, with or without failures.                           *)
(*                                                                         *)
(* Inv is the inductive invariant.  FlowOK says which operations may stand *)
(* at which step and with which argument, which is what makes the final    *)
(* update of a thread well typed and justified; Recorded => Locked says    *)
(* that a stored submission, or any stale copy of one in the cache or in a *)
(* thread, implies that the claim is taken and nobody is submitting.       *)
(***************************************************************************)
EXTENDS EscrowHandlers, TLAPS

DisputeOps == {"openDispute", "DisputeRaised"}
ResolveOps == {"resolveRelease", "resolveRefund",
               "DisputeResolvedRelease", "DisputeResolvedRefund"}
ShipOps    == {"handleShipment", "EscrowShipped"}
WorkerOps  == {"autoRelease", "trackingPoll"}

FlowOK(c, d) ==
    /\ c \in Calls
    /\ c.pc = "fill" <=> c.seen \in Views
    /\ c.pc \in {"get", "fetch", "fill"} => c.op \in CachedOps \cup {"autoRelease"}
    /\ c.pc \in {"chainState", "chainCancel"} => c.op = "cancelPendingEscrow"
    /\ c.pc \in {"chainResolve", "findDispute", "resolveDispute"} => c.op \in ResolveOps
    /\ c.pc = "createDispute" => c.op \in DisputeOps
    /\ c.pc \in {"claim", "claimInval", "submit", "clear"} => c.op \in WorkerOps
    /\ c.pc \in {"lookup", "record"} => c.op = "autoRelease"
    /\ c.pc \in {"carrier", "claimWrite"} => c.op = "trackingPoll"
    /\ c.pc = "write" /\ c.op \in ShipOps => c.arg \in TrackingIds \ {"null"}
    /\ c.pc = "write" /\ c.op = "AutoReleased" => c.arg \in TxHashes \ {"null"}
    /\ c.pc = "write" /\ c.op \in DisputeOps => d # "none"
    /\ c.pc = "write" => c.op # "autoRelease"

FlowInv ==
    /\ thr \in [Threads -> Calls]
    /\ \A t \in Threads : FlowOK(thr[t], dispute)

DataInv ==
    /\ row \in Rows
    /\ dispute \in {"none", "OPEN", "RESOLVED"}
    /\ cache \in Views \cup {Miss}

Locked == row.submittedAt /\ \A t \in Threads : ~Submitting(t)

SaysSubmitted(v) == v \in Views /\ v.txHash = "submitted"

Recorded ==
    \/ row.txHash = "submitted"
    \/ SaysSubmitted(cache)
    \/ \E t \in Threads : thr[t].arg = "submitted" \/ SaysSubmitted(thr[t].seen)

ClaimInv == AutoReleaseClaimExclusive /\ (Recorded => Locked)

Inv == DataInv /\ FlowInv /\ RowConsistent /\ ClaimInv

(* What every step owes: the invariant, and that a lock stays a lock.      *)
Preserved == Inv' /\ (Locked => Locked')

-----------------------------------------------------------------------------
(* toEscrowRecord shows a reader a View of any well-formed row.            *)
LEMMA ViewType ==
    ASSUME NEW r \in Rows
    PROVE  toEscrowRecord(r) \in Views /\ toEscrowRecord(r).txHash = r.txHash
  BY DEF toEscrowRecord, Rows, Views

(* A thread that has just been decided stands at a step its operation has, *)
(* with an argument its final update can store.                            *)
LEMMA DecisionFlow ==
    ASSUME NEW op \in CachedOps \cup {"autoRelease", "handlePayment"},
           NEW v \in Views, NEW d, NEW c \in Decisions(op, v)
    PROVE  /\ FlowOK(c, d)
           /\ c.seen = Miss
           /\ c.pc \notin {"get", "fetch", "fill", "record", "clear", "submit"}
           /\ op = "autoRelease" => c.op = "autoRelease" /\ c.pc = "claimInval"
           /\ op # "autoRelease" => c.op # "autoRelease"
           /\ c.arg = "submitted" => v.txHash = "submitted"
  <1>1. CASE ~Guard(op, v)
    <2>1. c = Idle BY <1>1 DEF Decisions
    <2>2. op # "autoRelease" BY <1>1 DEF Guard
    <2> QED BY <2>1, <2>2, HandlerAssumption
         DEF Idle, FlowOK, Calls, AllOps, CachedOps, HttpOps, PCs, TrackingIds
  <1>2. CASE Guard(op, v)
    <2>1. PICK a \in Args(op, v) :
              c = [op |-> op, pc |-> FirstStep(op, v), seen |-> Miss, arg |-> a]
      BY <1>2 DEF Decisions
    <2>2. /\ a \in TrackingIds \cup TxHashes
          /\ a = "submitted" => v.txHash = "submitted"
          /\ op \in ShipOps => a \in TrackingIds \ {"null"}
          /\ op = "AutoReleased" => a \in TxHashes \ {"null"}
      BY <2>1 DEF Args, OrEmpty, Views, TrackingIds, TxHashes, ShipOps
    <2>3. /\ FirstStep(op, v) \in {"chainState", "write", "createDispute",
                 "chainResolve", "findDispute", "claimInval"}
          /\ FirstStep(op, v) = "chainState" => op = "cancelPendingEscrow"
          /\ FirstStep(op, v) = "createDispute" <=> op \in DisputeOps
          /\ FirstStep(op, v) \in {"chainResolve", "findDispute"} => op \in ResolveOps
          /\ FirstStep(op, v) = "claimInval" <=> op = "autoRelease"
      BY DEF FirstStep, DisputeOps, ResolveOps
    <2> QED BY <2>1, <2>2, <2>3, HandlerAssumption
         DEF FlowOK, Calls, AllOps, CachedOps, PCs, WorkerOps
  <1> QED BY <1>1, <1>2

-----------------------------------------------------------------------------
(* Most steps are quiet: thread t becomes c, which neither takes a claim   *)
(* nor shows a submission that was not recorded already.                   *)
HoldsClaim(c) ==
    /\ c.op = "autoRelease"
    /\ c.pc \in {"get", "fetch", "fill", "claimInval", "submit",
                 "record", "clear"}

Move(t, c) ==
    /\ thr' = [thr EXCEPT ![t] = c]
    /\ FlowOK(c, dispute')

QuietMove(t, c) ==
    /\ Move(t, c)
    /\ HoldsClaim(c) => Submitting(t)
    /\ c.arg = "submitted" \/ SaysSubmitted(c.seen) => Recorded

QuietRow ==
    /\ row' \in Rows
    /\ row'.submittedAt = row.submittedAt
    /\ row'.txHash = "submitted" => Recorded
    /\ RowConsistent'

QuietCache ==
    /\ cache' \in Views \cup {Miss}
    /\ SaysSubmitted(cache') => Recorded

DisputeKept ==
    /\ dispute' \in {"none", "OPEN", "RESOLVED"}
    /\ dispute # "none" => dispute' # "none"

(* What the other threads and thread t look like after a move.             *)
LEMMA MoveFlow ==
    ASSUME FlowInv, DisputeKept, NEW t \in Threads, NEW c, Move(t, c)
    PROVE  /\ FlowInv'
           /\ thr'[t] = c
           /\ \A u \in Threads : u # t => thr'[u] = thr[u]
           /\ Submitting(t)' <=> HoldsClaim(c)
           /\ \A u \in Threads : u # t => (Submitting(u)' <=> Submitting(u))
  <1>1. c \in Calls BY DEF Move, FlowOK
  <1>2. /\ thr' \in [Threads -> Calls]
        /\ thr'[t] = c
        /\ \A u \in Threads : u # t => thr'[u] = thr[u]
    BY <1>1 DEF FlowInv, Move
  <1>3. ASSUME NEW u \in Threads PROVE FlowOK(thr'[u], dispute')
    <2>1. CASE u = t BY <1>2, <2>1 DEF Move
    <2>2. CASE u # t BY <1>2, <2>2 DEF FlowInv, FlowOK, DisputeKept
    <2> QED BY <2>1, <2>2
  <1> QED BY <1>2, <1>3 DEF FlowInv, Submitting, HoldsClaim

(* A quiet step keeps the invariant.                                       *)
LEMMA Quiet ==
    ASSUME Inv, QuietRow, QuietCache, DisputeKept,
           NEW t \in Threads, NEW c, QuietMove(t, c)
    PROVE  Preserved
  <1>1. /\ FlowInv'
        /\ thr'[t] = c
        /\ \A u \in Threads : u # t => thr'[u] = thr[u]
        /\ \A u \in Threads : Submitting(u)' => Submitting(u)
    BY MoveFlow DEF Inv, QuietMove
  <1>2. DataInv' BY DEF DataInv, QuietRow, QuietCache, DisputeKept
  <1>3. Recorded' => Recorded
    <2>1. (\E u \in Threads : thr'[u].arg = "submitted" \/ SaysSubmitted(thr'[u].seen))
              => Recorded
      BY <1>1 DEF QuietMove, Recorded
    <2> QED BY <2>1 DEF Recorded, SaysSubmitted, QuietRow, QuietCache
  <1>4. ClaimInv' /\ (Locked => Locked')
    BY <1>1, <1>3 DEF Inv, ClaimInv, AutoReleaseClaimExclusive, Locked, QuietRow
  <1> QED BY <1>1, <1>2, <1>4 DEF Preserved, Inv, QuietRow

(* The row is untouched.                                                   *)
LEMMA RowKept ==
    ASSUME Inv, row' = row, DisputeKept
    PROVE  QuietRow
  BY DEF Inv, DataInv, QuietRow, Recorded, RowConsistent, DisputeKept

(* del empties the entry or, failing, leaves it.                           *)
LEMMA CacheKept ==
    ASSUME Inv, cache' = cache \/ cache' = Miss
    PROVE  QuietCache
  BY HandlerAssumption DEF Inv, DataInv, QuietCache, Recorded, SaysSubmitted

(* A thread that returns is idle and holds nothing.                        *)
LEMMA ReturnMove ==
    ASSUME NEW t \in Threads, Return(t)
    PROVE  QuietMove(t, Idle)
  BY HandlerAssumption
     DEF Return, QuietMove, Move, Idle, FlowOK, Calls, AllOps, CachedOps, HttpOps,
         PCs, TrackingIds, HoldsClaim, SaysSubmitted

(* A thread that goes on keeps its operation and argument.                 *)
LEMMA GotoMove ==
    ASSUME Inv, NEW t \in Threads, NEW pc, Goto(t, pc),
           FlowOK([thr[t] EXCEPT !.pc = pc], dispute'),
           HoldsClaim([thr[t] EXCEPT !.pc = pc]) => Submitting(t)
    PROVE  QuietMove(t, [thr[t] EXCEPT !.pc = pc])
  <1> DEFINE c == [thr[t] EXCEPT !.pc = pc]
  <1>1. thr[t] \in Calls BY DEF Inv, FlowInv
  <1>2. thr' = [thr EXCEPT ![t] = c] BY DEF Goto
  <1>3. c.arg = thr[t].arg /\ c.seen = thr[t].seen BY <1>1 DEF Calls
  <1> QED BY <1>2, <1>3 DEF QuietMove, Move, Recorded

-----------------------------------------------------------------------------
(* A decided call is a quiet move from the step that decided it.           *)
LEMMA DecideMove ==
    ASSUME Inv, NEW t \in Threads, NEW v \in Views, Decide(t, v),
           thr[t].op \in CachedOps \cup {"autoRelease"},
           thr[t].pc \in {"get", "fill"},
           v.txHash = "submitted" => Recorded
    PROVE  \E c : QuietMove(t, c)
  <1>1. PICK c \in Decisions(thr[t].op, v) : thr' = [thr EXCEPT ![t] = c]
    BY DEF Decide
  <1> DEFINE op == thr[t].op
  <1>2. op \in CachedOps \cup {"autoRelease", "handlePayment"} OBVIOUS
  <1>3. c \in Decisions(op, v) BY <1>1
  <1> HIDE DEF op
  <1>4. /\ FlowOK(c, dispute')
        /\ c.seen = Miss
        /\ op # "autoRelease" => c.op # "autoRelease"
        /\ c.arg = "submitted" => v.txHash = "submitted"
    BY <1>2, <1>3, DecisionFlow
  <1>5. QuietMove(t, c)
    BY <1>1, <1>4, HandlerAssumption
       DEF op, QuietMove, Move, HoldsClaim, Submitting, SaysSubmitted
  <1> QED BY <1>5

(* Calls arrive.                                                           *)
LEMMA ArriveInv ==
    ASSUME Inv, NEW t \in Threads, Arrive(t)
    PROVE  Preserved
  <1>1. QuietRow /\ QuietCache /\ DisputeKept
    <2>1. row' = row /\ cache' = cache /\ dispute' = dispute
      BY DEF Arrive, Call, HandlePayment, AutoRelease, TrackingPoll
    <2>2. DisputeKept BY <2>1 DEF DisputeKept, Inv, DataInv
    <2> QED BY <2>1, <2>2, RowKept, CacheKept
  <1>2. ASSUME NEW op \in AllOps, NEW pc \in PCs, Enter(t, op, pc),
               \/ op \in CachedOps /\ pc = "get"
               \/ op = "autoRelease" /\ pc = "lookup"
               \/ op = "trackingPoll" /\ pc \in {"checked", "carrier"}
        PROVE  \E c : QuietMove(t, c)
    <2> DEFINE c == [op |-> op, pc |-> pc, seen |-> Miss, arg |-> "null"]
    <2>1. FlowOK(c, dispute')
      BY <1>2, HandlerAssumption
         DEF FlowOK, Calls, TrackingIds, CachedOps, HttpOps, ChainEvents, WorkerOps
    <2>2. ~HoldsClaim(c)
      BY <1>2 DEF HoldsClaim, CachedOps, HttpOps, ChainEvents
    <2>3. QuietMove(t, c)
      BY <1>2, <2>1, <2>2, HandlerAssumption
         DEF QuietMove, Move, Enter, SaysSubmitted
    <2> QED BY <2>3
  <1>3. ASSUME NEW op \in Ops, Call(t, op) PROVE \E c : QuietMove(t, c)
    <2>1. Enter(t, op, "get") /\ op \in CachedOps BY <1>3 DEF Call
    <2> QED BY <1>2, <2>1 DEF AllOps, PCs
  <1>4. ASSUME HandlePayment(t) PROVE \E c : QuietMove(t, c)
    <2>1. row \in Rows BY DEF Inv, DataInv
    <2>2. PICK c \in Decisions("handlePayment", toEscrowRecord(row)) :
              thr' = [thr EXCEPT ![t] = c]
      BY <1>4 DEF HandlePayment
    <2>3. /\ FlowOK(c, dispute')
          /\ c.seen = Miss
          /\ c.op # "autoRelease"
          /\ c.arg = "submitted" => row.txHash = "submitted"
      BY <2>1, <2>2, ViewType, DecisionFlow
    <2>4. QuietMove(t, c)
      BY <2>2, <2>3, HandlerAssumption
         DEF QuietMove, Move, HoldsClaim, SaysSubmitted, Recorded
    <2> QED BY <2>4
  <1>5. ASSUME AutoRelease(t) PROVE \E c : QuietMove(t, c)
    <2>1. Enter(t, "autoRelease", "lookup") BY <1>5 DEF AutoRelease
    <2> QED BY <1>2, <2>1 DEF AllOps, PCs
  <1>6. ASSUME TrackingPoll(t) PROVE \E c : QuietMove(t, c)
    <2>1. \/ Enter(t, "trackingPoll", "checked")
          \/ Enter(t, "trackingPoll", "carrier")
      BY <1>6 DEF TrackingPoll
    <2> QED BY <1>2, <2>1 DEF AllOps, PCs
  <1>7. \E c : QuietMove(t, c) BY <1>3, <1>4, <1>5, <1>6 DEF Arrive
  <1> QED BY <1>1, <1>7, Quiet

(* findById.                                                               *)
LEMMA FindByIdInv ==
    ASSUME Inv, NEW t \in Threads, CacheGet(t) \/ FindUnique(t) \/ CacheSet(t)
    PROVE  Preserved
  <1>1. /\ row' = row /\ dispute' = dispute
        /\ DisputeKept
    BY DEF CacheGet, FindUnique, CacheSet, DisputeKept, Inv, DataInv
  <1>2. QuietRow BY <1>1, RowKept
  <1>3. thr[t] \in Calls /\ FlowOK(thr[t], dispute) BY DEF Inv, FlowInv
  <1>4. CASE CacheGet(t)
    <2>1. QuietCache BY <1>4, CacheKept DEF CacheGet
    <2>2. thr[t].op \in CachedOps \cup {"autoRelease"} /\ thr[t].pc = "get"
      BY <1>3, <1>4 DEF CacheGet, At, FlowOK
    <2>3. CASE cache # Miss /\ Decide(t, cache)
      <3>1. cache \in Views BY <2>3 DEF Inv, DataInv
      <3>2. \E c : QuietMove(t, c)
        BY <2>2, <2>3, <3>1, DecideMove DEF Recorded, SaysSubmitted
      <3> QED BY <1>1, <1>2, <2>1, <3>2, Quiet
    <2>4. CASE Goto(t, "fetch")
      <3>1. FlowOK([thr[t] EXCEPT !.pc = "fetch"], dispute')
        BY <1>1, <1>3, <2>2, HandlerAssumption DEF FlowOK, Calls, PCs
      <3>2. HoldsClaim([thr[t] EXCEPT !.pc = "fetch"]) => Submitting(t)
        BY <1>3, <2>2 DEF HoldsClaim, Submitting, Calls
      <3>3. QuietMove(t, [thr[t] EXCEPT !.pc = "fetch"])
        BY <2>4, <3>1, <3>2, GotoMove
      <3> QED BY <1>1, <1>2, <2>1, <3>3, Quiet
    <2> QED BY <1>4, <2>3, <2>4 DEF CacheGet
  <1>5. CASE FindUnique(t)
    <2> DEFINE v == toEscrowRecord(row)
               c == [thr[t] EXCEPT !.pc = "fill", !.seen = v]
    <2>1. v \in Views /\ v.txHash = row.txHash BY ViewType DEF Inv, DataInv
    <2>2. thr' = [thr EXCEPT ![t] = c] /\ thr[t].pc = "fetch"
      BY <1>5 DEF FindUnique, At
    <2> HIDE DEF v
    <2>3. /\ c \in Calls
          /\ c.op = thr[t].op /\ c.pc = "fill" /\ c.seen = v /\ c.arg = thr[t].arg
      BY <1>3, <2>1 DEF Calls, PCs
    <2> HIDE DEF c
    <2>4. FlowOK(c, dispute') BY <1>3, <2>1, <2>2, <2>3 DEF FlowOK
    <2>5. QuietMove(t, c)
      BY <2>1, <2>2, <2>3, <2>4
         DEF QuietMove, Move, HoldsClaim, Submitting, SaysSubmitted, Recorded
    <2>6. QuietCache BY <1>5, CacheKept DEF FindUnique
    <2> QED BY <1>1, <1>2, <2>5, <2>6, Quiet
  <1>6. CASE CacheSet(t)
    <2>1. thr[t].seen \in Views /\ thr[t].pc = "fill"
          /\ thr[t].op \in CachedOps \cup {"autoRelease"}
      BY <1>3, <1>6 DEF CacheSet, At, FlowOK
    <2>2. thr[t].seen.txHash = "submitted" => Recorded
      BY <2>1 DEF Recorded, SaysSubmitted
    <2>3. QuietCache
      BY <1>6, <2>1, <2>2, CacheKept DEF CacheSet, QuietCache, SaysSubmitted
    <2>4. \E c : QuietMove(t, c) BY <1>6, <2>1, <2>2, DecideMove DEF CacheSet
    <2> QED BY <1>1, <1>2, <2>3, <2>4, Quiet
  <1> QED BY <1>4, <1>5, <1>6

(* A thread goes on to a step that its operation has.                      *)
LEMMA GoOn ==
    ASSUME Inv, DisputeKept, QuietRow, QuietCache, NEW t \in Threads,
           NEW pc \in PCs \ {"fill"}, Goto(t, pc), thr[t].pc # "fill",
           FlowOK([op |-> thr[t].op, pc |-> pc, seen |-> Miss, arg |-> thr[t].arg],
                  dispute'),
           thr[t].op = "autoRelease" /\ pc \in {"get", "fetch", "claimInval",
                 "submit", "record", "clear"} => Submitting(t)
    PROVE  Preserved
  <1> DEFINE c == [thr[t] EXCEPT !.pc = pc]
  <1>1. thr[t] \in Calls /\ FlowOK(thr[t], dispute) BY DEF Inv, FlowInv
  <1>2. thr[t].seen = Miss BY <1>1 DEF FlowOK, Calls
  <1>3. c = [op |-> thr[t].op, pc |-> pc, seen |-> Miss, arg |-> thr[t].arg]
    BY <1>1, <1>2 DEF Calls
  <1>4. FlowOK(c, dispute') BY <1>3
  <1>5. HoldsClaim(c) => Submitting(t) BY <1>3 DEF HoldsClaim
  <1>6. QuietMove(t, c) BY <1>4, <1>5, GotoMove
  <1> QED BY <1>6, Quiet

(* Steps that read the chain, the carrier, the dispute or the row, and     *)
(* failures: only the thread changes.                                      *)
LEMMA ReadInv ==
    ASSUME Inv, NEW t \in Threads,
           \/ GetEscrowState(t) \/ CancelEscrowOnChain(t) \/ ResolveOnChain(t)
           \/ FindDispute(t) \/ LookupDispute(t) \/ Submit(t) \/ GetStatus(t)
           \/ ClaimDeliveryFind(t) \/ DatabaseError(t) \/ Crash(t)
    PROVE  Preserved
  <1>1. row' = row /\ cache' = cache /\ dispute' = dispute
    BY DEF GetEscrowState, CancelEscrowOnChain, ResolveOnChain, FindDispute,
           LookupDispute, Submit, GetStatus, ClaimDeliveryFind, DatabaseError, Crash
  <1>2. DisputeKept BY <1>1 DEF DisputeKept, Inv, DataInv
  <1>3. QuietRow /\ QuietCache BY <1>1, <1>2, RowKept, CacheKept
  <1>4. thr[t] \in Calls /\ FlowOK(thr[t], dispute) BY DEF Inv, FlowInv
  <1>5. ASSUME Return(t) PROVE Preserved
    BY <1>2, <1>3, <1>5, ReturnMove, Quiet
  <1>6. ASSUME NEW pc \in PCs \ {"fill"}, Goto(t, pc), thr[t].pc # "fill",
               \/ /\ pc \in {"write", "chainCancel"}
                  /\ thr[t].op \in {"cancelPendingEscrow", "trackingPoll"} \cup ResolveOps
                  /\ pc = "chainCancel" => thr[t].op = "cancelPendingEscrow"
               \/ /\ pc \in {"findDispute", "resolveDispute"}
                  /\ thr[t].op \in ResolveOps
               \/ /\ pc = "claim" /\ thr[t].op \in WorkerOps
               \/ /\ pc \in {"checked", "claimWrite"}
                  /\ thr[t].op = "trackingPoll"
               \/ /\ pc \in {"record", "clear"}
                  /\ thr[t].op \in WorkerOps
                  /\ pc = "record" => thr[t].op = "autoRelease"
                  /\ thr[t].op = "autoRelease" => thr[t].pc \in {"submit", "record"}
        PROVE  Preserved
    <2>1. FlowOK([op |-> thr[t].op, pc |-> pc, seen |-> Miss, arg |-> thr[t].arg],
                 dispute')
      BY <1>4, <1>6, HandlerAssumption
         DEF FlowOK, Calls, WorkerOps, ResolveOps, DisputeOps, ShipOps
    <2>2. thr[t].op = "autoRelease" /\ pc \in {"get", "fetch", "claimInval",
             "submit", "record", "clear"} => Submitting(t)
      BY <1>6 DEF Submitting, ResolveOps
    <2> QED BY <1>2, <1>3, <1>6, <2>1, <2>2, GoOn
  <1>7. CASE GetEscrowState(t) \/ CancelEscrowOnChain(t)
    BY <1>4, <1>5, <1>6, <1>7
       DEF GetEscrowState, CancelEscrowOnChain, At, FlowOK, PCs
  <1>8. CASE ResolveOnChain(t) \/ FindDispute(t)
    BY <1>4, <1>5, <1>6, <1>8 DEF ResolveOnChain, FindDispute, At, FlowOK, PCs
  <1>9. CASE LookupDispute(t)
    BY <1>4, <1>5, <1>6, <1>9 DEF LookupDispute, At, FlowOK, PCs, WorkerOps
  <1>10. CASE Submit(t)
    BY <1>4, <1>6, <1>10 DEF Submit, At, FlowOK, PCs, WorkerOps
  <1>11. CASE GetStatus(t) \/ ClaimDeliveryFind(t)
    BY <1>4, <1>6, <1>11
       DEF GetStatus, ClaimDeliveryFind, At, FlowOK, PCs, WorkerOps
  <1>12. CASE DatabaseError(t)
    <2>1. CASE OnError(thr[t].op, thr[t].pc) = "idle"
      BY <1>5, <1>12, <2>1 DEF DatabaseError
    <2>2. CASE OnError(thr[t].op, thr[t].pc) # "idle"
      <3> DEFINE pc == OnError(thr[t].op, thr[t].pc)
      <3>1. Goto(t, pc) BY <1>12, <2>2 DEF DatabaseError
      <3>2. /\ pc \in PCs \ {"fill"} /\ thr[t].pc # "fill"
            /\ \/ pc = "clear" /\ thr[t].op = "autoRelease" /\ thr[t].pc = "record"
               \/ pc \in {"clear", "checked"} /\ thr[t].op = "trackingPoll"
        BY <2>2 DEF OnError, PCs
      <3> HIDE DEF pc
      <3> QED BY <1>6, <3>1, <3>2 DEF WorkerOps
    <2> QED BY <2>1, <2>2
  <1>13. CASE Crash(t) BY <1>5, <1>13 DEF Crash
  <1> QED BY <1>7, <1>8, <1>9, <1>10, <1>11, <1>12, <1>13

(* Steps that invalidate the cache entry.                                  *)
LEMMA InvalidateInv ==
    ASSUME Inv, NEW t \in Threads,
           Invalidate(t) \/ ClaimInvalidate(t) \/ MarkTrackingChecked(t)
    PROVE  Preserved
  <1>1. row' = row /\ dispute' = dispute /\ (cache' = cache \/ cache' = Miss)
    BY DEF Invalidate, ClaimInvalidate, MarkTrackingChecked, CacheDel
  <1>2. DisputeKept BY <1>1 DEF DisputeKept, Inv, DataInv
  <1>3. QuietRow /\ QuietCache BY <1>1, <1>2, RowKept, CacheKept
  <1>4. thr[t] \in Calls /\ FlowOK(thr[t], dispute) BY DEF Inv, FlowInv
  <1>5. CASE Return(t) BY <1>2, <1>3, <1>5, ReturnMove, Quiet
  <1>6. CASE Goto(t, "checked") /\ At(t, "inval") /\ thr[t].op = "trackingPoll"
    <2>1. FlowOK([op |-> thr[t].op, pc |-> "checked", seen |-> Miss,
                  arg |-> thr[t].arg], dispute')
      BY <1>4, <1>6, HandlerAssumption DEF FlowOK, Calls, PCs
    <2> QED BY <1>2, <1>3, <1>6, <2>1, GoOn DEF At, PCs
  <1>7. CASE ClaimInvalidate(t)
    <2>1. At(t, "claimInval") /\ Goto(t, "submit") BY <1>7 DEF ClaimInvalidate
    <2>2. FlowOK([op |-> thr[t].op, pc |-> "submit", seen |-> Miss,
                  arg |-> thr[t].arg], dispute')
      BY <1>4, <2>1, HandlerAssumption DEF FlowOK, Calls, PCs, At
    <2> QED BY <1>2, <1>3, <2>1, <2>2, GoOn DEF At, PCs, Submitting
  <1> QED BY <1>5, <1>6, <1>7 DEF Invalidate, MarkTrackingChecked

(* Steps that write the Dispute row.                                       *)
LEMMA DisputeInv ==
    ASSUME Inv, NEW t \in Threads, CreateDispute(t) \/ ResolveDispute(t)
    PROVE  Preserved
  <1>1. row' = row /\ cache' = cache /\ DisputeKept
    BY DEF CreateDispute, ResolveDispute, DisputeKept, Inv, DataInv
  <1>2. QuietRow /\ QuietCache BY <1>1, RowKept, CacheKept
  <1>3. thr[t] \in Calls /\ FlowOK(thr[t], dispute) BY DEF Inv, FlowInv
  <1>4. CASE Return(t) BY <1>1, <1>2, <1>4, ReturnMove, Quiet
  <1>5. CASE /\ Goto(t, "write") /\ dispute' # "none"
             /\ thr[t].pc \in {"createDispute", "resolveDispute"}
    <2>1. FlowOK([op |-> thr[t].op, pc |-> "write", seen |-> Miss,
                  arg |-> thr[t].arg], dispute')
      BY <1>3, <1>5, HandlerAssumption
         DEF FlowOK, Calls, PCs, DisputeOps, ResolveOps, ShipOps
    <2> QED BY <1>1, <1>2, <1>5, <2>1, GoOn DEF PCs
  <1> QED BY <1>4, <1>5 DEF CreateDispute, ResolveDispute, At

(* Updates of the row that leave the auto-release claim alone.             *)
LEMMA WriteInv ==
    ASSUME Inv, NEW t \in Threads, Write(t) \/ ClaimDeliveryUpdate(t)
    PROVE  Preserved
  <1>1. cache' = cache /\ dispute' = dispute /\ DisputeKept
    BY DEF Write, ClaimDeliveryUpdate, DisputeKept, Inv, DataInv
  <1>2. QuietCache BY <1>1, CacheKept
  <1>3. thr[t] \in Calls /\ FlowOK(thr[t], dispute) /\ row \in Rows
    BY DEF Inv, FlowInv, DataInv
  <1>4. CASE Write(t)
    <2> DEFINE op == thr[t].op
               arg == thr[t].arg
    <2>1. /\ row' = Written(op, row, arg)
          /\ op \in ShipOps => arg \in TrackingIds \ {"null"}
          /\ op = "AutoReleased" => arg \in TxHashes \ {"null"}
          /\ op \in DisputeOps => dispute # "none"
          /\ arg = "submitted" => Recorded
      BY <1>3, <1>4 DEF Write, At, FlowOK, Recorded
    <2> HIDE DEF op, arg
    <2>2. /\ row' \in Rows
          /\ row'.submittedAt = row.submittedAt
          /\ row'.txHash = "submitted" => Recorded
      <3>1. row' \in Rows
        <4>1. \A s \in States : updateState(row, s) \in Rows
          BY <1>3 DEF updateState, Rows
        <4>2. \A id \in TrackingIds : markShipped(row, id) \in Rows
          BY Zenon, <1>3 DEF markShipped, Rows, States
        <4>3. \A hash \in TxHashes : markAutoReleased(row, hash) \in Rows
          BY Zenon, <1>3 DEF markAutoReleased, Rows, States
        <4>4. /\ markCompleted(row) \in Rows /\ markRefunded(row) \in Rows
              /\ markCancelled(row) \in Rows
          BY <1>3 DEF markCompleted, markRefunded, markCancelled, Rows, States
        <4>5. markDelivered(row) \in Rows
          BY Zenon, <1>3 DEF markDelivered, Rows, States
        <4> QED BY <1>3, <2>1, <4>1, <4>2, <4>3, <4>4, <4>5
                DEF Written, States, ShipOps
      <3> USE DEF updateState, markShipped, markCompleted, markRefunded,
                  markCancelled, markAutoReleased, markDelivered
      <3>2. row'.submittedAt = row.submittedAt
        BY <1>3, <2>1 DEF Written, Rows
      <3>3. row'.txHash = row.txHash \/ row'.txHash = arg
        BY <1>3, <2>1 DEF Written, Rows
      <3>4. row.txHash = "submitted" => Recorded
        BY DEF Recorded
      <3> QED BY <2>1, <3>1, <3>2, <3>3, <3>4
    <2>3. RowConsistent'
      BY <1>1, <1>3, <2>1
         DEF Inv, RowConsistent, Written, updateState, markShipped, markCompleted,
             markRefunded, markCancelled, markAutoReleased, markDelivered, Rows,
             ShipOps, DisputeOps
    <2>4. FlowOK([op |-> thr[t].op, pc |-> "inval", seen |-> Miss,
                  arg |-> thr[t].arg], dispute')
      BY <1>3, HandlerAssumption DEF FlowOK, Calls, PCs
    <2>5. At(t, "write") /\ Goto(t, "inval") BY <1>4 DEF Write
    <2> QED BY <1>1, <1>2, <2>2, <2>3, <2>4, <2>5, GoOn DEF QuietRow, PCs, At
  <1>5. CASE ClaimDeliveryUpdate(t)
    <2>1. /\ row' = [row EXCEPT !.deliveryRecordedAt = TRUE]
          /\ At(t, "claimWrite") /\ Goto(t, "claimInval")
      BY <1>5 DEF ClaimDeliveryUpdate
    <2>2. QuietRow
      BY Zenon, <1>1, <1>3, <2>1 DEF QuietRow, Rows, Recorded, Inv, RowConsistent
    <2>3. thr[t].op = "trackingPoll" BY <1>3, <2>1 DEF FlowOK, At
    <2>4. FlowOK([op |-> thr[t].op, pc |-> "claimInval", seen |-> Miss,
                  arg |-> thr[t].arg], dispute')
      BY <1>3, <2>3, HandlerAssumption DEF FlowOK, Calls, PCs, WorkerOps
    <2> QED BY <1>1, <1>2, <2>1, <2>2, <2>3, <2>4, GoOn DEF PCs, At
  <1> QED BY <1>4, <1>5

(* A thread that goes on from a step other than fill, whatever the row     *)
(* does: the threads stay well formed and show no new submission.          *)
LEMMA GoOnFlow ==
    ASSUME Inv, dispute' = dispute, NEW t \in Threads, NEW pc \in {"get", "inval"},
           Goto(t, pc), thr[t].pc \in {"claim", "record", "clear"},
           pc = "get" => thr[t].op = "autoRelease"
    PROVE  /\ FlowInv'
           /\ Submitting(t)' <=> thr[t].op = "autoRelease" /\ pc = "get"
           /\ \A u \in Threads : u # t => (Submitting(u)' <=> Submitting(u))
           /\ \A u \in Threads : /\ thr'[u].arg = thr[u].arg
                                 /\ thr'[u].seen = thr[u].seen
  <1> DEFINE c == [thr[t] EXCEPT !.pc = pc]
  <1>1. thr[t] \in Calls /\ FlowOK(thr[t], dispute) BY DEF Inv, FlowInv
  <1>2. /\ c \in Calls /\ c.pc = pc /\ c.op = thr[t].op
        /\ c.arg = thr[t].arg /\ c.seen = thr[t].seen
    BY <1>1 DEF Calls, PCs
  <1>3. thr' = [thr EXCEPT ![t] = c] BY DEF Goto
  <1> HIDE DEF c
  <1>4. Move(t, c) BY <1>1, <1>2, <1>3 DEF Move, FlowOK
  <1>5. DisputeKept BY DEF DisputeKept, Inv, DataInv
  <1> QED BY <1>2, <1>4, <1>5, MoveFlow DEF Inv, HoldsClaim

(* Taking the claim: the column was null, so nobody held it and nothing    *)
(* was recorded.                                                           *)
LEMMA ClaimTaken ==
    ASSUME Inv, NEW t \in Threads, MarkAutoReleaseSubmitting(t)
    PROVE  Preserved
  <1>1. cache' = cache /\ dispute' = dispute /\ DisputeKept
        /\ thr[t].pc = "claim" /\ thr[t].op = "autoRelease"
    BY DEF MarkAutoReleaseSubmitting, DisputeKept, Inv, DataInv, At
  <1>2. CASE Return(t) /\ row' = row
    BY <1>1, <1>2, RowKept, CacheKept, ReturnMove, Quiet
  <1>3. CASE /\ ~row.submittedAt
             /\ row' = [row EXCEPT !.submittedAt = TRUE]
             /\ Goto(t, "get")
    <2>1. row \in Rows BY DEF Inv, DataInv
    <2>2. ~Recorded /\ \A u \in Threads : ~Submitting(u)
      BY <1>3 DEF Inv, ClaimInv, Locked, AutoReleaseClaimExclusive
    <2>3. /\ FlowInv'
          /\ \A u \in Threads : Submitting(u)' => u = t
          /\ \A u \in Threads : /\ thr'[u].arg = thr[u].arg
                                /\ thr'[u].seen = thr[u].seen
      BY <1>1, <1>3, <2>2, GoOnFlow
    <2>4. row' \in Rows /\ row'.submittedAt /\ row'.txHash = row.txHash
      BY <1>3, <2>1 DEF Rows
    <2>5. ~Recorded' BY <1>1, <2>2, <2>3, <2>4 DEF Recorded, SaysSubmitted
    <2>6. ClaimInv' BY <2>3, <2>4, <2>5 DEF ClaimInv, AutoReleaseClaimExclusive
    <2>7. ~Locked BY <1>3 DEF Locked
    <2>8. RowConsistent' BY <1>1, <1>3, <2>1 DEF Inv, RowConsistent, Rows
    <2> QED BY <1>1, <2>3, <2>4, <2>6, <2>7, <2>8 DEF Preserved, Inv, DataInv
  <1> QED BY <1>2, <1>3 DEF MarkAutoReleaseSubmitting

(* Recording the submission: the holder leaves, the column stays set.      *)
LEMMA ClaimRecorded ==
    ASSUME Inv, NEW t \in Threads, RecordSubmission(t)
    PROVE  Preserved
  <1>1. /\ cache' = cache /\ dispute' = dispute
        /\ thr[t].pc = "record" /\ Goto(t, "inval")
        /\ row' = [row EXCEPT !.submittedAt = TRUE, !.txHash = "submitted"]
    BY DEF RecordSubmission, recordAutoReleaseSubmission, At
  <1>2. row \in Rows /\ thr[t].op = "autoRelease"
    BY <1>1 DEF Inv, DataInv, FlowInv, FlowOK
  <1>3. \A u \in Threads : u # t => ~Submitting(u)
    BY <1>1, <1>2 DEF Inv, ClaimInv, AutoReleaseClaimExclusive, Submitting
  <1>4. FlowInv' /\ \A u \in Threads : ~Submitting(u)'
    BY <1>1, <1>3, GoOnFlow
  <1>5. row' \in Rows /\ row'.submittedAt BY <1>1, <1>2 DEF Rows, TxHashes
  <1>6. ClaimInv' /\ Locked'
    BY <1>4, <1>5 DEF ClaimInv, AutoReleaseClaimExclusive, Locked
  <1>7. RowConsistent' BY <1>1, <1>2 DEF Inv, RowConsistent, Rows
  <1> QED BY <1>1, <1>4, <1>5, <1>6, <1>7 DEF Preserved, Inv, DataInv

(* Clearing a claim: the auto-release holder had recorded nothing; the     *)
(* delivery claim is another column.                                       *)
LEMMA ClaimCleared ==
    ASSUME Inv, NEW t \in Threads, ClearClaim(t)
    PROVE  Preserved
  <1>1. /\ cache' = cache /\ dispute' = dispute /\ DisputeKept
        /\ thr[t].pc = "clear" /\ Goto(t, "inval")
    BY DEF ClearClaim, At, DisputeKept, Inv, DataInv
  <1>2. row \in Rows BY DEF Inv, DataInv
  <1>3. /\ FlowInv'
        /\ ~Submitting(t)'
        /\ \A u \in Threads : u # t => (Submitting(u)' <=> Submitting(u))
        /\ \A u \in Threads : /\ thr'[u].arg = thr[u].arg
                              /\ thr'[u].seen = thr[u].seen
    BY <1>1, GoOnFlow
  <1>4. row' \in Rows /\ row'.txHash = row.txHash /\ RowConsistent'
    BY <1>1, <1>2
       DEF ClearClaim, clearAutoReleaseSubmitting, clearDeliveryClaim, Rows,
           Inv, RowConsistent
  <1>5. Recorded' => Recorded BY <1>1, <1>3, <1>4 DEF Recorded, SaysSubmitted
  <1>6. CASE thr[t].op = "autoRelease"
    <2>1. Submitting(t) BY <1>1, <1>6 DEF Submitting
    <2>2. ~Locked /\ ~Recorded /\ \A u \in Threads : u # t => ~Submitting(u)
      BY <2>1 DEF Inv, ClaimInv, Locked, AutoReleaseClaimExclusive
    <2>3. ClaimInv' BY <1>3, <1>5, <2>2 DEF ClaimInv, AutoReleaseClaimExclusive
    <2> QED BY <1>1, <1>3, <1>4, <2>2, <2>3 DEF Preserved, Inv, DataInv
  <1>7. CASE thr[t].op # "autoRelease"
    <2>1. row'.submittedAt = row.submittedAt
      BY <1>2, <1>7 DEF ClearClaim, clearDeliveryClaim, Rows
    <2>2. ClaimInv' /\ (Locked => Locked')
      BY <1>3, <1>5, <2>1 DEF Inv, ClaimInv, Locked, AutoReleaseClaimExclusive
    <2> QED BY <1>1, <1>3, <1>4, <2>2 DEF Preserved, Inv, DataInv
  <1> QED BY <1>6, <1>7

-----------------------------------------------------------------------------
(* Every new escrow satisfies the invariant.                               *)
LEMMA InitInv == Init => Inv
  <1> SUFFICES ASSUME Init PROVE Inv OBVIOUS
  <1>1. DataInv /\ RowConsistent
    BY DEF Init, DataInv, RowConsistent, create, Rows, States, TrackingIds, TxHashes
  <1>2. FlowOK(Idle, dispute)
    BY HandlerAssumption
       DEF Idle, FlowOK, Calls, AllOps, CachedOps, HttpOps, PCs, TrackingIds
  <1>3. FlowInv BY <1>2 DEF Init, FlowInv, FlowOK
  <1>4. ~Recorded /\ \A t \in Threads : ~Submitting(t)
    BY HandlerAssumption
       DEF Init, Recorded, SaysSubmitted, Submitting, Idle, create
  <1> QED BY <1>1, <1>3, <1>4 DEF Inv, ClaimInv, AutoReleaseClaimExclusive

(* Every step of the backend keeps the invariant and the lock.             *)
LEMMA NextInv == Inv /\ [Next]_vars => Preserved
  <1> SUFFICES ASSUME Inv, [Next]_vars PROVE Preserved OBVIOUS
  <1>1. ASSUME NEW t \in Threads, Arrive(t) PROVE Preserved
    BY <1>1, ArriveInv
  <1>2. ASSUME NEW t \in Threads, Step(t) PROVE Preserved
    BY <1>2, FindByIdInv, ReadInv, InvalidateInv, DisputeInv, WriteInv,
       ClaimTaken, ClaimRecorded, ClaimCleared DEF Step
  <1>3. ASSUME NEW t \in Threads, DatabaseError(t) \/ Crash(t) PROVE Preserved
    BY <1>3, ReadInv
  <1>4. CASE UNCHANGED vars
    BY <1>4 DEF vars, Preserved, Inv, DataInv, FlowInv, RowConsistent, ClaimInv,
               AutoReleaseClaimExclusive, Recorded, Locked, Submitting
  <1>5. CASE Expire
    <2>1. /\ row' = row /\ dispute' = dispute /\ thr' = thr /\ cache' = Miss
      BY <1>5 DEF Expire
    <2>2. DataInv' /\ FlowInv' /\ RowConsistent'
      BY <2>1 DEF Inv, DataInv, FlowInv, RowConsistent
    <2>3. (Recorded' => Recorded) /\ (Locked <=> Locked')
      BY <2>1, HandlerAssumption DEF Recorded, SaysSubmitted, Locked, Submitting
    <2>4. AutoReleaseClaimExclusive'
      BY <2>1 DEF Inv, ClaimInv, AutoReleaseClaimExclusive, Submitting
    <2> QED BY <2>2, <2>3, <2>4 DEF Preserved, Inv, ClaimInv
  <1> QED BY <1>1, <1>2, <1>3, <1>4, <1>5 DEF Next

(* The inductive invariant, by the two lemmas above.                       *)
LEMMA InvHolds == Spec => []Inv
  <1>1. Inv /\ [Next]_vars => Inv' BY NextInv DEF Preserved
  <1> QED BY <1>1, InitInv, PTL DEF Spec

(* The row, the cache entry and the calls in flight always have the shapes *)
(* the repository and the services give them: in particular every final    *)
(* update stores a text its column can hold.                               *)
THEOREM TypeCorrect == Spec => []TypeOK
  <1>1. Inv => TypeOK
    BY DEF Inv, DataInv, FlowInv, FlowOK, TypeOK, At
  <1> QED BY <1>1, InvHolds, PTL

(* The conditional update of markAutoReleaseSubmitting is a lock for any   *)
(* number of workers, whatever else runs, fails or dies.                   *)
THEOREM ClaimIsExclusive == Spec => []AutoReleaseClaimExclusive
  <1>1. Inv => AutoReleaseClaimExclusive BY DEF Inv, ClaimInv
  <1> QED BY <1>1, InvHolds, PTL

(* Every state has the dispute, tracking id, delivery time or hash that    *)
(* its readers rely on, in every interleaving of the handlers.             *)
THEOREM RowIsConsistent == Spec => []RowConsistent
  <1>1. Inv => RowConsistent BY DEF Inv
  <1> QED BY <1>1, InvHolds, PTL

(* After recordAutoReleaseSubmission no worker submits again, not even one *)
(* that selected the escrow before, and no event or stale cache entry      *)
(* reopens the claim.                                                      *)
THEOREM SubmissionIsFinal == Spec => NoResubmission
  <1>1. Inv /\ [Next]_vars =>
          [row.txHash = "submitted" =>
              row'.submittedAt /\ \A t \in Threads : ~Submitting(t)']_vars
    <2> SUFFICES ASSUME Inv, [Next]_vars, row.txHash = "submitted"
                 PROVE  row'.submittedAt /\ \A t \in Threads : ~Submitting(t)'
      OBVIOUS
    <2>1. Locked BY DEF Inv, ClaimInv, Recorded
    <2> QED BY <2>1, NextInv DEF Preserved, Locked
  <1> QED BY <1>1, InvHolds, PTL DEF Spec, NoResubmission
=============================================================================
