---------------------------- MODULE PaymentIntake ----------------------------
(***************************************************************************)
(* How a payment made on Horizon funds escrows: StellarWebhookService with *)
(* its table of processed operations, EventReplayService and the daily     *)
(* cleanup.  Operations are numbered in the order of their paging tokens,  *)
(* the escrows of one vendor in the order of their creation.               *)
(*                                                                         *)
(* A caller is one processing loop: a webhook request, which handles one   *)
(* operation, or the replay of a starting process, which handles a page of *)
(* them.  Every await ends a step.                                         *)
(***************************************************************************)
EXTENDS Integers, FiniteSets

CONSTANTS Requests,     \* webhook requests in flight at once
          Replays,      \* processes replaying at startup
          MaxOp,        \* bound: operations on chain
          MaxEscrow,    \* bound: escrows of the vendor
          Matching,     \* operation -> escrows of the same amount and asset
          Take,         \* findByVendor's page (20)
          ReplayLimit,  \* the replay's page (200)
          Faulty        \* calls throw, processes die

Callers    == Requests \cup Replays
Operations == 1..MaxOp
Escrows    == 1..MaxEscrow

ASSUME IntakeAssumption ==
    /\ Requests \cap Replays = {}
    /\ MaxOp \in Nat /\ MaxEscrow \in Nat
    /\ Take \in Nat /\ ReplayLimit \in Nat \ {0}
    /\ Matching \in [Operations -> SUBSET Escrows]
    /\ Faulty \in BOOLEAN

VARIABLES emitted,    \* operations on chain so far
          created,    \* escrows created so far
          state,      \* their states, as far as payments tell them apart
          processed,  \* ProcessedWebhookEvent
          call,       \* what each caller does with its operation
          replay,     \* the page each replay is working through
          cursor,     \* the cursor under EVENT_REPLAY_KEY, 0 when unset
          owed, taken, failed, funded
          \* history: escrows an operation was to fund when it was made,
          \* operations ever marked, operations some call failed on,
          \* updates <<operation, escrow>> made

vars == <<emitted, created, state, processed, call, replay, cursor, owed,
          taken, failed, funded>>

world   == <<emitted, created, owed>>
history == <<taken, failed, funded>>

States == {"CREATED", "FUNDED", "later"}
PCs == {"idle", "check", "mark", "find", "fund", "unmark"}

Do(pc, op, pending) == [pc |-> pc, op |-> op, pending |-> pending]
Idle == Do("idle", 0, {})

Run(pc, page, last) == [pc |-> pc, page |-> page, last |-> last]
NoReplay == Run("idle", {}, 0)

Init ==
    /\ emitted = 0 /\ created = 0
    /\ state = [e \in Escrows |-> "CREATED"]
    /\ processed = {}
    /\ call = [c \in Callers |-> Idle]
    /\ replay = [r \in Replays |-> NoReplay]
    /\ cursor = 0
    /\ owed = [o \in Operations |-> {}]
    /\ taken = {} /\ failed = {} /\ funded = {}

-----------------------------------------------------------------------------
(* The world: an operation closes, an escrow is created, an escrow moves   *)
(* on under the other handlers.                                            *)
MakeOperation ==
    /\ emitted < MaxOp
    /\ emitted' = emitted + 1
    /\ owed' = [owed EXCEPT ![emitted + 1] =
                    {e \in Matching[emitted + 1] : e <= created}]
    /\ UNCHANGED <<created, state, processed, call, replay, cursor, history>>

CreateEscrow ==
    /\ created < MaxEscrow
    /\ created' = created + 1
    /\ UNCHANGED <<emitted, state, processed, call, replay, cursor, owed, history>>

MoveOn(e) ==
    /\ e <= created
    /\ state' = [state EXCEPT ![e] = "later"]
    /\ UNCHANGED <<world, processed, call, replay, cursor, history>>

-----------------------------------------------------------------------------
At(c, pc) == call[c].pc = pc
Op(c) == call[c].op
Goto(c, pc) == call' = [call EXCEPT ![c] = Do(pc, Op(c), {})]
Return(c) == call' = [call EXCEPT ![c] = Idle]

(* handleEvent: a signed delivery of an operation, the first or a retry.   *)
HandleEvent(c, o) ==
    /\ c \in Requests
    /\ At(c, "idle")
    /\ o <= emitted
    /\ call' = [call EXCEPT ![c] = Do("check", o, {})]
    /\ UNCHANGED <<world, state, processed, replay, cursor, history>>

IsProcessed(c) ==
    /\ At(c, "check")
    /\ IF Op(c) \in processed THEN Return(c) ELSE Goto(c, "mark")
    /\ UNCHANGED <<world, state, processed, replay, cursor, history>>

\* Mutant: an upsert instead of an insert.
MarkAgain(c) ==
    /\ At(c, "mark")
    /\ Goto(c, "find")
    /\ processed' = processed \cup {Op(c)}
    /\ taken' = taken \cup {Op(c)}
    /\ UNCHANGED <<world, state, replay, cursor, failed, funded>>

(* The insert fails on the unique operationId of a concurrent caller, and  *)
(* that error is not rolled back.                                          *)
MarkProcessed(c) ==
    /\ At(c, "mark")
    /\ IF Op(c) \in processed THEN Return(c) ELSE Goto(c, "find")
    /\ processed' = processed \cup {Op(c)}
    /\ taken' = taken \cup {Op(c)}
    /\ UNCHANGED <<world, state, replay, cursor, failed, funded>>

\* Mutant: the listing's state filter is missing (issue #396).
PendingInAnyState(o) ==
    {e \in Matching[o] : /\ e <= created
                         /\ e > created - Take}

(* The CREATED escrows of findByVendor's one page, newest first, whose     *)
(* amount and asset are the payment's.                                     *)
Pending(o) ==
    {e \in Matching[o] : /\ e <= created
                         /\ e > created - Take
                         /\ state[e] = "CREATED"}

FindByVendor(c) ==
    /\ At(c, "find")
    /\ IF Pending(Op(c)) = {} THEN Return(c)
       ELSE call' = [call EXCEPT ![c] = Do("fund", Op(c), Pending(Op(c)))]
    /\ UNCHANGED <<world, state, processed, replay, cursor, history>>

\* Mutant: the loop stops at the first match.
FundFirst(c, e) ==
    /\ At(c, "fund")
    /\ e \in call[c].pending
    /\ state' = [state EXCEPT ![e] = "FUNDED"]
    /\ funded' = funded \cup {<<Op(c), e>>}
    /\ Return(c)
    /\ UNCHANGED <<world, processed, replay, cursor, taken, failed>>

(* One iteration of handlePayment's loop; the update is unconditional.     *)
UpdateState(c, e) ==
    /\ At(c, "fund")
    /\ e \in call[c].pending
    /\ state' = [state EXCEPT ![e] = "FUNDED"]
    /\ funded' = funded \cup {<<Op(c), e>>}
    /\ call' = [call EXCEPT ![c] =
                    IF call[c].pending = {e} THEN Idle
                    ELSE Do("fund", Op(c), call[c].pending \ {e})]
    /\ UNCHANGED <<world, processed, replay, cursor, taken, failed>>

(* processEvent throws: a database call fails, or the payment has no       *)
(* destination and is refused every time.                                  *)
ProcessEventThrows(c) ==
    /\ Faulty
    /\ call[c].pc \in {"find", "fund"}
    /\ Goto(c, "unmark")
    /\ failed' = failed \cup {Op(c)}
    /\ UNCHANGED <<world, state, processed, replay, cursor, taken, funded>>

(* The rollback of the mark; it may fail too.                              *)
UnmarkProcessed(c) ==
    /\ At(c, "unmark")
    /\ \/ processed' = processed \ {Op(c)}
       \/ Faulty /\ processed' = processed
    /\ Return(c)
    /\ UNCHANGED <<world, state, replay, cursor, history>>

(* isProcessed or markProcessed throws: nothing is rolled back.            *)
MarkingThrows(c) ==
    /\ Faulty
    /\ call[c].pc \in {"check", "mark"}
    /\ Return(c)
    /\ failed' = failed \cup {Op(c)}
    /\ UNCHANGED <<world, state, processed, replay, cursor, taken, funded>>

-----------------------------------------------------------------------------
(* EventReplayService: at startup, the page after the cursor; an error     *)
(* reading the cursor looks like no cursor.                                *)
Replaying(r, pc) == r \in Replays /\ replay[r].pc = pc
GotoReplay(r, run) == replay' = [replay EXCEPT ![r] = run]

GetCursor(r) ==
    /\ Replaying(r, "idle")
    /\ \E from \in {cursor} \cup (IF Faulty THEN {0} ELSE {}) :
           GotoReplay(r, Run("fetch", {}, from))
    /\ UNCHANGED <<world, state, processed, call, cursor, history>>

(* Horizon answers with the oldest operations after the cursor, or fails.  *)
PageAfter(from) == {o \in 1..emitted : o > from /\ o <= from + ReplayLimit}

FetchOperations(r) ==
    /\ Replaying(r, "fetch")
    /\ LET page == PageAfter(replay[r].last)
       IN  GotoReplay(r, IF page = {} THEN NoReplay ELSE Run("loop", page, 0))
    /\ UNCHANGED <<world, state, processed, call, cursor, history>>

FetchFails(r) ==
    /\ Faulty
    /\ Replaying(r, "fetch")
    /\ GotoReplay(r, NoReplay)
    /\ UNCHANGED <<world, state, processed, call, cursor, history>>

(* The next record goes through processOperationDto; its errors are logged *)
(* and the loop continues.                                                 *)
ProcessOperationDto(r, o) ==
    /\ Replaying(r, "loop")
    /\ At(r, "idle")
    /\ o \in replay[r].page
    /\ \A p \in replay[r].page : o <= p
    /\ GotoReplay(r, Run("loop", replay[r].page \ {o}, o))
    /\ call' = [call EXCEPT ![r] = Do("check", o, {})]
    /\ UNCHANGED <<world, state, processed, cursor, history>>

\* Mutant: the cursor is stored before the last record is processed.
StoreReplayCursorEarly(r) ==
    /\ Replaying(r, "loop")
    /\ replay[r].page = {}
    /\ cursor' = replay[r].last
    /\ GotoReplay(r, NoReplay)
    /\ UNCHANGED <<world, state, processed, call, history>>

(* After the last record the cursor is set; CursorService swallows errors. *)
StoreReplayCursor(r) ==
    /\ Replaying(r, "loop")
    /\ At(r, "idle")
    /\ replay[r].page = {}
    /\ \/ cursor' = replay[r].last
       \/ Faulty /\ cursor' = cursor
    /\ GotoReplay(r, NoReplay)
    /\ UNCHANGED <<world, state, processed, call, history>>

-----------------------------------------------------------------------------
Processing(c) == call[c].pc \in {"find", "fund", "unmark"}

(* pruneProcessedWebhookEvents deletes marks past the retention period,    *)
(* which is days longer than any call.                                     *)
PruneProcessedWebhookEvents(o) ==
    /\ o \in processed
    /\ \A c \in Callers : Processing(c) => Op(c) # o
    /\ processed' = processed \ {o}
    /\ UNCHANGED <<world, state, call, replay, cursor, history>>

(* The caller's process dies; a replay starts over when it is back.        *)
Crash(c) ==
    /\ Faulty
    /\ c \in Replays \/ ~At(c, "idle")
    /\ Return(c)
    /\ replay' = IF c \in Replays THEN [replay EXCEPT ![c] = NoReplay] ELSE replay
    /\ failed' = IF Processing(c) THEN failed \cup {Op(c)} ELSE failed
    /\ UNCHANGED <<world, state, processed, cursor, taken, funded>>

Next ==
    \/ MakeOperation \/ CreateEscrow
    \/ \E e \in Escrows : MoveOn(e)
    \/ \E c \in Callers :
           \/ IsProcessed(c) \/ MarkProcessed(c) \/ FindByVendor(c)
           \/ ProcessEventThrows(c) \/ UnmarkProcessed(c) \/ MarkingThrows(c)
           \/ \E e \in Escrows : UpdateState(c, e)
           \/ \E o \in Operations : HandleEvent(c, o)
           \/ Crash(c)
    \/ \E r \in Replays :
           \/ GetCursor(r) \/ FetchOperations(r) \/ FetchFails(r)
           \/ \E o \in Operations : ProcessOperationDto(r, o)
           \/ StoreReplayCursor(r)
    \/ \E o \in Operations : PruneProcessedWebhookEvents(o)

Spec == Init /\ [][Next]_vars
-----------------------------------------------------------------------------
(* The variables have their types, and nothing refers to an operation that *)
(* is not on chain.                                                        *)
TypeOK ==
    /\ emitted \in 0..MaxOp /\ created \in 0..MaxEscrow
    /\ state \in [Escrows -> States]
    /\ processed \subseteq taken
    /\ call \in [Callers -> [pc : PCs, op : 0..emitted, pending : SUBSET Escrows]]
    /\ replay \in [Replays -> [pc : {"idle", "fetch", "loop"},
                               page : SUBSET Operations, last : 0..emitted]]
    /\ cursor \in 0..emitted
    /\ owed \in [Operations -> SUBSET Escrows]
    /\ taken \subseteq 1..emitted /\ failed \subseteq 1..emitted
    /\ funded \subseteq (1..emitted) \X Escrows

(* "Persist before processing so concurrent Horizon retries are blocked":  *)
(* deliveries, retries and replays of one operation never process it at    *)
(* the same time, whatever fails.                                          *)
ProcessedByOne ==
    \A c, d \in Callers :
        Processing(c) => /\ Op(c) \in processed
                         /\ Processing(d) /\ Op(d) = Op(c) => c = d

(* A payment is applied to an escrow at most once, although a failed       *)
(* operation is rolled back and handled again from its beginning, also     *)
(* after its mark was pruned: an escrow about to be updated was not        *)
(* updated for this operation before.                                      *)
AppliedOnce ==
    \A c \in Callers :
        At(c, "fund") => \A e \in call[c].pending : <<Op(c), e>> \notin funded

(* A payment that was taken up and did not fail leaves none of the escrows *)
(* that were waiting for it in CREATED, as far as they are among the Take  *)
(* newest of their vendor: handlePayment looks at one page of findByVendor *)
(* and marks the operation whatever it finds there.  For an older escrow   *)
(* nothing is promised, and with more than Take escrows it may stay.       *)
PaymentApplied ==
    \A o \in taken \ failed :
        (\A c \in Callers : Processing(c) => Op(c) # o) =>
            \A e \in owed[o] : e > created - Take => state[e] # "CREATED"

(* The replay cursor passes an operation only after it was taken up or     *)
(* failed: a process that dies in the middle of a page starts it again.    *)
ReplaySkipsNothing == \A o \in 1..cursor : o \in taken \cup failed
=============================================================================
