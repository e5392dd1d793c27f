---------------------------- MODULE SorobanPoller ----------------------------
(***************************************************************************)
(* SorobanPollerService and CursorService: replicas that poll the contract *)
(* events behind one persisted cursor.  The event of a ledger is           *)
(* identified with the ledger, so a paging token after it and a start      *)
(* ledger are the same kind of position: the next ledger to read.          *)
(***************************************************************************)
EXTENDS Integers, FiniteSets

CONSTANTS Pollers,          \* replicas, each with its own interval
          MaxLedger,        \* bound: the chain stops growing here
          Margin,           \* START_LEDGER_MARGIN
          Drift,            \* bound: ledgers closed while an RPC call is out
          PageLimit,        \* bound: events of one getEvents page (100)
          MaxRetries,       \* MAX_SYNC_RETRIES
          ConfiguredStart,  \* SOROBAN_START_LEDGER, 0 when unset
          Faulty,           \* RPC and database calls fail, processes die
          ReadErrors        \* reading the cursor may fail

Ledgers == 1..MaxLedger
None == 0                   \* no cursor stored

ASSUME PollerAssumption ==
    /\ MaxLedger \in Nat
    /\ Margin \in Nat
    /\ Drift \in 0..(Margin + 1)
    /\ PageLimit \in Nat \ {0}
    /\ MaxRetries \in Nat \ {0}
    /\ ConfiguredStart \in Nat
    /\ Faulty \in BOOLEAN
    /\ ReadErrors \in BOOLEAN

VARIABLES ledger,       \* latest closed ledger
          good, bad,    \* ledgers with an event that parses and maps, or not
          stable,       \* RPC server, database and processes fail no more
          cursor,       \* the persisted position
          since,        \* first ledger after a cursor was first stored, or 0
          poller,       \* the poll cycle of each replica
          retries,      \* syncRetryCounts of each replica
          applied, deadLettered, dropped    \* what became of the events

vars == <<ledger, good, bad, stable, cursor, since, poller, retries, applied,
          deadLettered, dropped>>

chain   == <<ledger, good, bad, stable>>
outcome == <<applied, deadLettered, dropped>>

Events  == good \cup bad
Handled == applied \cup deadLettered \cup dropped

PCs == {"idle", "first", "fetch", "batch", "store", "quiet"}

\* from: the cursor of this cycle; asOf: the ledger the last answer was
\* computed at; page: events still to process; last: the last one done.
Polls == [pc : PCs, from : Nat, asOf : Nat, page : SUBSET Ledgers, last : Nat]

Cycle(pc, from, asOf, page, last) ==
    [pc |-> pc, from |-> from, asOf |-> asOf, page |-> page, last |-> last]

Idle == Cycle("idle", 0, 0, {}, 0)
NoRetries == [e \in Ledgers |-> 0]

Init ==
    /\ ledger \in Ledgers
    /\ good \in SUBSET (1..ledger) /\ bad \in SUBSET (1..ledger \ good)
    /\ stable = ~Faulty
    /\ cursor = None
    /\ since = 0
    /\ poller = [p \in Pollers |-> Idle]
    /\ retries = [p \in Pollers |-> NoRetries]
    /\ applied = {} /\ deadLettered = {} /\ dropped = {}

(* The chain closes a ledger, with or without a contract event.            *)
CloseLedger ==
    /\ ledger < MaxLedger
    /\ ledger' = ledger + 1
    /\ \/ UNCHANGED <<good, bad>>
       \/ good' = good \cup {ledger + 1} /\ bad' = bad
       \/ bad' = bad \cup {ledger + 1} /\ good' = good
    /\ UNCHANGED <<stable, cursor, since, poller, retries, outcome>>

(* Whatever failed has recovered for good.                                 *)
Stabilise ==
    /\ ~stable
    /\ stable' = TRUE
    /\ UNCHANGED <<ledger, good, bad, cursor, since, poller, retries, outcome>>

-----------------------------------------------------------------------------
At(p, pc) == poller[p].pc = pc
Goto(p, poll) == poller' = [poller EXCEPT ![p] = poll]

(* CursorService.set swallows a failing upsert.                            *)
SetCursor(c) ==
    \/ /\ cursor' = c
       /\ since' = IF since = 0 THEN ledger + 1 ELSE since
    \/ ~stable /\ UNCHANGED <<cursor, since>>

\* Mutant: one ledger further.
OneLedgerFurther(latest) == IF latest - Margin > 0 THEN latest - Margin + 1 ELSE 1

(* max(1, latest - START_LEDGER_MARGIN)                                    *)
BehindHead(latest) == IF latest - Margin > 1 THEN latest - Margin ELSE 1

(* What getLatestLedger may answer in this cycle: at most Drift ledgers    *)
(* later than the last answer, and older by the time it is used.           *)
LatestLedgers(p) == {l \in poller[p].asOf..ledger : l <= poller[p].asOf + Drift}

(* A tick reads the cursor; CursorService.get turns an error into          *)
(* undefined.                                                              *)
ReadCursor(p) ==
    /\ At(p, "idle")
    /\ \/ cursor # None /\ Goto(p, Cycle("fetch", cursor, 0, {}, 0))
       \/ /\ cursor = None \/ ReadErrors
          /\ Goto(p, Cycle("first", 0, ledger, {}, 0))
    /\ UNCHANGED <<chain, cursor, since, retries, outcome>>

(* No cursor: start at the configured ledger or just behind the head, and  *)
(* store the choice before the first fetch.                                *)
ResolveStartLedger(p) ==
    /\ At(p, "first")
    /\ \E latest \in LatestLedgers(p) :
           LET start == IF ConfiguredStart # 0 THEN ConfiguredStart
                        ELSE BehindHead(latest)
           IN  /\ SetCursor(start)
               /\ Goto(p, Cycle("fetch", start, 0, {}, 0))
    /\ UNCHANGED <<chain, retries, outcome>>

(* getEvents answers with the oldest events from the cursor on, at most a  *)
(* page of them.                                                           *)
Pages(from) ==
    LET available == {e \in Events : e >= from}
    IN  {page \in SUBSET available :
            /\ Cardinality(page) <= PageLimit
            /\ \A e \in page, f \in available : f < e => f \in page
            /\ page = {} => available = {}}

FetchEvents(p) ==
    /\ At(p, "fetch")
    /\ \E page \in Pages(poller[p].from) :
           Goto(p, Cycle(IF page = {} THEN "quiet" ELSE "batch",
                         poller[p].from, ledger, page, 0))
    /\ UNCHANGED <<chain, cursor, since, retries, outcome>>

(* An empty page: move the cursor up behind the head (issue #1042).        *)
AdvanceQuietCursor(p) ==
    /\ At(p, "quiet")
    /\ \E latest \in LatestLedgers(p) : SetCursor(BehindHead(latest))
    /\ Goto(p, Idle)
    /\ UNCHANGED <<chain, retries, outcome>>

(* An RPC call fails or exceeds SOROBAN_RPC_TIMEOUT_MS: the cycle ends.    *)
RpcFailure(p) ==
    /\ ~stable
    /\ poller[p].pc \in {"first", "fetch", "quiet"}
    /\ Goto(p, Idle)
    /\ UNCHANGED <<chain, cursor, since, retries, outcome>>

-----------------------------------------------------------------------------
\* Mutant: the events of a page are processed concurrently.
AnyNext(p, e) == At(p, "batch") /\ e \in poller[p].page

(* The batch, oldest event first.                                          *)
IsNext(p, e) ==
    /\ At(p, "batch")
    /\ e \in poller[p].page
    /\ \A f \in poller[p].page : e <= f

After(c, e) ==
    Cycle(IF c.page = {e} THEN "store" ELSE "batch", c.from, c.asOf, c.page \ {e}, e)

Continue(p, e) == Goto(p, After(poller[p], e))

(* The first failure stops the batch; what was done before is stored.      *)
StopBatch(p) ==
    Goto(p, IF poller[p].last = 0 THEN Idle
            ELSE Cycle("store", poller[p].from, poller[p].asOf, {}, poller[p].last))

(* DlqService.enqueue; an event whose row cannot be written is skipped.    *)
DeadLetter(e) ==
    \/ deadLettered' = deadLettered \cup {e} /\ UNCHANGED <<applied, dropped>>
    \/ ~stable /\ dropped' = dropped \cup {e} /\ UNCHANGED <<applied, deadLettered>>

ApplyEvent(p, e) ==
    /\ IsNext(p, e) /\ e \in good
    /\ applied' = applied \cup {e}
    /\ retries' = [retries EXCEPT ![p][e] = 0]
    /\ Continue(p, e)
    /\ UNCHANGED <<chain, cursor, since, deadLettered, dropped>>

RejectEvent(p, e) ==
    /\ IsNext(p, e) /\ e \in bad
    /\ DeadLetter(e)
    /\ Continue(p, e)
    /\ UNCHANGED <<chain, cursor, since, retries>>

\* Mutants: one attempt too many; no limit.
OneMoreAttempt(p, e) ==
    /\ IsNext(p, e) /\ e \in good
    /\ LET attempts == retries[p][e] + 1
       IN  IF attempts > MaxRetries
           THEN /\ retries' = [retries EXCEPT ![p][e] = 0]
                /\ DeadLetter(e)
                /\ Continue(p, e)
           ELSE /\ retries' = [retries EXCEPT ![p][e] = attempts]
                /\ StopBatch(p)
                /\ UNCHANGED outcome
    /\ UNCHANGED <<chain, cursor, since>>

RetryForever(p, e) ==
    /\ IsNext(p, e) /\ e \in good
    /\ StopBatch(p)
    /\ UNCHANGED <<chain, cursor, since, retries, outcome>>

(* syncStateFromChain throws: retry next cycle, dead-letter the last time. *)
SyncFailure(p, e) ==
    /\ IsNext(p, e) /\ e \in good
    /\ LET attempts == retries[p][e] + 1
       IN  IF attempts >= MaxRetries
           THEN /\ retries' = [retries EXCEPT ![p][e] = 0]
                /\ DeadLetter(e)
                /\ Continue(p, e)
           ELSE /\ retries' = [retries EXCEPT ![p][e] = attempts]
                /\ StopBatch(p)
                /\ UNCHANGED outcome
    /\ UNCHANGED <<chain, cursor, since>>

(* findIdByContractEscrowId throws: not counted.                           *)
LookupFailure(p) ==
    /\ ~stable
    /\ At(p, "batch")
    /\ StopBatch(p)
    /\ UNCHANGED <<chain, cursor, since, retries, outcome>>

StoreCursor(p) ==
    /\ At(p, "store")
    /\ SetCursor(poller[p].last + 1)
    /\ Goto(p, Idle)
    /\ UNCHANGED <<chain, retries, outcome>>

(* The process restarts; the retry counts were in memory.                  *)
Restart(p) ==
    /\ ~stable
    /\ Goto(p, Idle)
    /\ retries' = [retries EXCEPT ![p] = NoRetries]
    /\ UNCHANGED <<chain, cursor, since, outcome>>

Poll(p) ==
    \/ ReadCursor(p) \/ ResolveStartLedger(p) \/ FetchEvents(p)
    \/ AdvanceQuietCursor(p) \/ RpcFailure(p) \/ StoreCursor(p)
    \/ \E e \in Ledgers : ApplyEvent(p, e) \/ RejectEvent(p, e) \/ SyncFailure(p, e)

Next ==
    \/ CloseLedger \/ Stabilise
    \/ \E p \in Pollers : Poll(p) \/ LookupFailure(p) \/ Restart(p)

Spec == Init /\ [][Next]_vars

(* setInterval keeps ticking and every awaited call settles.               *)
FairSpec == Spec /\ \A p \in Pollers : WF_vars(Poll(p))
-----------------------------------------------------------------------------
(* Sets and positions have their types; retry counts stay below the limit  *)
(* at which processEvent dead-letters.                                     *)
TypeOK ==
    /\ ledger \in Ledgers /\ cursor \in Nat /\ since \in Nat
    /\ good \subseteq 1..ledger /\ bad \subseteq 1..ledger
    /\ poller \in [Pollers -> Polls]
    /\ retries \in [Pollers -> [Ledgers -> 0..(MaxRetries - 1)]]
    /\ Handled \subseteq Events

(* The events the poller answers for: from the configured ledger on, or    *)
(* emitted after a starting point was stored.                              *)
Due(e) == IF ConfiguredStart # 0 THEN e >= ConfiguredStart
          ELSE since # 0 /\ e >= since

(* The cursor only moves past events that were applied or dead-lettered,   *)
(* or whose dead letter could not be written (comments of poll and         *)
(* deadLetter), for any number of replicas, crashes and failing writes.    *)
NoEventSkipped ==
    \A e \in Events : Due(e) /\ e < cursor => e \in Handled

(* Stopping at the first failure keeps the order: an event is dealt with   *)
(* for the first time only after every earlier one.                        *)
HandledInOrder ==
    [][\A e \in Handled' \ Handled, f \in Events :
           Due(e) /\ Due(f) /\ f < e => f \in Handled]_vars

(* No event wedges the poller: once the RPC server, the database and the   *)
(* processes are stable it catches up with the ledgers there are, however  *)
(* often syncStateFromChain throws.                                        *)
EventsHandled == stable ~> \A e \in Events : Due(e) => e \in Handled
=============================================================================
