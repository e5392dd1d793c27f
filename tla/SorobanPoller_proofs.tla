------------------------ MODULE SorobanPoller_proofs ------------------------
(***************************************************************************)
(* The cursor of SorobanPoller never skips an event, and events are dealt  *)
(* with in order: for any number of replicas, any page size and retry      *)
(* limit, any margin that covers the drift of one RPC call, with crashes,  *)
(* failing cursor writes and failing dead letters, as long as the cursor   *)
(* can be read.                                                            *)
(*                                                                         *)
(* The invariant follows a poll cycle: below the position a cycle started  *)
(* from everything due is handled (Reached); within its batch, whatever is *)
(* older than an event of the page is in the page or handled; an empty     *)
(* page means that everything up to the answer's ledger is handled; and a  *)
(* replica that found no cursor did so before the first one was stored.    *)
(***************************************************************************)
EXTENDS SorobanPoller, TLAPS

DueAt(e, s) == IF ConfiguredStart # 0 THEN e >= ConfiguredStart
               ELSE s # 0 /\ e >= s

\* E: events, H: handled events, s: since, L: ledger
Reached(x, E, H, s) == \A e \in E : DueAt(e, s) /\ e < x => e \in H

InRange(x, L) == x <= L + 1 \/ x = ConfiguredStart

PollOK(c, E, H, s, L) ==
    /\ c \in Polls
    /\ c.pc \in {"fetch", "batch", "store"} =>
           Reached(c.from, E, H, s) /\ InRange(c.from, L)
    /\ c.pc \in {"first", "quiet"} => c.asOf <= L
    /\ c.pc = "first" => s = 0 \/ c.asOf < s
    /\ c.pc = "quiet" => Reached(c.asOf + 1, E, H, s)
    /\ c.pc \in {"batch", "store"} =>
           c.last <= L /\ Reached(c.last + 1, E, H, s)
    /\ c.pc = "batch" =>
           /\ c.page \subseteq E
           /\ \A e \in E, f \in c.page :
                  c.from <= e /\ e < f => e \in c.page \/ (DueAt(e, s) => e \in H)

DataInv ==
    /\ ledger \in Ledgers /\ cursor \in Nat /\ since \in Nat
    /\ good \subseteq 1..ledger /\ bad \subseteq 1..ledger
    /\ Handled \subseteq Events
    /\ cursor = None <=> since = 0
    /\ InRange(cursor, ledger)

RetryInv == retries \in [Pollers -> [Ledgers -> 0..(MaxRetries - 1)]]

CursorInv == Reached(cursor, Events, Handled, since)

PollInv ==
    /\ poller \in [Pollers -> Polls]
    /\ \A p \in Pollers : PollOK(poller[p], Events, Handled, since, ledger)

Inv == DataInv /\ RetryInv /\ CursorInv /\ PollInv

-----------------------------------------------------------------------------
(* Handling more events never takes back what a position promises.         *)
LEMMA MoreHandled ==
    ASSUME NEW E, NEW H, NEW G, NEW s, NEW L, NEW c, H \subseteq G,
           PollOK(c, E, H, s, L)
    PROVE  PollOK(c, E, G, s, L)
  BY DEF PollOK, Reached

(* Storing the first cursor makes nothing due: no event is newer than the  *)
(* ledger it was stored at.                                                *)
LEMMA FirstStored ==
    ASSUME NEW L \in Nat, NEW E \in SUBSET (1..L), NEW H, NEW c,
           PollOK(c, E, H, 0, L)
    PROVE  PollOK(c, E, H, L + 1, L)
  <1>1. ASSUME NEW x, Reached(x, E, H, 0) PROVE Reached(x, E, H, L + 1)
    BY <1>1 DEF Reached, DueAt
  <1>2. c.pc = "first" => c.asOf < L + 1
    BY DEF PollOK, Polls
  <1> QED BY <1>1, <1>2 DEF PollOK, DueAt

(* A new ledger is beyond every position a cycle holds.                    *)
LEMMA LedgerClosed ==
    ASSUME NEW L \in Nat, NEW E \in SUBSET (1..L), NEW F \in SUBSET {L + 1},
           NEW H, NEW s \in Nat, NEW c, PollOK(c, E, H, s, L)
    PROVE  PollOK(c, E \cup F, H, s, L + 1)
  <1>1. ASSUME NEW x \in Nat, Reached(x, E, H, s), InRange(x, L)
        PROVE  Reached(x, E \cup F, H, s) /\ InRange(x, L + 1)
    BY <1>1, PollerAssumption DEF Reached, DueAt, InRange
  <1>2. c \in Polls BY DEF PollOK
  <1>3. c.from \in Nat /\ c.asOf \in Nat /\ c.last \in Nat BY <1>2 DEF Polls
  <1>4. c.pc \in {"fetch", "batch", "store"} =>
            Reached(c.from, E \cup F, H, s) /\ InRange(c.from, L + 1)
    BY <1>1, <1>3 DEF PollOK
  <1>5. c.pc = "quiet" => Reached(c.asOf + 1, E \cup F, H, s)
    BY <1>1, <1>3 DEF PollOK, InRange
  <1>6. c.pc \in {"batch", "store"} => Reached(c.last + 1, E \cup F, H, s)
    BY <1>1, <1>3 DEF PollOK, InRange
  <1>7. c.pc = "batch" =>
            /\ c.page \subseteq E \cup F
            /\ \A e \in E \cup F, f \in c.page :
                   c.from <= e /\ e < f => e \in c.page \/ (DueAt(e, s) => e \in H)
    <2> SUFFICES ASSUME c.pc = "batch", NEW e \in E \cup F, NEW f \in c.page,
                        c.from <= e, e < f
                 PROVE  e \in c.page \/ (DueAt(e, s) => e \in H)
      BY DEF PollOK
    <2>1. f \in 1..L BY DEF PollOK
    <2>2. e # L + 1 BY <2>1
    <2>3. e \in E BY <2>2
    <2> QED BY <2>3 DEF PollOK
  <1> QED BY <1>2, <1>3, <1>4, <1>5, <1>6, <1>7 DEF PollOK

(* One replica moves, the others keep their cycles.                        *)
LEMMA PollMove ==
    ASSUME PollInv, NEW p \in Pollers, NEW c,
           poller' = [poller EXCEPT ![p] = c],
           PollOK(c, Events', Handled', since', ledger'),
           \A q \in Pollers : PollOK(poller[q], Events', Handled', since', ledger')
    PROVE  PollInv'
  BY DEF PollInv, PollOK

(* A replica between two cycles promises nothing.                          *)
LEMMA IdleOK ==
    ASSUME NEW E, NEW H, NEW s, NEW L
    PROVE  PollOK(Idle, E, H, s, L)
  BY DEF PollOK, Idle, Cycle, Polls, PCs

-----------------------------------------------------------------------------
(* The chain grows.                                                        *)
LEMMA CloseLedgerInv ==
    ASSUME Inv, CloseLedger
    PROVE  Inv'
  <1>1. /\ ledger \in Nat /\ ledger' = ledger + 1 /\ ledger' \in Ledgers
        /\ Events \in SUBSET (1..ledger) /\ since \in Nat
        /\ cursor' = cursor /\ since' = since /\ poller' = poller
        /\ Handled' = Handled /\ retries' = retries
    BY PollerAssumption
       DEF CloseLedger, Inv, DataInv, Ledgers, Events, Handled, outcome
  <1>2. PICK F \in SUBSET {ledger + 1} : Events' = Events \cup F
    <2>1. \/ Events' = Events \cup {}
          \/ Events' = Events \cup {ledger + 1}
      BY DEF CloseLedger, Events
    <2> QED BY <2>1
  <1>3. PollInv'
    BY <1>1, <1>2, LedgerClosed DEF Inv, PollInv
  <1>4. CursorInv' /\ InRange(cursor, ledger + 1)
    BY <1>1, <1>2, PollerAssumption
       DEF Inv, DataInv, CursorInv, Reached, DueAt, InRange
  <1>5. DataInv'
    <2>1. good' \subseteq 1..ledger' /\ bad' \subseteq 1..ledger'
      <3>1. good \subseteq 1..ledger /\ bad \subseteq 1..ledger BY DEF Inv, DataInv
      <3>2. 1..ledger \subseteq 1..(ledger + 1) /\ ledger + 1 \in 1..(ledger + 1)
        BY <1>1
      <3>3. /\ good' \subseteq good \cup {ledger + 1}
            /\ bad' \subseteq bad \cup {ledger + 1}
        BY DEF CloseLedger
      <3> QED BY <1>1, <3>1, <3>2, <3>3
    <2> QED BY <1>1, <1>2, <1>4, <2>1 DEF Inv, DataInv
  <1> QED BY <1>1, <1>3, <1>4, <1>5 DEF Inv, RetryInv

(* A cycle moves; neither the chain, the cursor nor the outcomes change.   *)
LEMMA CycleInv ==
    ASSUME Inv, NEW p \in Pollers, NEW c, Goto(p, c),
           UNCHANGED <<chain, cursor, since, outcome>>, RetryInv',
           PollOK(c, Events, Handled, since, ledger)
    PROVE  Inv'
  <1>1. /\ Events' = Events /\ Handled' = Handled
        /\ ledger' = ledger /\ since' = since /\ cursor' = cursor
        /\ good' = good /\ bad' = bad
    BY DEF chain, outcome, Events, Handled
  <1>2. PollInv' BY <1>1, PollMove DEF Inv, PollInv, Goto
  <1> QED BY <1>1, <1>2 DEF Inv, DataInv, CursorInv

(* A cycle stores, or fails to store, a position that is reached.          *)
LEMMA StoreInv ==
    ASSUME Inv, NEW p \in Pollers, NEW c, Goto(p, c),
           UNCHANGED <<chain, retries, outcome>>,
           NEW x \in Nat \ {0}, SetCursor(x), InRange(x, ledger),
           Reached(x, Events, Handled, since),
           PollOK(c, Events, Handled, since, ledger)
    PROVE  Inv'
  <1>1. /\ Events' = Events /\ Handled' = Handled
        /\ ledger' = ledger /\ retries' = retries
        /\ good' = good /\ bad' = bad
    BY DEF chain, outcome, Events, Handled
  <1>2. /\ ledger \in Nat /\ Events \in SUBSET (1..ledger)
        /\ since \in Nat /\ cursor \in Nat
    BY PollerAssumption DEF Inv, DataInv, Events, Ledgers
  <1>3. CASE cursor' = cursor /\ since' = since
    <2>1. PollInv' BY <1>1, <1>3, PollMove DEF Inv, PollInv, Goto
    <2> QED BY <1>1, <1>3, <2>1 DEF Inv, DataInv, CursorInv, RetryInv
  <1>4. CASE cursor' = x /\ since # 0 /\ since' = since
    <2>1. PollInv' BY <1>1, <1>4, PollMove DEF Inv, PollInv, Goto
    <2> QED BY <1>1, <1>4, <2>1 DEF Inv, DataInv, CursorInv, RetryInv, None
  <1>5. CASE cursor' = x /\ since = 0 /\ since' = ledger + 1
    <2>1. PollOK(c, Events, Handled, ledger + 1, ledger)
      BY <1>2, <1>5, FirstStored
    <2>2. \A q \in Pollers : PollOK(poller[q], Events, Handled, ledger + 1, ledger)
      BY <1>2, <1>5, FirstStored DEF Inv, PollInv
    <2>3. PollInv' BY <1>1, <1>5, <2>1, <2>2, PollMove DEF Inv, Goto
    <2>4. Reached(x, Events, Handled, ledger + 1)
      BY <1>2, <1>5 DEF Reached, DueAt
    <2> QED BY <1>1, <1>2, <1>5, <2>3, <2>4
         DEF Inv, DataInv, CursorInv, RetryInv, None
  <1> QED BY <1>3, <1>4, <1>5 DEF SetCursor

(* An event is dealt with.                                                 *)
LEMMA HandleInv ==
    ASSUME Inv, NEW p \in Pollers, NEW e \in Events,
           UNCHANGED <<chain, cursor, since>>, RetryInv',
           Handled' = Handled \cup {e},
           NEW c, Goto(p, c), PollOK(c, Events, Handled \cup {e}, since, ledger)
    PROVE  Inv'
  <1>1. /\ Events' = Events /\ ledger' = ledger /\ since' = since
        /\ cursor' = cursor /\ good' = good /\ bad' = bad
    BY DEF chain, Events
  <1>2. \A q \in Pollers : PollOK(poller[q], Events, Handled', since, ledger)
    BY MoreHandled DEF Inv, PollInv
  <1>3. PollInv' BY <1>1, <1>2, PollMove DEF Inv, Goto
  <1>4. CursorInv' BY <1>1 DEF Inv, CursorInv, Reached
  <1>5. Handled' \subseteq Events' BY <1>1 DEF Inv, DataInv
  <1> QED BY <1>1, <1>3, <1>4, <1>5 DEF Inv, DataInv

-----------------------------------------------------------------------------
(* What is known of any replica.                                           *)
LEMMA Facts ==
    ASSUME Inv, NEW p \in Pollers
    PROVE  /\ PollOK(poller[p], Events, Handled, since, ledger)
           /\ poller[p] \in Polls
           /\ poller[p].from \in Nat /\ poller[p].asOf \in Nat
           /\ poller[p].last \in Nat /\ poller[p].page \in SUBSET Ledgers
           /\ ledger \in Nat /\ since \in Nat /\ cursor \in Nat
           /\ Events \in SUBSET (1..ledger) /\ Events \in SUBSET Ledgers
  <1>1. PollOK(poller[p], Events, Handled, since, ledger) /\ poller[p] \in Polls
    BY DEF Inv, PollInv
  <1>2. /\ poller[p].from \in Nat /\ poller[p].asOf \in Nat
        /\ poller[p].last \in Nat /\ poller[p].page \in SUBSET Ledgers
    BY <1>1 DEF Polls
  <1>3. /\ ledger \in Nat /\ since \in Nat /\ cursor \in Nat
        /\ Events \in SUBSET (1..ledger)
    BY PollerAssumption DEF Inv, DataInv, Events, Ledgers
  <1>4. 1..ledger \subseteq Ledgers
    BY PollerAssumption DEF Inv, DataInv, Ledgers
  <1>5. Events \in SUBSET Ledgers BY <1>3, <1>4
  <1> QED BY <1>1, <1>2, <1>3, <1>5

(* Reading the cursor.                                                     *)
LEMMA ReadCursorInv ==
    ASSUME Inv, ~ReadErrors, NEW p \in Pollers, ReadCursor(p)
    PROVE  Inv'
  <1>1. UNCHANGED <<chain, cursor, since, outcome>> /\ RetryInv'
    BY DEF ReadCursor, Inv, RetryInv
  <1>2. CASE cursor # None /\ Goto(p, Cycle("fetch", cursor, 0, {}, 0))
    <2>1. PollOK(Cycle("fetch", cursor, 0, {}, 0), Events, Handled, since, ledger)
      BY Facts DEF Inv, DataInv, CursorInv, PollOK, Cycle, Polls, PCs
    <2> QED BY <1>1, <1>2, <2>1, CycleInv
  <1>3. CASE cursor = None /\ Goto(p, Cycle("first", 0, ledger, {}, 0))
    <2>1. since = 0 BY <1>3 DEF Inv, DataInv
    <2>2. PollOK(Cycle("first", 0, ledger, {}, 0), Events, Handled, since, ledger)
      BY <2>1, Facts DEF PollOK, Cycle, Polls, PCs
    <2> QED BY <1>1, <1>3, <2>2, CycleInv
  <1> QED BY <1>2, <1>3 DEF ReadCursor

(* A position just behind the head is at most one past the ledger an       *)
(* answer was computed at: the margin covers the drift.                    *)
LEMMA MarginCoversDrift ==
    ASSUME NEW n \in Nat, NEW latest \in Nat, latest <= n + Drift
    PROVE  BehindHead(latest) \in Nat \ {0} /\ BehindHead(latest) <= n + 1
  BY PollerAssumption DEF BehindHead

(* The first cursor is behind everything that will be due.                 *)
LEMMA ResolveStartLedgerInv ==
    ASSUME Inv, NEW p \in Pollers, ResolveStartLedger(p)
    PROVE  Inv'
  <1>0. PICK latest \in LatestLedgers(p) :
            LET start == IF ConfiguredStart # 0 THEN ConfiguredStart
                         ELSE BehindHead(latest)
            IN  SetCursor(start) /\ Goto(p, Cycle("fetch", start, 0, {}, 0))
    BY DEF ResolveStartLedger
  <1> DEFINE x == IF ConfiguredStart # 0 THEN ConfiguredStart ELSE BehindHead(latest)
             c == Cycle("fetch", x, 0, {}, 0)
  <1>1. /\ SetCursor(x) /\ Goto(p, c)
        /\ UNCHANGED <<chain, retries, outcome>>
        /\ poller[p].pc = "first"
        /\ latest \in Nat /\ latest <= poller[p].asOf + Drift
    BY <1>0, Facts DEF ResolveStartLedger, At, LatestLedgers
  <1>2. /\ x \in Nat \ {0}
        /\ InRange(x, ledger)
        /\ Reached(x, Events, Handled, since)
    <2>1. CASE ConfiguredStart # 0
      BY <2>1, Facts, PollerAssumption DEF InRange, Reached, DueAt
    <2>2. CASE ConfiguredStart = 0
      <3>1. x \in Nat \ {0} /\ x <= poller[p].asOf + 1
        BY <1>1, <2>2, Facts, MarginCoversDrift
      <3>2. poller[p].asOf <= ledger /\ (since = 0 \/ poller[p].asOf < since)
        BY <1>1, Facts DEF PollOK
      <3> HIDE DEF x
      <3>3. InRange(x, ledger) BY <3>1, <3>2, Facts DEF InRange
      <3>4. Reached(x, Events, Handled, since)
        BY <2>2, <3>1, <3>2, Facts DEF Reached, DueAt
      <3> QED BY <3>1, <3>3, <3>4
    <2> QED BY <2>1, <2>2
  <1> HIDE DEF x
  <1>3. PollOK(c, Events, Handled, since, ledger)
    BY <1>2, Facts DEF PollOK, Cycle, Polls, PCs
  <1> QED BY <1>1, <1>2, <1>3, StoreInv

(* A page starts where the cycle's cursor is and has no gaps.              *)
LEMMA FetchEventsInv ==
    ASSUME Inv, NEW p \in Pollers, FetchEvents(p)
    PROVE  Inv'
  <1> DEFINE from == poller[p].from
  <1>1. PICK page \in Pages(from) :
            Goto(p, Cycle(IF page = {} THEN "quiet" ELSE "batch", from, ledger, page, 0))
    BY DEF FetchEvents
  <1>2. /\ page \subseteq Events
        /\ \A e \in page, f \in Events : f >= from /\ f < e => f \in page
        /\ page = {} => \A e \in Events : ~(e >= from)
    BY <1>1 DEF Pages
  <1>3. UNCHANGED <<chain, cursor, since, outcome>> /\ RetryInv'
    BY DEF FetchEvents, Inv, RetryInv
  <1>4. /\ Reached(from, Events, Handled, since) /\ InRange(from, ledger)
        /\ from \in Nat
    BY Facts DEF PollOK, FetchEvents, At
  <1> HIDE DEF from
  <1>5. CASE page = {}
    <2>1. Reached(ledger + 1, Events, Handled, since)
      BY <1>2, <1>4, <1>5, Facts DEF Reached
    <2>2. PollOK(Cycle("quiet", from, ledger, page, 0), Events, Handled, since, ledger)
      BY <1>4, <1>5, <2>1, Facts DEF PollOK, Cycle, Polls, PCs
    <2> QED BY <1>1, <1>3, <1>5, <2>2, CycleInv
  <1>6. CASE page # {}
    <2>1. Reached(1, Events, Handled, since) BY Facts DEF Reached
    <2>2. PollOK(Cycle("batch", from, ledger, page, 0), Events, Handled, since, ledger)
      BY SMTT(30), <1>2, <1>4, <2>1, Facts DEF PollOK, Cycle, Polls, PCs
    <2> QED BY <1>1, <1>3, <1>6, <2>2, CycleInv
  <1> QED BY <1>5, <1>6

(* The quiet reset stays behind the ledger the empty page was as of.       *)
LEMMA AdvanceQuietCursorInv ==
    ASSUME Inv, NEW p \in Pollers, AdvanceQuietCursor(p)
    PROVE  Inv'
  <1>0. PICK latest \in LatestLedgers(p) : SetCursor(BehindHead(latest))
    BY DEF AdvanceQuietCursor
  <1>1. /\ poller[p].pc = "quiet" /\ Goto(p, Idle)
        /\ latest \in Nat /\ latest <= poller[p].asOf + Drift
        /\ UNCHANGED <<chain, retries, outcome>>
    BY Facts DEF AdvanceQuietCursor, At, LatestLedgers
  <1>2. BehindHead(latest) \in Nat \ {0} /\ BehindHead(latest) <= poller[p].asOf + 1
    BY <1>1, Facts, MarginCoversDrift
  <1>3. poller[p].asOf <= ledger
        /\ Reached(poller[p].asOf + 1, Events, Handled, since)
    BY <1>1, Facts DEF PollOK
  <1>4. InRange(BehindHead(latest), ledger) BY <1>2, <1>3, Facts DEF InRange
  <1>5. Reached(BehindHead(latest), Events, Handled, since)
    BY <1>2, <1>3, Facts DEF Reached
  <1> QED BY <1>0, <1>1, <1>2, <1>4, <1>5, IdleOK, StoreInv

(* The batch's last paging token is behind only handled events.            *)
LEMMA StoreCursorInv ==
    ASSUME Inv, NEW p \in Pollers, StoreCursor(p)
    PROVE  Inv'
  <1>1. /\ poller[p].pc = "store"
        /\ SetCursor(poller[p].last + 1) /\ Goto(p, Idle)
        /\ UNCHANGED <<chain, retries, outcome>>
    BY DEF StoreCursor, At
  <1>2. /\ poller[p].last + 1 \in Nat \ {0}
        /\ InRange(poller[p].last + 1, ledger)
        /\ Reached(poller[p].last + 1, Events, Handled, since)
    BY <1>1, Facts DEF PollOK, InRange
  <1> QED BY <1>1, <1>2, IdleOK, StoreInv

-----------------------------------------------------------------------------
(* What is left of a batch after its oldest event e was dealt with.        *)
LEMMA ContinueOK ==
    ASSUME Inv, NEW p \in Pollers, NEW e, IsNext(p, e)
    PROVE  PollOK(After(poller[p], e), Events, Handled \cup {e}, since, ledger)
  <1> DEFINE c == poller[p]
             rest == c.page \ {e}
             n == After(c, e)
             H == Handled \cup {e}
  <1>1. /\ c.pc = "batch" /\ e \in c.page /\ \A f \in c.page : e <= f
        /\ c.page \subseteq Events
        /\ Reached(c.from, Events, Handled, since) /\ InRange(c.from, ledger)
        /\ \A g \in Events, f \in c.page :
               c.from <= g /\ g < f =>
                   g \in c.page \/ (DueAt(g, since) => g \in Handled)
    BY Facts DEF IsNext, At, PollOK
  <1>2. e \in 1..ledger /\ e \in Nat BY <1>1, Facts
  <1>3. Reached(e + 1, Events, H, since)
    <2> SUFFICES ASSUME NEW g \in Events, DueAt(g, since), g < e + 1, g # e
                 PROVE  g \in Handled
      BY DEF Reached
    <2>1. g \in Nat /\ g < e BY <1>2, Facts
    <2>2. g \notin c.page BY <1>1, <1>2, <2>1
    <2>3. CASE g < c.from BY <1>1, <2>3 DEF Reached
    <2>4. CASE c.from <= g BY <1>1, <2>1, <2>2, <2>4
    <2> QED BY <2>1, <2>3, <2>4, Facts
  <1>4. Reached(c.from, Events, H, since) BY <1>1 DEF Reached
  <1>5. \A g \in Events, f \in rest :
            c.from <= g /\ g < f => g \in rest \/ (DueAt(g, since) => g \in H)
    BY <1>1
  <1>6. rest \subseteq Events /\ rest \in SUBSET Ledgers BY <1>1, Facts
  <1>7. n \in Polls /\ n.from = c.from /\ n.last = e /\ n.page = rest
        /\ n.pc \in {"store", "batch"}
    BY <1>2, <1>6, Facts DEF After, Cycle, Polls, PCs
  <1> HIDE DEF n, rest, H, c
  <1>8. PollOK(n, Events, H, since, ledger)
    BY <1>1, <1>2, <1>3, <1>4, <1>5, <1>6, <1>7 DEF PollOK
  <1> QED BY <1>8 DEF n, H, c

(* What was done before the batch stopped may be stored.                   *)
LEMMA StopBatchOK ==
    ASSUME Inv, NEW p \in Pollers, At(p, "batch"), StopBatch(p)
    PROVE  \E c : Goto(p, c) /\ PollOK(c, Events, Handled, since, ledger)
  <1> DEFINE c == Cycle("store", poller[p].from, poller[p].asOf, {}, poller[p].last)
  <1>1. PollOK(c, Events, Handled, since, ledger)
    BY Facts DEF At, PollOK, Cycle, Polls, PCs
  <1> QED BY SMTT(30), <1>1, IdleOK DEF StopBatch

(* A dead letter, written or lost, settles its event.                      *)
LEMMA DeadLetterHandles ==
    ASSUME NEW e, DeadLetter(e)
    PROVE  Handled' = Handled \cup {e}
  BY DEF DeadLetter, Handled

(* The three outcomes of processEvent.                                     *)
LEMMA ProcessEventInv ==
    ASSUME Inv, NEW p \in Pollers, NEW e \in Ledgers,
           ApplyEvent(p, e) \/ RejectEvent(p, e) \/ SyncFailure(p, e)
    PROVE  Inv'
  <1>1. UNCHANGED <<chain, cursor, since>> /\ e \in Events /\ IsNext(p, e)
    BY DEF ApplyEvent, RejectEvent, SyncFailure, Events
  <1>2. ASSUME Handled' = Handled \cup {e}, Continue(p, e), RetryInv'
        PROVE  Inv'
    <2>1. PollOK(After(poller[p], e), Events, Handled \cup {e}, since, ledger)
      BY <1>1, ContinueOK
    <2>2. Goto(p, After(poller[p], e)) BY <1>2 DEF Continue
    <2> QED BY <1>1, <1>2, <2>1, <2>2, HandleInv
  <1>3. RetryInv BY DEF Inv
  <1>4. CASE ApplyEvent(p, e)
    <2>1. Handled' = Handled \cup {e} BY <1>4 DEF ApplyEvent, Handled
    <2>2. RetryInv' BY <1>3, <1>4, PollerAssumption DEF ApplyEvent, RetryInv
    <2> QED BY <1>2, <1>4, <2>1, <2>2 DEF ApplyEvent
  <1>5. CASE RejectEvent(p, e)
    BY <1>2, <1>3, <1>5, DeadLetterHandles DEF RejectEvent, RetryInv
  <1>6. CASE SyncFailure(p, e) /\ retries[p][e] + 1 >= MaxRetries
    <2>1. DeadLetter(e) /\ Continue(p, e) /\ retries' = [retries EXCEPT ![p][e] = 0]
      BY <1>6 DEF SyncFailure
    <2>2. RetryInv' BY <1>3, <2>1, PollerAssumption DEF RetryInv
    <2> QED BY <1>2, <2>1, <2>2, DeadLetterHandles
  <1>7. CASE SyncFailure(p, e) /\ ~(retries[p][e] + 1 >= MaxRetries)
    <2>1. /\ StopBatch(p) /\ UNCHANGED outcome
          /\ retries' = [retries EXCEPT ![p][e] = retries[p][e] + 1]
      BY <1>7 DEF SyncFailure
    <2>2. RetryInv' BY <1>3, <1>7, <2>1, PollerAssumption DEF RetryInv
    <2>3. PICK c : Goto(p, c) /\ PollOK(c, Events, Handled, since, ledger)
      BY <1>1, <2>1, StopBatchOK DEF IsNext
    <2> QED BY <1>1, <2>1, <2>2, <2>3, CycleInv
  <1> QED BY <1>4, <1>5, <1>6, <1>7

(* Failing RPC calls, failing lookups and restarts.                        *)
LEMMA FailureInv ==
    ASSUME Inv, NEW p \in Pollers, RpcFailure(p) \/ LookupFailure(p) \/ Restart(p)
    PROVE  Inv'
  <1>1. UNCHANGED <<chain, cursor, since, outcome>>
    BY DEF RpcFailure, LookupFailure, Restart
  <1>2. RetryInv'
    BY PollerAssumption
       DEF RpcFailure, LookupFailure, Restart, NoRetries, Inv, RetryInv
  <1>3. CASE Goto(p, Idle) BY <1>1, <1>2, <1>3, IdleOK, CycleInv
  <1>4. CASE LookupFailure(p)
    BY <1>1, <1>2, <1>4, StopBatchOK, CycleInv DEF LookupFailure
  <1> QED BY <1>3, <1>4 DEF RpcFailure, Restart

-----------------------------------------------------------------------------
(* A fresh deployment has no cursor and no cycles.                         *)
LEMMA InitInv == Init => Inv
  <1> SUFFICES ASSUME Init PROVE Inv OBVIOUS
  <1>1. Handled = {} /\ good \subseteq 1..ledger /\ bad \subseteq 1..ledger
    BY DEF Init, Handled
  <1>2. DataInv
    BY <1>1, PollerAssumption DEF Init, DataInv, InRange, None, Ledgers
  <1>3. RetryInv BY PollerAssumption DEF Init, RetryInv, NoRetries
  <1>4. CursorInv
    <2>1. Events \subseteq Nat /\ cursor = 0 BY <1>1 DEF Init, Events, Ledgers, None
    <2> QED BY <2>1 DEF CursorInv, Reached
  <1>5. PollOK(Idle, Events, Handled, since, ledger) BY IdleOK
  <1>6. PollInv
    <2>1. Idle \in Polls BY <1>5 DEF PollOK
    <2> QED BY <1>5, <2>1 DEF Init, PollInv
  <1> QED BY <1>2, <1>3, <1>4, <1>6 DEF Inv

(* Every step keeps the invariant, while the cursor can be read.           *)
LEMMA NextInv == ASSUME ~ReadErrors PROVE Inv /\ [Next]_vars => Inv'
  <1> SUFFICES ASSUME Inv, [Next]_vars PROVE Inv' OBVIOUS
  <1>1. CASE CloseLedger BY <1>1, CloseLedgerInv
  <1>2. ASSUME NEW p \in Pollers, Poll(p) PROVE Inv'
    BY <1>2, ReadCursorInv, ResolveStartLedgerInv, FetchEventsInv,
       AdvanceQuietCursorInv, FailureInv, StoreCursorInv, ProcessEventInv DEF Poll
  <1>3. ASSUME NEW p \in Pollers, LookupFailure(p) \/ Restart(p) PROVE Inv'
    BY <1>3, FailureInv
  <1>4. CASE UNCHANGED vars
    BY <1>4 DEF vars, Inv, DataInv, RetryInv, CursorInv, PollInv, Events, Handled
  <1>5. CASE Stabilise
    BY <1>5 DEF Stabilise, outcome, Inv, DataInv, RetryInv, CursorInv, PollInv,
                Events, Handled
  <1> QED BY <1>1, <1>2, <1>3, <1>4, <1>5 DEF Next

(* The inductive invariant, by the two lemmas above.                       *)
LEMMA InvHolds == ASSUME ~ReadErrors PROVE Spec => []Inv
  <1>1. Inv /\ [Next]_vars => Inv' BY NextInv
  <1> QED BY <1>1, InitInv, PTL DEF Spec

(* Positions, pages and retry counts of the poller are always well formed; *)
(* no count reaches MAX_SYNC_RETRIES.                                      *)
THEOREM TypeCorrect == ASSUME ~ReadErrors PROVE Spec => []TypeOK
  <1>1. Inv => TypeOK BY DEF Inv, DataInv, RetryInv, PollInv, TypeOK
  <1> QED BY <1>1, InvHolds, PTL

(* The persisted cursor never passes a due event that was not applied,     *)
(* dead-lettered or given up with its dead letter: whatever the number of  *)
(* replicas, and with crashes, RPC timeouts, failing upserts and the quiet *)
(* reset, provided START_LEDGER_MARGIN + 1 covers the ledgers that close   *)
(* during an RPC call.                                                     *)
THEOREM NothingSkipped == ASSUME ~ReadErrors PROVE Spec => []NoEventSkipped
  <1>1. Inv => NoEventSkipped
    BY DEF Inv, CursorInv, Reached, NoEventSkipped, Due, DueAt
  <1> QED BY <1>1, InvHolds, PTL

(* processEvent stops the batch at the first failure, so an event is dealt *)
(* with for the first time only after all earlier ones.                    *)
THEOREM OrderKept == ASSUME ~ReadErrors PROVE Spec => HandledInOrder
  <1>1. ASSUME Inv, [Next]_vars, NEW e \in Handled' \ Handled, NEW f \in Events,
               Due(e), Due(f), f < e
        PROVE  f \in Handled
    <2>1. PICK p \in Pollers : \E d \in Ledgers :
              ApplyEvent(p, d) \/ RejectEvent(p, d) \/ SyncFailure(p, d)
      BY <1>1
         DEF Next, Poll, vars, outcome, Handled, CloseLedger, Stabilise, ReadCursor,
             ResolveStartLedger, FetchEvents, AdvanceQuietCursor, RpcFailure,
             StoreCursor, LookupFailure, Restart
    <2>2. PICK d \in Ledgers :
              ApplyEvent(p, d) \/ RejectEvent(p, d) \/ SyncFailure(p, d)
      BY <2>1
    <2>3. IsNext(p, d) /\ Handled' \subseteq Handled \cup {d}
      BY <2>2 DEF ApplyEvent, RejectEvent, SyncFailure, DeadLetter, Handled, outcome
    <2>4. e = d BY <1>1, <2>3
    <2>5. PollOK(After(poller[p], e), Events, Handled \cup {e}, since, ledger)
      BY SMTT(30), <1>1, <2>3, <2>4, ContinueOK
    <2>6. Reached(e + 1, Events, Handled \cup {e}, since)
      BY SMTT(30), <2>5 DEF PollOK, After, Cycle
    <2>7. e \in Nat /\ f \in Nat BY <1>1, <2>2, <2>4, Facts DEF Ledgers
    <2> QED BY SMTT(30), <1>1, <2>6, <2>7 DEF Reached, Due, DueAt
  <1>2. Inv /\ [Next]_vars =>
            [\A e \in Handled' \ Handled, f \in Events :
                 Due(e) /\ Due(f) /\ f < e => f \in Handled]_vars
    BY <1>1
  <1> QED BY <1>2, InvHolds, PTL DEF Spec, HandledInOrder
=============================================================================
