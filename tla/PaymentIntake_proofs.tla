------------------------ MODULE PaymentIntake_proofs ------------------------
(***************************************************************************)
(* Payment intake for any number of requests, replaying processes,         *)
(* operations and escrows, with failing calls, crashes and pruning.        *)
(***************************************************************************)
EXTENDS PaymentIntake, TLAPS

(* Types, and: a call in flight has an operation of the chain, and so has  *)
(* every page.                                                             *)
DataInv ==
    /\ TypeOK
    /\ \A c \in Callers : ~At(c, "idle") => Op(c) \in 1..emitted
    /\ \A r \in Replays : replay[r].page \subseteq 1..emitted

(* What was funded for some operation is not CREATED any more.             *)
FundedInv ==
    /\ \A o \in Operations, e \in Escrows : <<o, e>> \in funded => state[e] # "CREATED"
    /\ AppliedOnce

(* The part of DataInv that is about the calls.                            *)
CallsOK ==
    /\ call \in [Callers -> [pc : PCs, op : 0..emitted, pending : SUBSET Escrows]]
    /\ \A c \in Callers : ~At(c, "idle") => Op(c) \in 1..emitted

(* A call that returns or goes on with its operation stays well formed.    *)
LEMMA ReturnKeepsCalls ==
    ASSUME DataInv, NEW c \in Callers, Return(c), emitted' = emitted
    PROVE  CallsOK'
<1>1. Idle \in [pc : PCs, op : 0..emitted, pending : SUBSET Escrows]
  BY IntakeAssumption DEF Idle, Do, PCs, DataInv, TypeOK
<1>2. \A d \in Callers : call'[d] = IF d = c THEN Idle ELSE call[d]
  BY DEF Return, DataInv, TypeOK
<1>3. Idle.pc = "idle"
  BY SMTT(30) DEF Idle, Do
<1> QED
  BY <1>1, <1>2, <1>3 DEF Return, CallsOK, DataInv, TypeOK, At, Op

(* The same for a call that proceeds to another step.                      *)
LEMMA DoKeepsCalls ==
    ASSUME DataInv, NEW c \in Callers, NEW pc \in PCs, NEW op \in 1..emitted,
           NEW pending \in SUBSET Escrows, emitted' = emitted,
           call' = [call EXCEPT ![c] = Do(pc, op, pending)]
    PROVE  CallsOK'
<1>1. emitted \in Nat
  BY IntakeAssumption DEF DataInv, TypeOK
<1>2. Do(pc, op, pending) \in [pc : PCs, op : 0..emitted, pending : SUBSET Escrows]
  BY <1>1 DEF Do
<1>3. \A d \in Callers : call'[d] = IF d = c THEN Do(pc, op, pending) ELSE call[d]
  BY DEF DataInv, TypeOK
<1>4. Do(pc, op, pending).op = op
  BY DEF Do
<1>5. call' \in [Callers -> [pc : PCs, op : 0..emitted, pending : SUBSET Escrows]]
  BY <1>2, <1>3 DEF DataInv, TypeOK
<1>6. \A d \in Callers : call'[d].pc # "idle" => call'[d].op \in 1..emitted
  BY <1>3, <1>4 DEF DataInv, At, Op
<1> QED
  BY <1>5, <1>6 DEF CallsOK, At, Op

LEMMA GotoKeepsCalls ==
    ASSUME DataInv, NEW c \in Callers, ~At(c, "idle"), NEW pc \in PCs,
           Goto(c, pc), emitted' = emitted
    PROVE  CallsOK'
<1>1. Op(c) \in 1..emitted /\ {} \in SUBSET Escrows
  BY DEF DataInv
<1> QED
  BY <1>1, DoKeepsCalls DEF Goto

(* What a step of a call may do to the other variables.                    *)
LEMMA RestKept ==
    ASSUME DataInv, CallsOK', UNCHANGED <<world, state, cursor, funded>>,
           replay' = replay \/ \E r \in Replays : replay' = [replay EXCEPT ![r] = NoReplay],
           processed' \subseteq taken', taken' \subseteq 1..emitted,
           failed' \subseteq 1..emitted
    PROVE  DataInv'
<1>1. emitted \in Nat /\ emitted' = emitted
  BY IntakeAssumption DEF DataInv, TypeOK, world
<1>2. NoReplay \in [pc : {"idle", "fetch", "loop"}, page : SUBSET Operations,
                    last : 0..emitted]
  BY <1>1 DEF NoReplay, Run
<1>3. /\ replay' \in [Replays -> [pc : {"idle", "fetch", "loop"},
                                  page : SUBSET Operations, last : 0..emitted]]
      /\ \A r \in Replays : replay'[r].page \subseteq 1..emitted
  <2>1. CASE replay' = replay
    BY <2>1 DEF DataInv, TypeOK
  <2>2. ASSUME NEW r \in Replays, replay' = [replay EXCEPT ![r] = NoReplay]
        PROVE  <1>3!:
    <3>1. NoReplay.page = {}
      BY DEF NoReplay, Run
    <3> QED BY <1>2, <2>2, <3>1 DEF DataInv, TypeOK
  <2> QED BY <2>1, <2>2
<1> QED
  BY <1>1, <1>3 DEF DataInv, TypeOK, CallsOK, world

(* Types are kept by the steps of a call up to its last one.               *)
LEMMA CallerDataStep ==
    ASSUME DataInv, NEW c \in Callers,
           \/ IsProcessed(c) \/ MarkProcessed(c) \/ FindByVendor(c)
           \/ ProcessEventThrows(c) \/ UnmarkProcessed(c) \/ MarkingThrows(c)
           \/ Crash(c)
    PROVE  DataInv'
<1>1. /\ processed \subseteq taken /\ taken \subseteq 1..emitted
      /\ failed \subseteq 1..emitted
      /\ ~At(c, "idle") => Op(c) \in 1..emitted
  BY DEF DataInv, TypeOK
<1>2. CASE IsProcessed(c)
  <2>1. ~At(c, "idle") /\ emitted' = emitted /\ (Return(c) \/ Goto(c, "mark"))
    BY <1>2 DEF IsProcessed, At, world
  <2>2. CallsOK'
    BY <2>1, ReturnKeepsCalls, GotoKeepsCalls DEF PCs
  <2> QED BY <1>1, <1>2, <2>2, RestKept DEF IsProcessed, history
<1>3. CASE MarkProcessed(c)
  <2>1. ~At(c, "idle") /\ emitted' = emitted /\ (Return(c) \/ Goto(c, "find"))
    BY <1>3 DEF MarkProcessed, At, world
  <2>2. CallsOK'
    BY <2>1, ReturnKeepsCalls, GotoKeepsCalls DEF PCs
  <2> QED BY <1>1, <1>3, <2>1, <2>2, RestKept DEF MarkProcessed
<1>4. CASE FindByVendor(c)
  <2>1. ~At(c, "idle") /\ emitted' = emitted
    BY <1>4 DEF FindByVendor, At, world
  <2>2. Pending(Op(c)) \subseteq Escrows
    <3>1. emitted \in 0..MaxOp /\ Op(c) \in Operations
      BY <1>1, <2>1, IntakeAssumption DEF DataInv, TypeOK, Operations
    <3> QED BY <3>1, IntakeAssumption DEF Pending
  <2>3. CallsOK'
    <3>1. CASE Return(c)
      BY <2>1, <3>1, ReturnKeepsCalls
    <3>2. CASE call' = [call EXCEPT ![c] = Do("fund", Op(c), Pending(Op(c)))]
      BY <1>1, <2>1, <2>2, <3>2, DoKeepsCalls DEF PCs
    <3> QED BY <1>4, <3>1, <3>2 DEF FindByVendor
  <2> QED BY <1>1, <1>4, <2>3, RestKept DEF FindByVendor, history
<1>5. CASE ProcessEventThrows(c)
  <2>1. ~At(c, "idle") /\ emitted' = emitted /\ Goto(c, "unmark")
    BY <1>5 DEF ProcessEventThrows, At, world
  <2>2. CallsOK'
    BY <2>1, GotoKeepsCalls DEF PCs
  <2> QED BY <1>1, <1>5, <2>1, <2>2, RestKept DEF ProcessEventThrows
<1>6. CASE UnmarkProcessed(c)
  <2>1. CallsOK'
    BY <1>6, ReturnKeepsCalls DEF UnmarkProcessed, world
  <2> QED BY <1>1, <1>6, <2>1, RestKept DEF UnmarkProcessed, history
<1>7. CASE MarkingThrows(c)
  <2>1. ~At(c, "idle") /\ CallsOK'
    BY <1>7, ReturnKeepsCalls DEF MarkingThrows, At, world
  <2> QED BY <1>1, <1>7, <2>1, RestKept DEF MarkingThrows
<1>8. CASE Crash(c)
  <2>1. CallsOK'
    BY <1>8, ReturnKeepsCalls DEF Crash, world
  <2>2. failed' \subseteq 1..emitted
    BY <1>1, <1>8 DEF Crash, Processing, At
  <2> QED BY <1>1, <1>8, <2>1, <2>2, RestKept DEF Crash
<1> QED
  BY <1>2, <1>3, <1>4, <1>5, <1>6, <1>7, <1>8

(* Types are kept by every action.                                         *)
LEMMA DataStep == ASSUME DataInv, [Next]_vars PROVE DataInv'
<1>5. ASSUME NEW c \in Callers,
             \/ IsProcessed(c) \/ MarkProcessed(c) \/ FindByVendor(c)
             \/ ProcessEventThrows(c) \/ UnmarkProcessed(c) \/ MarkingThrows(c)
             \/ Crash(c)
      PROVE  DataInv'
  BY <1>5, CallerDataStep
<1> USE IntakeAssumption DEF DataInv, TypeOK, At, Op, Goto, Return, Do, Idle, PCs,
        States, Operations, Escrows, Callers, world, history, Run, NoReplay,
        Replaying, GotoReplay, PageAfter, Pending, Processing
<1>1. CASE MakeOperation
  BY <1>1 DEF MakeOperation
<1>2. CASE CreateEscrow
  BY <1>2 DEF CreateEscrow
<1>3. ASSUME NEW e \in Escrows, MoveOn(e) PROVE DataInv'
  BY <1>3 DEF MoveOn
<1>4. ASSUME NEW c \in Callers, NEW o \in Operations, HandleEvent(c, o) PROVE DataInv'
  BY <1>4 DEF HandleEvent
<1>6. ASSUME NEW c \in Callers, NEW e \in Escrows, UpdateState(c, e) PROVE DataInv'
  BY <1>6 DEF UpdateState
<1>7. ASSUME NEW r \in Replays, GetCursor(r) PROVE DataInv'
  BY <1>7 DEF GetCursor
<1>8. ASSUME NEW r \in Replays, FetchOperations(r) PROVE DataInv'
  BY <1>8 DEF FetchOperations
<1>9. ASSUME NEW r \in Replays, FetchFails(r) PROVE DataInv'
  BY <1>9 DEF FetchFails
<1>10. ASSUME NEW r \in Replays, StoreReplayCursor(r) PROVE DataInv'
  BY <1>10 DEF StoreReplayCursor
<1>11. ASSUME NEW r \in Replays, NEW o \in Operations, ProcessOperationDto(r, o) PROVE DataInv'
  BY <1>11 DEF ProcessOperationDto
<1>12. ASSUME NEW o \in Operations, PruneProcessedWebhookEvents(o) PROVE DataInv'
  BY <1>12 DEF PruneProcessedWebhookEvents
<1>13. CASE UNCHANGED vars
  BY SMTT(30), <1>13 DEF vars
<1> QED
  BY <1>1, <1>2, <1>3, <1>4, <1>5, <1>6, <1>7, <1>8, <1>9,
     <1>10, <1>11, <1>12, <1>13 DEF Next

(* The mark is the lock: it is taken before processing starts, by one      *)
(* caller, and given up only by that caller.                               *)
LEMMA MarkStep ==
    ASSUME DataInv, ProcessedByOne, [Next]_vars
    PROVE  ProcessedByOne'
<1> USE IntakeAssumption DEF DataInv, TypeOK, ProcessedByOne, Processing,
        Callers, world, history, At, Op, Goto, Return, Do, Idle
<1>1. CASE MakeOperation
  BY <1>1 DEF MakeOperation
<1>2. CASE CreateEscrow
  BY <1>2 DEF CreateEscrow
<1>3. ASSUME NEW e \in Escrows, MoveOn(e) PROVE ProcessedByOne'
  BY <1>3 DEF MoveOn
<1>4. ASSUME NEW c \in Callers, NEW o \in Operations, HandleEvent(c, o)
      PROVE ProcessedByOne'
  BY <1>4 DEF HandleEvent
<1>5. ASSUME NEW c \in Callers, IsProcessed(c) PROVE ProcessedByOne'
  BY <1>5 DEF IsProcessed
<1>6. ASSUME NEW c \in Callers, MarkProcessed(c) PROVE ProcessedByOne'
  BY <1>6 DEF MarkProcessed
<1>7. ASSUME NEW c \in Callers, FindByVendor(c) PROVE ProcessedByOne'
  BY <1>7 DEF FindByVendor
<1>8. ASSUME NEW c \in Callers, ProcessEventThrows(c) PROVE ProcessedByOne'
  BY <1>8 DEF ProcessEventThrows
<1>9. ASSUME NEW c \in Callers, UnmarkProcessed(c) PROVE ProcessedByOne'
  BY <1>9 DEF UnmarkProcessed
<1>10. ASSUME NEW c \in Callers, MarkingThrows(c) PROVE ProcessedByOne'
  BY <1>10 DEF MarkingThrows
<1>11. ASSUME NEW c \in Callers, Crash(c) PROVE ProcessedByOne'
  BY <1>11 DEF Crash
<1>12. ASSUME NEW c \in Callers, NEW e \in Escrows, UpdateState(c, e)
      PROVE ProcessedByOne'
  BY <1>12 DEF UpdateState
<1>13. ASSUME NEW r \in Replays, GetCursor(r) PROVE ProcessedByOne'
  BY <1>13 DEF GetCursor
<1>14. ASSUME NEW r \in Replays, FetchOperations(r) PROVE ProcessedByOne'
  BY <1>14 DEF FetchOperations
<1>15. ASSUME NEW r \in Replays, FetchFails(r) PROVE ProcessedByOne'
  BY <1>15 DEF FetchFails
<1>16. ASSUME NEW r \in Replays, StoreReplayCursor(r) PROVE ProcessedByOne'
  BY <1>16 DEF StoreReplayCursor
<1>17. ASSUME NEW r \in Replays, NEW o \in Operations, ProcessOperationDto(r, o)
      PROVE ProcessedByOne'
  BY <1>17 DEF ProcessOperationDto
<1>18. ASSUME NEW o \in Operations, PruneProcessedWebhookEvents(o)
      PROVE ProcessedByOne'
  BY <1>18 DEF PruneProcessedWebhookEvents
<1>19. CASE UNCHANGED vars
  BY SMTT(30), <1>19 DEF vars
<1> QED
  BY <1>1, <1>2, <1>3, <1>4, <1>5, <1>6, <1>7, <1>8, <1>9, <1>10,
     <1>11, <1>12, <1>13, <1>14, <1>15, <1>16, <1>17, <1>18, <1>19 DEF Next

(* A payment finds only CREATED escrows, and nobody else handles the same  *)
(* operation while the found ones are updated.                             *)
LEMMA FundedStep ==
    ASSUME DataInv, ProcessedByOne, FundedInv, [Next]_vars
    PROVE  FundedInv'
<1> USE IntakeAssumption DEF DataInv, TypeOK, FundedInv, AppliedOnce, Processing,
        ProcessedByOne, Callers, world, history, At, Op, Goto, Return, Do, Idle
<1>1. CASE MakeOperation
  BY <1>1 DEF MakeOperation
<1>2. CASE CreateEscrow
  BY <1>2 DEF CreateEscrow
<1>3. ASSUME NEW e \in Escrows, MoveOn(e) PROVE FundedInv'
  BY <1>3 DEF MoveOn
<1>4. ASSUME NEW c \in Callers, NEW o \in Operations, HandleEvent(c, o)
      PROVE FundedInv'
  BY <1>4 DEF HandleEvent
<1>5. ASSUME NEW c \in Callers, IsProcessed(c) PROVE FundedInv'
  BY <1>5 DEF IsProcessed
<1>6. ASSUME NEW c \in Callers, MarkProcessed(c) PROVE FundedInv'
  BY <1>6 DEF MarkProcessed
<1>7. ASSUME NEW c \in Callers, FindByVendor(c) PROVE FundedInv'
  <2>1. CASE Return(c)
    BY <1>7, <2>1 DEF FindByVendor
  <2>2. CASE call' = [call EXCEPT ![c] = Do("fund", Op(c), Pending(Op(c)))]
    <3>1. Op(c) \in Operations
      BY <1>7 DEF FindByVendor, Operations
    <3>2. \A e \in Pending(Op(c)) : e \in Escrows /\ state[e] = "CREATED"
      BY <3>1 DEF Pending
    <3>3. \A e \in Pending(Op(c)) : <<Op(c), e>> \notin funded
      BY <3>1, <3>2
    <3> QED BY <1>7, <2>2, <3>3 DEF FindByVendor
  <2> QED BY <1>7, <2>1, <2>2 DEF FindByVendor
<1>8. ASSUME NEW c \in Callers, ProcessEventThrows(c) PROVE FundedInv'
  BY <1>8 DEF ProcessEventThrows
<1>9. ASSUME NEW c \in Callers, UnmarkProcessed(c) PROVE FundedInv'
  BY <1>9 DEF UnmarkProcessed
<1>10. ASSUME NEW c \in Callers, MarkingThrows(c) PROVE FundedInv'
  BY <1>10 DEF MarkingThrows
<1>11. ASSUME NEW c \in Callers, Crash(c) PROVE FundedInv'
  BY <1>11 DEF Crash
<1>12. ASSUME NEW c \in Callers, NEW e \in Escrows, UpdateState(c, e)
      PROVE FundedInv'
  BY <1>12 DEF UpdateState
<1>13. ASSUME NEW r \in Replays, GetCursor(r) PROVE FundedInv'
  BY <1>13 DEF GetCursor
<1>14. ASSUME NEW r \in Replays, FetchOperations(r) PROVE FundedInv'
  BY <1>14 DEF FetchOperations
<1>15. ASSUME NEW r \in Replays, FetchFails(r) PROVE FundedInv'
  BY <1>15 DEF FetchFails
<1>16. ASSUME NEW r \in Replays, StoreReplayCursor(r) PROVE FundedInv'
  BY <1>16 DEF StoreReplayCursor
<1>17. ASSUME NEW r \in Replays, NEW o \in Operations, ProcessOperationDto(r, o)
      PROVE FundedInv'
  BY <1>17 DEF ProcessOperationDto
<1>18. ASSUME NEW o \in Operations, PruneProcessedWebhookEvents(o)
      PROVE FundedInv'
  BY <1>18 DEF PruneProcessedWebhookEvents
<1>19. CASE UNCHANGED vars
  BY SMTT(30), <1>19 DEF vars
<1> QED
  BY <1>1, <1>2, <1>3, <1>4, <1>5, <1>6, <1>7, <1>8, <1>9, <1>10,
     <1>11, <1>12, <1>13, <1>14, <1>15, <1>16, <1>17, <1>18, <1>19 DEF Next

(* Caller c will still update escrow e for operation o.                    *)
Serves(c, o, e) ==
    /\ Op(c) = o
    /\ At(c, "find") \/ (At(c, "fund") /\ e \in call[c].pending)

(* An escrow of findByVendor's page that waits for an operation that was   *)
(* taken up and has not failed is still going to be updated for it.        *)
OwedInv ==
    /\ \A o \in Operations : \A e \in owed[o] : e \in Matching[o] /\ e <= created
    /\ \A o \in taken \ failed : \A e \in owed[o] :
           e > created - Take /\ state[e] = "CREATED" =>
               \E c \in Callers : Serves(c, o, e)

(* New escrows only push others off the page; no step brings one back.     *)
LEMMA OwedStep ==
    ASSUME DataInv, OwedInv, [Next]_vars
    PROVE  OwedInv'
<1> USE IntakeAssumption DEF DataInv, TypeOK, OwedInv, Serves, Processing,
        Callers, world, history, At, Op, Goto, Return, Do, Idle
<1>1. CASE MakeOperation
  BY <1>1 DEF MakeOperation
<1>2. CASE CreateEscrow
  <2>1. \A o \in Operations : \A e \in owed'[o] : e \in Matching[o] /\ e <= created'
    BY <1>2 DEF CreateEscrow, Escrows
  <2>2. \A c \in Callers, o \in Operations, e \in Escrows : Serves(c, o, e)' <=> Serves(c, o, e)
    BY <1>2 DEF CreateEscrow
  <2> HIDE DEF Serves
  <2>3. taken \subseteq Operations
    BY DEF Operations
  <2>4. \A e \in Escrows : e > created' - Take => e > created - Take
    BY <1>2 DEF CreateEscrow, Escrows
  <2> QED BY <1>2, <2>1, <2>2, <2>3, <2>4 DEF CreateEscrow
<1>3. ASSUME NEW e \in Escrows, MoveOn(e) PROVE OwedInv'
  BY <1>3 DEF MoveOn
<1>4. ASSUME NEW c \in Callers, NEW o \in Operations, HandleEvent(c, o)
      PROVE OwedInv'
  BY <1>4 DEF HandleEvent
<1>5. ASSUME NEW c \in Callers, IsProcessed(c) PROVE OwedInv'
  BY <1>5 DEF IsProcessed
<1>6. ASSUME NEW c \in Callers, MarkProcessed(c) PROVE OwedInv'
  BY <1>6 DEF MarkProcessed
<1>7. ASSUME NEW c \in Callers, FindByVendor(c) PROVE OwedInv'
  <2> SUFFICES ASSUME NEW o \in taken \ failed, NEW e \in owed[o],
                      e > created - Take, state[e] = "CREATED"
               PROVE  \E d \in Callers : Serves(d, o, e)'
    BY <1>7 DEF FindByVendor
  <2>1. PICK d \in Callers : Serves(d, o, e)
    OBVIOUS
  <2>2. CASE d # c
    <3>1. call'[d] = call[d]
      BY <1>7, <2>2 DEF FindByVendor
    <3> QED BY <2>1, <3>1
  <2>3. CASE d = c
    <3>1. o \in Operations /\ Op(c) = o
      BY <2>1, <2>3 DEF Operations
    <3>2. e \in Matching[o] /\ e <= created /\ e > 0
      BY <3>1 DEF Escrows
    <3>3. e \in Pending(o)
      BY <3>2 DEF Pending, Escrows
    <3>4. call'[c] = Do("fund", o, Pending(o))
      BY <1>7, <3>1, <3>3 DEF FindByVendor
    <3> QED BY <3>3, <3>4
  <2> QED BY <2>2, <2>3
<1>8. ASSUME NEW c \in Callers, ProcessEventThrows(c) PROVE OwedInv'
  <2> SUFFICES ASSUME NEW o \in taken \ failed', NEW e \in owed[o],
                      e > created - Take, state[e] = "CREATED"
               PROVE  \E d \in Callers : Serves(d, o, e)'
    BY <1>8 DEF ProcessEventThrows
  <2>1. PICK d \in Callers : Serves(d, o, e)
    BY <1>8 DEF ProcessEventThrows
  <2>2. d # c
    BY <1>8, <2>1 DEF ProcessEventThrows
  <2>3. call'[d] = call[d]
    BY <1>8, <2>2 DEF ProcessEventThrows
  <2> QED BY <2>1, <2>3
<1>9. ASSUME NEW c \in Callers, UnmarkProcessed(c) PROVE OwedInv'
  BY <1>9 DEF UnmarkProcessed
<1>10. ASSUME NEW c \in Callers, MarkingThrows(c) PROVE OwedInv'
  BY <1>10 DEF MarkingThrows
<1>11. ASSUME NEW c \in Callers, Crash(c) PROVE OwedInv'
  BY <1>11 DEF Crash
<1>12. ASSUME NEW c \in Callers, NEW e \in Escrows, UpdateState(c, e)
      PROVE OwedInv'
  BY <1>12 DEF UpdateState
<1>13. ASSUME NEW r \in Replays, GetCursor(r) PROVE OwedInv'
  BY <1>13 DEF GetCursor
<1>14. ASSUME NEW r \in Replays, FetchOperations(r) PROVE OwedInv'
  BY <1>14 DEF FetchOperations
<1>15. ASSUME NEW r \in Replays, FetchFails(r) PROVE OwedInv'
  BY <1>15 DEF FetchFails
<1>16. ASSUME NEW r \in Replays, StoreReplayCursor(r) PROVE OwedInv'
  BY SMTT(30), <1>16 DEF StoreReplayCursor
<1>17. ASSUME NEW r \in Replays, NEW o \in Operations, ProcessOperationDto(r, o)
      PROVE OwedInv'
  BY <1>17 DEF ProcessOperationDto
<1>18. ASSUME NEW o \in Operations, PruneProcessedWebhookEvents(o)
      PROVE OwedInv'
  BY <1>18 DEF PruneProcessedWebhookEvents
<1>19. CASE UNCHANGED vars
  BY <1>19 DEF vars
<1> QED
  BY <1>1, <1>2, <1>3, <1>4, <1>5, <1>6, <1>7, <1>8, <1>9, <1>10,
     <1>11, <1>12, <1>13, <1>14, <1>15, <1>16, <1>17, <1>18, <1>19 DEF Next

(* Everything up to the position a replay started from, and everything it  *)
(* left behind since, was taken up or failed, or is its current operation. *)
ReplayInv ==
    /\ ReplaySkipsNothing
    /\ \A r \in Replays : replay[r].pc = "fetch" =>
           \A o \in 1..replay[r].last : o \in taken \cup failed
    /\ \A r \in Replays : replay[r].pc = "loop" =>
           \A o \in 1..emitted :
               \/ o \in replay[r].page \cup taken \cup failed
               \/ ~At(r, "idle") /\ Op(r) = o
               \/ o > replay[r].last /\ \A p \in replay[r].page : p < o

(* A call that ends with its operation taken up or failed, or goes on with *)
(* it, does not disturb the replays.                                       *)
LEMMA CallKeepsReplay ==
    ASSUME DataInv, ReplayInv, NEW c \in Callers, UNCHANGED <<emitted, replay, cursor>>,
           taken \subseteq taken', failed \subseteq failed',
           \A d \in Callers \ {c} : call'[d] = call[d],
           Op(c) \in taken' \cup failed' \/ (~At(c, "idle")' /\ Op(c)' = Op(c))
    PROVE  ReplayInv'
<1>1. /\ ReplaySkipsNothing'
      /\ \A r \in Replays : replay'[r].pc = "fetch" =>
             \A o \in 1..replay'[r].last : o \in taken' \cup failed'
  BY DEF ReplayInv, ReplaySkipsNothing
<1>2. ASSUME NEW r \in Replays, replay[r].pc = "loop", NEW o \in 1..emitted
      PROVE  \/ o \in replay[r].page \cup taken' \cup failed'
             \/ ~At(r, "idle")' /\ Op(r)' = o
             \/ o > replay[r].last /\ \A p \in replay[r].page : p < o
  <2>1. CASE r = c
    BY <1>2, <2>1 DEF ReplayInv
  <2>2. CASE r # c
    BY <1>2, <2>2 DEF ReplayInv, At, Op, Callers
  <2> QED BY <2>1, <2>2
<1> QED
  BY <1>1, <1>2 DEF ReplayInv

(* The steps of a call keep the claim of the replays.                      *)
LEMMA CallerReplayStep ==
    ASSUME DataInv, ProcessedByOne, ReplayInv, NEW c \in Callers,
           \/ IsProcessed(c) \/ MarkProcessed(c) \/ FindByVendor(c)
           \/ ProcessEventThrows(c) \/ UnmarkProcessed(c) \/ MarkingThrows(c)
           \/ \E e \in Escrows : UpdateState(c, e)
    PROVE  ReplayInv'
<1>1. /\ processed \subseteq taken
      /\ Processing(c) => Op(c) \in taken
  BY DEF DataInv, TypeOK, ProcessedByOne
<1>2. \E r : call' = [call EXCEPT ![c] = r]
  BY DEF IsProcessed, MarkProcessed, FindByVendor, ProcessEventThrows, UnmarkProcessed,
         MarkingThrows, UpdateState, Goto, Return
<1>3. DOMAIN call = Callers
  BY DEF DataInv, TypeOK
<1>4. \A d \in Callers \ {c} : call'[d] = call[d]
  BY <1>2, <1>3
<1>5. /\ UNCHANGED <<emitted, replay, cursor>>
      /\ taken \subseteq taken' /\ failed \subseteq failed'
  BY DEF IsProcessed, MarkProcessed, FindByVendor, ProcessEventThrows, UnmarkProcessed,
         MarkingThrows, UpdateState, world, history
<1>6. Goto(c, "mark") => ~At(c, "idle")' /\ Op(c)' = Op(c)
  BY <1>3 DEF Goto, Do, At, Op
<1>7. Op(c) \in taken' \cup failed' \/ Goto(c, "mark")
  BY <1>1, <1>5 DEF IsProcessed, MarkProcessed, FindByVendor, ProcessEventThrows,
                    UnmarkProcessed, MarkingThrows, UpdateState, Processing, At
<1> QED
  BY <1>4, <1>5, <1>6, <1>7, CallKeepsReplay

(* A replay hands on its position only after its whole page.               *)
LEMMA ReplayStep ==
    ASSUME DataInv, ProcessedByOne, ReplayInv, [Next]_vars
    PROVE  ReplayInv'
<1>5. ASSUME NEW c \in Callers,
             \/ IsProcessed(c) \/ MarkProcessed(c) \/ FindByVendor(c)
             \/ ProcessEventThrows(c) \/ UnmarkProcessed(c) \/ MarkingThrows(c)
             \/ \E e \in Escrows : UpdateState(c, e)
      PROVE  ReplayInv'
  BY <1>5, CallerReplayStep
<1> USE IntakeAssumption DEF DataInv, TypeOK, ReplayInv, ReplaySkipsNothing,
        ProcessedByOne, Processing, Operations, Run, NoReplay, Replaying,
        GotoReplay, Callers, world, history, At, Op, Goto, Return, Do, Idle
<1>1. CASE MakeOperation
  BY <1>1 DEF MakeOperation
<1>2. CASE CreateEscrow
  BY <1>2 DEF CreateEscrow
<1>3. ASSUME NEW e \in Escrows, MoveOn(e) PROVE ReplayInv'
  BY <1>3 DEF MoveOn
<1>4. ASSUME NEW c \in Callers, NEW o \in Operations, HandleEvent(c, o)
      PROVE ReplayInv'
  BY SMTT(30), <1>4 DEF HandleEvent
<1>6. ASSUME NEW c \in Callers, Crash(c) PROVE ReplayInv'
  BY <1>6 DEF Crash
<1>7. ASSUME NEW r \in Replays, GetCursor(r) PROVE ReplayInv'
  BY SMTT(30), <1>7 DEF GetCursor
<1>8. ASSUME NEW r \in Replays, FetchOperations(r) PROVE ReplayInv'
  <2> DEFINE from == replay[r].last
             page == PageAfter(from)
  <2>1. \A o \in 1..emitted : \/ o \in page \cup taken \cup failed
                              \/ \A p \in page : p < o
    BY <1>8 DEF FetchOperations, PageAfter
  <2>2. replay' = [replay EXCEPT ![r] = IF page = {} THEN NoReplay ELSE Run("loop", page, 0)]
    BY <1>8 DEF FetchOperations
  <2>3. UNCHANGED <<emitted, taken, failed, cursor, call>>
    BY SMTT(30), <1>8 DEF FetchOperations
  <2> HIDE DEF page
  <2>4. CASE page = {}
    BY SMTT(30), <2>2, <2>3, <2>4
  <2>5. CASE page # {}
    BY SMTT(30), <2>1, <2>2, <2>3, <2>5
  <2> QED BY <2>4, <2>5
<1>9. ASSUME NEW r \in Replays, FetchFails(r) PROVE ReplayInv'
  BY SMTT(30), <1>9 DEF FetchFails
<1>10. ASSUME NEW r \in Replays, StoreReplayCursor(r) PROVE ReplayInv'
  <2>1. \A o \in 1..replay[r].last : o \in taken \cup failed
    <3>1. replay[r].last \in 0..emitted /\ replay[r].page = {} /\ At(r, "idle")
      BY <1>10 DEF StoreReplayCursor
    <3>2. \A o \in 1..emitted : o \in taken \cup failed \/ o > replay[r].last
      BY <1>10, <3>1 DEF StoreReplayCursor
    <3>3. emitted \in Nat
      OBVIOUS
    <3> QED BY ONLY <3>1, <3>2, <3>3
  <2>2. \A o \in 1..cursor' : o \in taken \cup failed
    BY <1>10, <2>1 DEF StoreReplayCursor
  <2>3. replay' = [replay EXCEPT ![r] = NoReplay] /\ UNCHANGED <<emitted, taken, failed, call>>
    BY SMTT(30), <1>10 DEF StoreReplayCursor
  <2> QED BY SMTT(30), <2>2, <2>3
<1>11. ASSUME NEW r \in Replays, NEW o \in Operations, ProcessOperationDto(r, o)
      PROVE ReplayInv'
  BY <1>11 DEF ProcessOperationDto
<1>12. ASSUME NEW o \in Operations, PruneProcessedWebhookEvents(o)
      PROVE ReplayInv'
  BY <1>12 DEF PruneProcessedWebhookEvents
<1>13. CASE UNCHANGED vars
  BY <1>13 DEF vars
<1> QED
  BY <1>1, <1>2, <1>3, <1>4, <1>5, <1>6, <1>7, <1>8, <1>9, <1>10, <1>11,
     <1>12, <1>13 DEF Next

(* Initially nothing is on chain and nothing is in flight.                 *)
LEMMA InitHasInv == Init => DataInv /\ ProcessedByOne /\ FundedInv /\ OwedInv /\ ReplayInv
<1> SUFFICES ASSUME Init PROVE DataInv /\ ProcessedByOne /\ FundedInv /\ OwedInv /\ ReplayInv
  OBVIOUS
<1> USE IntakeAssumption DEF Init
<1>1. DataInv
  BY DEF DataInv, TypeOK, At, Op, Idle, Do, NoReplay, Run, PCs, States, Operations
<1>2. ProcessedByOne /\ FundedInv
  BY DEF ProcessedByOne, FundedInv, AppliedOnce, Processing, At, Idle, Do
<1>3. OwedInv /\ ReplayInv
  BY DEF OwedInv, ReplayInv, ReplaySkipsNothing, NoReplay, Run
<1> QED
  BY <1>1, <1>2, <1>3

(* The inductive invariant without OwedInv, which needs only the types.    *)
Inv == DataInv /\ ProcessedByOne /\ FundedInv /\ ReplayInv

(* It is inductive.                                                        *)
LEMMA Invariance == Spec => []Inv
<1>1. Init => Inv
  BY InitHasInv DEF Inv
<1>2. Inv /\ [Next]_vars => Inv'
  BY DataStep, MarkStep, FundedStep, ReplayStep DEF Inv
<1> QED
  BY <1>1, <1>2, PTL DEF Spec

(* Every mark, page, position and call refers to operations of the chain.  *)
THEOREM TypeCorrect == Spec => []TypeOK
<1>1. Inv => TypeOK
  BY DEF Inv, DataInv
<1> QED
  BY <1>1, Invariance, PTL

(* The insert of markProcessed excludes concurrent processing of one       *)
(* operation by any number of requests and replays, with any failures.     *)
THEOREM ProcessedExclusively == Spec => []ProcessedByOne
<1>1. Inv => ProcessedByOne
  BY DEF Inv
<1> QED
  BY <1>1, Invariance, PTL

(* Rollback, retry, replay and pruning never make a payment update the     *)
(* same escrow twice.                                                      *)
THEOREM PaymentAppliedOnce == Spec => []AppliedOnce
<1>1. Inv => AppliedOnce
  BY DEF Inv, FundedInv
<1> QED
  BY <1>1, Invariance, PTL

(* The replay cursor passes nothing that was not taken up or failed, for   *)
(* any number of processes replaying at once.                              *)
THEOREM ReplayIsGapless == Spec => []ReplaySkipsNothing
<1>1. Inv => ReplaySkipsNothing
  BY DEF Inv, ReplayInv
<1> QED
  BY <1>1, Invariance, PTL

(* For any page size of findByVendor, a payment that was taken up and did  *)
(* not fail funds what waited for it among the vendor's newest escrows, as *)
(* many as the page holds; interleavings of any number of callers lose     *)
(* none of them.                                                           *)
THEOREM PaymentsAreApplied == Spec => []PaymentApplied
<1>1. Init => DataInv /\ OwedInv
  BY InitHasInv
<1>2. DataInv /\ OwedInv /\ [Next]_vars => DataInv' /\ OwedInv'
  BY DataStep, OwedStep
<1>3. OwedInv => PaymentApplied
  BY DEF OwedInv, PaymentApplied, Serves, Processing, At
<1> QED
  BY <1>1, <1>2, <1>3, PTL DEF Spec
=============================================================================
