------------------------- MODULE DeadLetters_proofs -------------------------
(***************************************************************************)
(* The dead-letter claim for any number of operators, failing updates and  *)
(* crashes, as long as no live replay is overtaken (~SlowCalls).           *)
(***************************************************************************)
EXTENDS DeadLetters, TLAPS

(* A claimed row is not old, and no call holds a threshold that would let  *)
(* it take the claim over.                                                 *)
HeldIsFresh == \A o \in Operators : Holding(o) => ~old /\ stale = {}

Inv == TypeOK /\ ReplayExclusive /\ HeldIsFresh

(* A call that only moves its own program counter out of the claim keeps   *)
(* the invariant (DatabaseError, Crash and the 409 of claimForReplay).     *)
LEMMA LeavingKeepsInv ==
    ASSUME Inv, NEW o \in Operators, Goto(o, "idle"),
           UNCHANGED <<status, replayable, old, stale, audit>>
    PROVE  Inv'
  BY DEF Inv, TypeOK, ReplayExclusive, HeldIsFresh, Holding, Goto, PCs

(* Every step of every operator, and the passing of time, keeps Inv.       *)
LEMMA StepKeepsInv ==
    ASSUME ~SlowCalls, Inv, [Next]_vars
    PROVE  Inv'
<1> USE DEF Inv, TypeOK, ReplayExclusive, HeldIsFresh, Holding, Goto, PCs,
            Statuses, Update, Unchanged, Available
<1>1. ASSUME NEW o \in Operators, Replay(o) \/ Abandon(o) PROVE Inv'
  BY <1>1 DEF Replay, Abandon, Check
<1>2. ASSUME NEW o \in Operators, ClaimForReplay(o) PROVE Inv'
  <2>1. CASE Available(o \in stale) /\ Update("REPLAYING") /\ Goto(o, "load")
             /\ UNCHANGED <<replayable, audit>>
    <3>1. \A p \in Operators : ~Holding(p)
      BY <2>1
    <3> QED BY <2>1, <3>1
  <2>2. CASE Unchanged /\ Goto(o, "idle") /\ UNCHANGED <<replayable, audit>>
    BY <2>2, LeavingKeepsInv
  <2> QED BY <1>2, <2>1, <2>2 DEF ClaimForReplay
<1>3. ASSUME NEW o \in Operators, LoadClaimed(o) \/ Submit(o) PROVE Inv'
  BY <1>3 DEF LoadClaimed, Submit
<1>4. ASSUME NEW o \in Operators, ReleaseClaim(o) \/ MarkReplayed(o) PROVE Inv'
  <2>1. \A p \in Operators : Holding(p) => p = o
    BY <1>4 DEF ReleaseClaim, MarkReplayed
  <2> QED BY <1>4, <2>1 DEF ReleaseClaim, MarkReplayed
<1>5. ASSUME NEW o \in Operators, IncrementAttempts(o) PROVE Inv'
  BY <1>5 DEF IncrementAttempts
<1>6. ASSUME NEW o \in Operators, MarkAbandoned(o) PROVE Inv'
  <2>1. CASE Available(o \in stale) /\ Update("ABANDONED") /\ Goto(o, "log_abandon")
             /\ UNCHANGED <<replayable, audit>>
    <3>1. \A p \in Operators : ~Holding(p)
      BY <2>1
    <3> QED BY <2>1, <3>1
  <2>2. CASE Unchanged /\ Goto(o, "idle") /\ UNCHANGED <<replayable, audit>>
    BY <2>2, LeavingKeepsInv
  <2> QED BY <1>6, <2>1, <2>2 DEF MarkAbandoned
<1>7. ASSUME NEW o \in Operators, DatabaseError(o) \/ Crash(o) PROVE Inv'
  BY <1>7, LeavingKeepsInv DEF DatabaseError, Crash
<1>8. CASE Age
  BY <1>8 DEF Age
<1>9. CASE UNCHANGED vars
  BY <1>9 DEF vars
<1>10. ASSUME NEW o \in Operators, AppendAudit(o) PROVE Inv'
  <2>1. audit' \subseteq AuditEntries
    BY <1>10 DEF AppendAudit, AuditEntries, Final
  <2> QED BY <1>10, <2>1 DEF AppendAudit
<1> QED
  BY <1>1, <1>2, <1>3, <1>4, <1>5, <1>6, <1>7, <1>8, <1>9, <1>10 DEF Next, Step

(* A new row is PENDING_REVIEW and nobody works on it.                     *)
LEMMA InitHasInv == Init => Inv
  BY DEF Init, Inv, TypeOK, ReplayExclusive, HeldIsFresh, Holding, Statuses, PCs,
         AuditEntries

(* The inductive invariant holds throughout.                               *)
LEMMA Invariance == ASSUME ~SlowCalls PROVE Spec => []Inv
<1>1. Inv /\ [Next]_vars => Inv'
  BY StepKeepsInv
<1> QED
  BY <1>1, InitHasInv, PTL DEF Spec

(* Every row, whatever its operators do, has one of the four statuses.     *)
THEOREM TypeCorrect == ASSUME ~SlowCalls PROVE Spec => []TypeOK
<1>1. Inv => TypeOK
  BY DEF Inv
<1> QED
  BY <1>1, Invariance, PTL

(* claimForReplay is a lock for any number of operators, and a claim left  *)
(* behind is taken over by one of them only.                               *)
THEOREM ReplayIsExclusive == ASSUME ~SlowCalls PROVE Spec => []ReplayExclusive
<1>1. Inv => ReplayExclusive
  BY DEF Inv
<1> QED
  BY <1>1, Invariance, PTL

(* No step changes a final status.                                         *)
LEMMA StepKeepsFinal ==
    ASSUME Inv, Next, status \in Final
    PROVE  status' = status
<1>1. \A o \in Operators : ~Holding(o)
  BY DEF Inv, ReplayExclusive, Final
<1>2. \A b \in BOOLEAN : ~Available(b)
  BY DEF Available, Final
<1> QED
  BY <1>1, <1>2
  DEF Next, Step, Replay, Abandon, Check, ClaimForReplay, MarkAbandoned,
      LoadClaimed, Submit, ReleaseClaim, IncrementAttempts, MarkReplayed,
      AppendAudit, DatabaseError, Crash, Age, Unchanged, Update, Holding,
      Available, Final

(* The unconditional updates of releaseClaim, incrementAttempts and        *)
(* markReplayed never reopen a replayed or abandoned row.                  *)
THEOREM FinalIsFinal == ASSUME ~SlowCalls PROVE Spec => FinalStatus
<1>1. Inv /\ [Next]_vars => [(status \in Final) => (status' = status)]_vars
  BY StepKeepsFinal
<1> QED
  BY <1>1, Invariance, PTL DEF Spec, FinalStatus
-----------------------------------------------------------------------------
Logging(o) == pc[o] \in {"log_replay", "log_abandon"}

(* What a call is about to log is the status it gave the row, and nobody   *)
(* else has given it one.                                                  *)
LogInv ==
    /\ AuditTruthful
    /\ \A o \in Operators :
           /\ pc[o] = "log_replay" => status = "REPLAYED"
           /\ pc[o] = "log_abandon" => status = "ABANDONED"
           /\ Logging(o) => audit = {}
    /\ \A o, p \in Operators : Logging(o) /\ Logging(p) => o = p

(* As long as the row is open nothing has been or is being logged.         *)
LEMMA OpenHasNoLog ==
    ASSUME Inv, LogInv, status \notin Final
    PROVE  audit = {} /\ \A o \in Operators : ~Logging(o)
  BY DEF Inv, TypeOK, LogInv, AuditTruthful, AuditEntries, Final, Logging

(* Logging starts with the update that closes the row and ends with the    *)
(* entry, so every step keeps LogInv.                                      *)
LEMMA StepKeepsLog ==
    ASSUME Inv, LogInv, [Next]_vars
    PROVE  LogInv'
<1> USE DEF Goto, PCs, Logging, TypeOK
<1>1. ASSUME NEW o \in Operators, MarkReplayed(o)
      PROVE  LogInv'
  <2>1. audit = {} /\ \A p \in Operators : ~Logging(p)
    <3>1. status = "REPLAYING"
      BY <1>1 DEF MarkReplayed, Inv, ReplayExclusive, Holding
    <3> QED BY <3>1, OpenHasNoLog DEF Final
  <2> QED
    BY <1>1, <2>1 DEF MarkReplayed, Update, LogInv, AuditTruthful, Inv
<1>2. ASSUME NEW o \in Operators, MarkAbandoned(o)
      PROVE  LogInv'
  <2>1. CASE Available(o \in stale) /\ Update("ABANDONED") /\ Goto(o, "log_abandon")
             /\ UNCHANGED <<replayable, audit>>
    <3>1. audit = {} /\ \A p \in Operators : ~Logging(p)
      BY <2>1, OpenHasNoLog DEF Final, Available
    <3> QED
      BY <2>1, <3>1 DEF Update, LogInv, AuditTruthful, Inv
  <2>2. CASE Unchanged /\ Goto(o, "idle") /\ UNCHANGED <<replayable, audit>>
    BY <2>2 DEF Unchanged, LogInv, AuditTruthful, Inv
  <2> QED BY <1>2, <2>1, <2>2 DEF MarkAbandoned
<1>3. ASSUME NEW o \in Operators, AppendAudit(o)
      PROVE  LogInv'
  <2>1. PICK s \in Final : /\ audit' = audit \cup {<<o, s>>}
                           /\ status = s
                           /\ Logging(o)
    BY <1>3 DEF AppendAudit, LogInv, Final
  <2>2. audit' = {<<o, s>>}
    BY <2>1 DEF LogInv
  <2>3. AuditTruthful'
    BY <1>3, <2>1, <2>2 DEF AuditTruthful, AppendAudit, Unchanged
  <2>4. \A p \in Operators : ~Logging(p)'
    BY <1>3, <2>1 DEF AppendAudit, LogInv, Inv
  <2> QED BY <2>3, <2>4 DEF LogInv
<1>4. ASSUME NEW o \in Operators,
             \/ Replay(o) \/ Abandon(o) \/ ClaimForReplay(o) \/ LoadClaimed(o)
             \/ Submit(o) \/ ReleaseClaim(o) \/ IncrementAttempts(o)
             \/ DatabaseError(o) \/ Crash(o)
      PROVE  LogInv'
  <2>1. audit' = audit /\ \A p \in Operators : Logging(p)' => Logging(p) /\ pc'[p] = pc[p]
    BY <1>4 DEF Inv, Replay, Abandon, Check, ClaimForReplay, LoadClaimed, Submit,
                ReleaseClaim, IncrementAttempts, DatabaseError, Crash
  <2>2. CASE status \in Final
    <3>1. status' = status
      BY <1>4, <2>2, StepKeepsFinal DEF Next, Step
    <3> QED BY <2>1, <3>1 DEF LogInv, AuditTruthful
  <2>3. CASE status \notin Final
    <3>1. audit = {} /\ \A p \in Operators : ~Logging(p)
      BY <2>3, OpenHasNoLog
    <3> QED BY <2>1, <3>1 DEF LogInv, AuditTruthful
  <2> QED BY <2>2, <2>3
<1>5. CASE Age \/ UNCHANGED vars
  BY <1>5 DEF Age, vars, LogInv, AuditTruthful
<1> QED
  BY <1>1, <1>2, <1>3, <1>4, <1>5 DEF Next, Step

(* However many operators replay and abandon the row, its audit trail has  *)
(* at most one entry, and that one names the status the row ended in.      *)
THEOREM AuditIsTruthful == ASSUME ~SlowCalls PROVE Spec => []AuditTruthful
<1>1. Init => LogInv
  BY DEF Init, LogInv, AuditTruthful, Logging
<1>2. Inv /\ LogInv /\ [Next]_vars => LogInv'
  BY StepKeepsLog
<1>3. LogInv => AuditTruthful
  BY DEF LogInv
<1> QED
  BY <1>1, <1>2, <1>3, Invariance, PTL DEF Spec
-----------------------------------------------------------------------------
Holders == {o \in Operators : Holding(o)}

(* Who works under the claim determines the phase of a REPLAYING row.      *)
PhaseOfStatus ==
    /\ status = "PENDING_REVIEW" => ClaimPhase = "free"
    /\ status = "REPLAYED" => ClaimPhase = "finished"
    /\ status = "ABANDONED" => ClaimPhase = "closed"
    /\ status = "REPLAYING" /\ Holders # {} => ClaimPhase = "held"
    /\ status = "REPLAYING" /\ Holders = {} => ClaimPhase = "lost"

(* That is what ClaimPhase says.                                           *)
LEMMA PhaseOf == PhaseOfStatus
  BY DEF PhaseOfStatus, ClaimPhase, Holders

(* A step that moves nobody into or out of the claim and keeps the status  *)
(* is invisible to the claim.                                              *)
LEMMA Invisible ==
    ASSUME UNCHANGED status, \A o \in Operators : Holding(o)' <=> Holding(o)
    PROVE  Holders' = Holders /\ ClaimPhase' = ClaimPhase
<1>1. Holders' = Holders
  BY DEF Holders
<1>2. (\E o \in Operators : Holding(o))' <=> \E o \in Operators : Holding(o)
  OBVIOUS
<1> QED BY <1>1, <1>2 DEF ClaimPhase

(* Every step of the dead letter is a step of the claim, or none.          *)
LEMMA StepIsClaimStep ==
    ASSUME ~SlowCalls, Inv, Inv', [Next]_vars
    PROVE  [Claim!Next]_(Claim!vars)
<1> USE DEF Goto, PCs, Holding
<1> DEFINE Quiet == Holders' = Holders /\ ClaimPhase' = ClaimPhase
<1>0. Quiet => [Claim!Next]_(Claim!vars)
  BY DEF Claim!vars, Holders
<1>00. PhaseOfStatus /\ PhaseOfStatus'
  BY PhaseOf, PTL
<1>1. ASSUME NEW o \in Operators, ClaimForReplay(o)
      PROVE  [Claim!Next]_(Claim!vars)
  <2>1. CASE Available(o \in stale) /\ Update("REPLAYING") /\ Goto(o, "load")
    <3>1. Holders = {} /\ Holders' = {o}
      BY <2>1 DEF Inv, TypeOK, HeldIsFresh, ReplayExclusive, Available, Holders
    <3>2. ClaimPhase \in {"free", "lost"} /\ ClaimPhase' = "held"
      BY <2>1, <3>1, <1>00 DEF Available, Update, PhaseOfStatus
    <3>3. Claim!Take(o)
      BY <3>1, <3>2 DEF Claim!Take, Claim!Open, Holders
    <3> QED BY <3>3 DEF Claim!Next
  <2>2. CASE Unchanged /\ Goto(o, "idle")
    <3>1. Quiet
      BY <1>1, <2>2, Invisible DEF ClaimForReplay, Unchanged, Inv, TypeOK
    <3> QED BY <3>1, <1>0
  <2> QED BY <1>1, <2>1, <2>2 DEF ClaimForReplay
<1>2. ASSUME NEW o \in Operators, Holding(o), ~Holding(o)',
             \A p \in Operators : p # o => pc'[p] = pc[p],
             status' \in {"PENDING_REVIEW", "REPLAYED"} \/ UNCHANGED status
      PROVE  [Claim!Next]_(Claim!vars)
  <2>1. Holders = {o} /\ Holders' = {} /\ status = "REPLAYING"
    BY <1>2 DEF Inv, ReplayExclusive, Holders
  <2>2. ClaimPhase' \in {"free", "finished", "lost"}
    BY <1>2, <2>1, <1>00 DEF PhaseOfStatus
  <2>3. Claim!Leave(o)
    BY <2>1, <2>2 DEF Claim!Leave, Holders
  <2> QED BY <2>3 DEF Claim!Next
<1>3. ASSUME NEW o \in Operators, MarkAbandoned(o)
      PROVE  [Claim!Next]_(Claim!vars)
  <2>1. CASE Available(o \in stale) /\ Update("ABANDONED") /\ Goto(o, "log_abandon")
    <3>1. Holders = {} /\ Holders' = {}
      BY <2>1 DEF Inv, TypeOK, HeldIsFresh, ReplayExclusive, Available, Holders
    <3>2. ClaimPhase \in {"free", "lost"} /\ ClaimPhase' = "closed"
      BY <2>1, <3>1, <1>00 DEF Available, Update, PhaseOfStatus
    <3>3. Claim!Close
      BY <3>1, <3>2 DEF Claim!Close, Claim!Open, Holders
    <3> QED BY <3>3 DEF Claim!Next
  <2>2. CASE Unchanged /\ Goto(o, "idle")
    <3>1. Quiet
      BY <1>3, <2>2, Invisible DEF MarkAbandoned, Unchanged, Inv, TypeOK
    <3> QED BY <3>1, <1>0
  <2> QED BY <1>3, <2>1, <2>2 DEF MarkAbandoned
<1>4. ASSUME NEW o \in Operators, ReleaseClaim(o) \/ MarkReplayed(o)
      PROVE  [Claim!Next]_(Claim!vars)
  BY <1>2, <1>4 DEF ReleaseClaim, MarkReplayed, Update, Inv, TypeOK
<1>5. ASSUME NEW o \in Operators, DatabaseError(o) \/ Crash(o)
      PROVE  [Claim!Next]_(Claim!vars)
  <2>1. CASE Holding(o)
    BY <1>2, <1>5, <2>1 DEF DatabaseError, Crash, Unchanged, Inv, TypeOK
  <2>2. CASE ~Holding(o)
    BY <1>0, <1>5, <2>2, Invisible DEF DatabaseError, Crash, Unchanged, Inv, TypeOK
  <2> QED BY <2>1, <2>2
<1>6. ASSUME NEW o \in Operators,
             \/ Replay(o) \/ Abandon(o) \/ LoadClaimed(o) \/ Submit(o)
             \/ IncrementAttempts(o) \/ AppendAudit(o)
      PROVE  [Claim!Next]_(Claim!vars)
  BY <1>0, <1>6, Invisible
  DEF Replay, Abandon, Check, LoadClaimed, Submit, IncrementAttempts,
      AppendAudit, Unchanged, Update, Inv, TypeOK
<1>7. CASE Age \/ UNCHANGED vars
  BY <1>0, <1>7, Invisible DEF Age, vars
<1> QED
  BY <1>1, <1>3, <1>4, <1>5, <1>6, <1>7 DEF Next, Step

(* The four conditional and unconditional updates of the repository, with  *)
(* failing calls and crashes, implement the exclusive claim.               *)
THEOREM DeadLettersImplementClaim ==
    ASSUME ~SlowCalls PROVE Spec => ImplementsClaim
<1>1. Init => Claim!Init
  BY DEF Init, Claim!Init, Holding, ClaimPhase
<1>2. Inv /\ Inv' /\ [Next]_vars => [Claim!Next]_(Claim!vars)
  BY StepIsClaimStep
<1> QED
  BY <1>1, <1>2, Invariance, PTL DEF Spec, ImplementsClaim, Claim!Spec
=============================================================================
