----------------------------- MODULE DeadLetters -----------------------------
(***************************************************************************)
(* One FailedTransaction row under DlqService: operators of DlqController  *)
(* replay or abandon it concurrently.  updatedAt is kept as its age: `old' *)
(* says it lies more than REPLAYING_STALE_THRESHOLD_MS back.  Each call    *)
(* computes its own threshold when it checks the row; `stale' holds the    *)
(* calls whose threshold is not before the row's updatedAt.                *)
(***************************************************************************)
EXTENDS Naturals

CONSTANTS Operators,      \* calls in flight at once
          Faulty,         \* database calls fail, processes die
          SlowCalls       \* a replay may take longer than the threshold

ASSUME DeadLetterAssumption == Faulty \in BOOLEAN /\ SlowCalls \in BOOLEAN

VARIABLES status,         \* FailedTransaction.status
          replayable,     \* a submitAutoRelease whose escrow is mapped
          old, stale,     \* the age of updatedAt
          pc,             \* what each operator's call is doing
          audit           \* audit entries about the row, by operator

vars == <<status, replayable, old, stale, pc, audit>>

Statuses == {"PENDING_REVIEW", "REPLAYING", "REPLAYED", "ABANDONED"}
Final    == {"REPLAYED", "ABANDONED"}

PCs == {"idle", "claim", "load", "submit", "release", "count", "mark", "abandon",
        "log_replay", "log_abandon"}

AuditEntries == Operators \X Final

(* create: the poller or a failed submission enqueues the row.             *)
Init ==
    /\ status = "PENDING_REVIEW"
    /\ replayable \in BOOLEAN
    /\ old = FALSE
    /\ stale = {}
    /\ pc = [o \in Operators |-> "idle"]
    /\ audit = {}

Goto(o, next) == pc' = [pc EXCEPT ![o] = next]

(* Every update of the row sets updatedAt.                                 *)
Update(s) ==
    /\ status' = s
    /\ old' = FALSE
    /\ stale' = {}

Unchanged == UNCHANGED <<status, old, stale>>

\* Mutant: a claimed row is open to everyone.
ReplayingIsOpen(isOld) == status \in {"PENDING_REVIEW", "REPLAYING"}

(* PENDING_REVIEW, or REPLAYING since before the caller's threshold: the   *)
(* check of the services and the condition of the two updateMany.          *)
Available(isOld) == status = "PENDING_REVIEW" \/ (status = "REPLAYING" /\ isOld)

(* replay and abandon read the row and refuse a status that is not open.   *)
Check(o, next) ==
    /\ pc[o] = "idle"
    /\ Available(old)
    /\ stale' = IF old THEN stale \cup {o} ELSE stale \ {o}
    /\ Goto(o, next)
    /\ UNCHANGED <<status, replayable, old, audit>>

Replay(o)  == Check(o, "claim")
Abandon(o) == Check(o, "abandon")

(* One conditional updateMany; an operator who comes too late gets a 409.  *)
ClaimForReplay(o) ==
    /\ pc[o] = "claim"
    /\ \/ Available(o \in stale) /\ Update("REPLAYING") /\ Goto(o, "load")
       \/ ~Available(o \in stale) /\ Unchanged /\ Goto(o, "idle")
    /\ UNCHANGED <<replayable, audit>>

\* Mutant: the audit entry is written whether or not the row was updated.
AuditWithoutUpdate(o) ==
    /\ pc[o] = "abandon"
    /\ \/ Available(o \in stale) /\ Update("ABANDONED")
       \/ ~Available(o \in stale) /\ Unchanged
    /\ Goto(o, "log_abandon")
    /\ UNCHANGED <<replayable, audit>>

\* Mutant: the update's condition on the status is missing.
AbandonAnyRow(o) ==
    /\ pc[o] = "abandon"
    /\ Update("ABANDONED")
    /\ Goto(o, "log_abandon")
    /\ UNCHANGED <<replayable, audit>>

MarkAbandoned(o) ==
    /\ pc[o] = "abandon"
    /\ \/ Available(o \in stale) /\ Update("ABANDONED") /\ Goto(o, "log_abandon")
       \/ ~Available(o \in stale) /\ Unchanged /\ Goto(o, "idle")
    /\ UNCHANGED <<replayable, audit>>

(* claimForReplay returns the row it claimed; only a mapped auto-release   *)
(* can be replayed.                                                        *)
LoadClaimed(o) ==
    /\ pc[o] = "load"
    /\ Goto(o, IF replayable THEN "submit" ELSE "release")
    /\ Unchanged /\ UNCHANGED <<replayable, audit>>

(* submitAutoRelease returns a hash or throws.                             *)
Submit(o) ==
    /\ pc[o] = "submit"
    /\ Goto(o, "mark") \/ Goto(o, "release")
    /\ Unchanged /\ UNCHANGED <<replayable, audit>>

(* The catch block: two updates, neither of them conditional.              *)
ReleaseClaim(o) ==
    /\ pc[o] = "release"
    /\ Update("PENDING_REVIEW")
    /\ Goto(o, "count")
    /\ UNCHANGED <<replayable, audit>>

IncrementAttempts(o) ==
    /\ pc[o] = "count"
    /\ Update(status)
    /\ Goto(o, "idle")
    /\ UNCHANGED <<replayable, audit>>

MarkReplayed(o) ==
    /\ pc[o] = "mark"
    /\ Update("REPLAYED")
    /\ Goto(o, "log_replay")
    /\ UNCHANGED <<replayable, audit>>

(* DlqController logs the outcome once the service has returned; a failing *)
(* append fails the request, not the change.                               *)
AppendAudit(o) ==
    /\ \/ pc[o] = "log_replay" /\ audit' = audit \cup {<<o, "REPLAYED">>}
       \/ pc[o] = "log_abandon" /\ audit' = audit \cup {<<o, "ABANDONED">>}
    /\ Goto(o, "idle")
    /\ Unchanged /\ UNCHANGED replayable

(* A database call outside the replay callback throws and ends the call;   *)
(* after the claim that leaves the row REPLAYING.                          *)
DatabaseError(o) ==
    /\ Faulty
    /\ pc[o] \in PCs \ {"idle", "submit"}
    /\ Goto(o, "idle")
    /\ Unchanged /\ UNCHANGED <<replayable, audit>>

Crash(o) ==
    /\ Faulty
    /\ pc[o] # "idle"
    /\ Goto(o, "idle")
    /\ Unchanged /\ UNCHANGED <<replayable, audit>>

(* An operator between a successful claim and its outcome.                 *)
Holding(o) == pc[o] \in {"load", "submit", "release", "mark"}

(* The claim on the row as its callers see it.                             *)
ClaimPhase ==
    CASE status = "REPLAYED" -> "finished"
      [] status = "ABANDONED" -> "closed"
      [] status = "REPLAYING" ->
             IF \E o \in Operators : Holding(o) THEN "held" ELSE "lost"
      [] OTHER -> "free"

(* Five minutes pass without an update.  Confirmation is given up after 30 *)
(* seconds, but the other RPC calls of a replay have no timeout: whether a *)
(* live replay can be overtaken is the constant SlowCalls.                 *)
Age ==
    /\ ~old
    /\ SlowCalls \/ \A o \in Operators : ~Holding(o)
    /\ old' = TRUE
    /\ UNCHANGED <<status, replayable, stale, pc, audit>>

Step(o) ==
    \/ ClaimForReplay(o) \/ LoadClaimed(o) \/ Submit(o) \/ ReleaseClaim(o)
    \/ IncrementAttempts(o) \/ MarkReplayed(o) \/ MarkAbandoned(o)
    \/ AppendAudit(o)

Next ==
    \/ \E o \in Operators :
           Replay(o) \/ Abandon(o) \/ Step(o) \/ DatabaseError(o) \/ Crash(o)
    \/ Age

Spec == Init /\ [][Next]_vars
-----------------------------------------------------------------------------
(* status is one of FailedTransactionStatus, although the column is text.  *)
TypeOK ==
    /\ status \in Statuses
    /\ replayable \in BOOLEAN
    /\ old \in BOOLEAN
    /\ stale \subseteq Operators
    /\ pc \in [Operators -> PCs]
    /\ audit \subseteq AuditEntries

(* "Claims the record atomically before replay to prevent concurrent       *)
(* submissions to the chain" (issues #952, #1050): at most one operator is *)
(* replaying, also when a claim left by a crash or a failed update was     *)
(* taken over.                                                             *)
ReplayExclusive ==
    \A o, p \in Operators :
        Holding(o) => status = "REPLAYING" /\ (Holding(p) => o = p)

(* A replayed or abandoned row stays so: no release, count or claim that   *)
(* was under way reopens it (issues #951, #952).                           *)
FinalStatus == [][(status \in Final) => (status' = status)]_vars

(* The audit trail tells what became of the row (issue #953): an entry     *)
(* names the row's final status, and at most one operator has written one. *)
AuditTruthful ==
    /\ \A e \in audit : e[2] = status
    /\ \A d, e \in audit : d = e

Claim == INSTANCE ExclusiveClaim
         WITH Claimants <- Operators,
              holder <- {o \in Operators : Holding(o)},
              phase <- ClaimPhase

(* claimForReplay, releaseClaim, markReplayed and markAbandoned together   *)
(* are the exclusive claim of ExclusiveClaim, also when replays die, their *)
(* updates fail or their claim is taken over.                              *)
ImplementsClaim == Claim!Spec
=============================================================================
