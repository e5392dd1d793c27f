---------------------------- MODULE ReplayOnChain ----------------------------
(***************************************************************************)
(* DlqController.replay as a whole: the replay callback of a dead letter   *)
(* is ContractService.submitAutoRelease, which shares the source account   *)
(* with the other contract calls.  An operator replays at most once here.  *)
(***************************************************************************)
EXTENDS DeadLetters, Sequences

CONSTANTS Workers,        \* single-attempt calls: the same signer signs for them
          MaxRetries, Apis

ASSUME WorkersAreOthers == Operators \cap Workers = {}

VARIABLES applied, pooled, api, call

Chain == INSTANCE ContractCalls
         WITH Calls <- Operators \cup Workers, Retrying <- Operators,
              CallsFail <- Faulty

chainVars == <<applied, pooled, api, call>>
allVars   == <<vars, chainVars>>

ChainInit == Init /\ Chain!CallInit

(* The callback: findContractEscrowId gave an id, the contract is called.  *)
CallContract(o) ==
    /\ pc[o] = "submit"
    /\ Chain!Invoke(o) \/ Chain!Proceed(o)
    /\ UNCHANGED vars

(* await replay(claimed): the hash, or the catch block.                    *)
ContractAnswered(o) ==
    /\ pc[o] = "submit"
    /\ \/ call[o].at = "returned" /\ Goto(o, "mark")
       \/ call[o].at = "threw" /\ Goto(o, "release")
    /\ Unchanged /\ UNCHANGED <<replayable, audit>>
    /\ UNCHANGED chainVars

AnswerLost(o) ==
    /\ Chain!LoseAnswer(o)
    /\ UNCHANGED vars

(* A process dies with the call it is making.                              *)
CrashWithCall(o) ==
    /\ Crash(o)
    /\ IF call[o].at \in Chain!Ended \cup {"idle"}
       THEN UNCHANGED chainVars
       ELSE Chain!Die(o)

Records(o) ==
    \/ Abandon(o) \/ ClaimForReplay(o) \/ LoadClaimed(o) \/ ReleaseClaim(o)
    \/ IncrementAttempts(o) \/ MarkReplayed(o) \/ MarkAbandoned(o)
    \/ AppendAudit(o) \/ DatabaseError(o)
    \/ call[o].at = "idle" /\ Replay(o)

WorkerCall(w) ==
    /\ Chain!Invoke(w) \/ Chain!Proceed(w)
    /\ UNCHANGED vars

ChainNext ==
    \/ \E o \in Operators :
           \/ Records(o) /\ UNCHANGED chainVars
           \/ CallContract(o) \/ ContractAnswered(o) \/ AnswerLost(o)
           \/ CrashWithCall(o)
    \/ \E w \in Workers : WorkerCall(w)
    \/ Chain!Ledger /\ UNCHANGED vars
    \/ Age /\ UNCHANGED chainVars

(* A started call runs on: no step of it waits for another party.          *)
Continue(o) ==
    \/ CallContract(o) \/ ContractAnswered(o)
    \/ (LoadClaimed(o) \/ ReleaseClaim(o) \/ MarkReplayed(o)) /\ UNCHANGED chainVars

ChainSpec ==
    /\ ChainInit
    /\ [][ChainNext]_allVars
    /\ \A o \in Operators : WF_allVars(Continue(o))
-----------------------------------------------------------------------------
(* The composition takes only the steps that DeadLetters and ContractCalls *)
(* take on their own, so what is proved of each holds here.                *)
ImplementsParts == Spec /\ Chain!CallSpec

(* submitAutoRelease never puts two transactions of one call before the    *)
(* ledger, whatever its retries do while other calls use the account.  A   *)
(* later replay of the same dead letter is another call.                   *)
SubmittedOnce == Chain!SubmittedOnce

(* The operator's contract call is under way.                              *)
InFlight(o) == call[o].at \in {"build", "send", "confirm"}

(* "Claims the record atomically before replay to prevent concurrent       *)
(* submissions to the chain" (DlqService.replay): while the release of one *)
(* operator is being built, sent or confirmed, no other operator's is, and *)
(* the row is REPLAYING, so that nobody abandons a release under way.      *)
SubmittedUnderClaim ==
    \A o \in Operators :
        InFlight(o) => /\ status = "REPLAYING"
                       /\ \A p \in Operators : InFlight(p) => p = o

(* "no way to confirm means no success can be reported" (comment of        *)
(* pollTransactionStatus): a record is marked REPLAYED for a release that  *)
(* the ledger has applied with success.                                    *)
ReplayedIsReleased ==
    status = "REPLAYED" => \E i \in DOMAIN applied :
                               applied[i].ok /\ applied[i].tx.by \in Operators

(* A replay that has claimed the row gives an answer: the retries and the  *)
(* confirmation are bounded.                                               *)
ReplayEnds == \A o \in Operators : Holding(o) ~> ~Holding(o)
=============================================================================
