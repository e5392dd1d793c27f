---------------------------- MODULE ContractCalls ----------------------------
(***************************************************************************)
(* ContractService: calls that share one source account build a            *)
(* transaction on the account's sequence number, simulate, send and        *)
(* confirm it.  The RPC server and the ledger are external.                *)
(***************************************************************************)
EXTENDS Naturals, Sequences

CONSTANTS Calls,          \* calls of the service, each made once
          Retrying,       \* those made by submitAutoRelease
          MaxRetries,     \* DEFAULT_AUTO_RELEASE_MAX_RETRIES
          Apis,           \* how the servers of this instance confirm
          CallsFail       \* RPC calls may throw

VARIABLES applied,        \* the account's transactions in the ledger, in order
          pooled,         \* the one waiting to be applied, if any
          api,            \* what pollTransactionStatus finds on the server
          call            \* the state of each call

callVars == <<applied, pooled, api, call>>

CallStates == {"idle", "build", "send", "confirm", "returned", "threw", "dead"}
Ended      == {"returned", "threw", "dead"}

Tx == [by : Calls, try : Nat]

CallInit ==
    /\ applied = << >>
    /\ pooled = {}
    /\ api \in Apis
    /\ call = [c \in Calls |-> [at |-> "idle", try |-> 0, seq |-> 0]]

(* The account's sequence number: one per transaction in the ledger.       *)
Sequence == Len(applied)

Enter(c, at) == call' = [call EXCEPT ![c] = [at |-> at, try |-> @.try, seq |-> 0]]

Own(c)    == [by |-> c, try |-> call[c].try]
Outcomes(c) == {applied[i].ok : i \in {j \in 1..Sequence : applied[j].tx = Own(c)}}

(* A public operation of the service starts invokeContract.                *)
Invoke(c) ==
    /\ call[c].at = "idle"
    /\ Enter(c, "build")
    /\ UNCHANGED <<applied, pooled, api>>

(* isSequenceError: submitAutoRelease starts over, up to maxRetries times; *)
(* every other caller gets the error.                                      *)
SequenceError(c) ==
    IF c \in Retrying /\ call[c].try < MaxRetries
    THEN call' = [call EXCEPT ![c] = [at |-> "build", try |-> @.try + 1, seq |-> 0]]
    ELSE Enter(c, "threw")

\* The account as the RPC server has it now.
FetchAccount(c) == [at |-> "send", try |-> call[c].try, seq |-> Sequence]

(* Every attempt builds on the number getAccount returns now.  A missing   *)
(* setting, a failing RPC call, simulation and preparation end the call;   *)
(* an RPC error whose text mentions the sequence counts as one.            *)
Build(c) ==
    /\ call[c].at = "build"
    /\ \/ call' = [call EXCEPT ![c] = FetchAccount(c)]
       \/ SequenceError(c)
       \/ Enter(c, "threw")
    /\ UNCHANGED <<applied, pooled, api>>

(* What sendTransaction makes of the call's transaction.  The server keeps *)
(* one transaction per account and answers TRY_AGAIN_LATER to a second.    *)
Accepted(c) == pooled = {} /\ call[c].seq = Sequence /\ pooled' = {Own(c)}
Refused     == pooled' = pooled

(* Only status ERROR is refused by the code: TRY_AGAIN_LATER goes on to    *)
(* the confirmation.  ERROR is a sequence error when its text says so, any *)
(* other one ends the call, as does an RPC call that fails.                *)
Send(c) ==
    /\ call[c].at = "send"
    /\ \/ Accepted(c) /\ Enter(c, "confirm")
       \/ pooled # {} /\ Refused /\ Enter(c, "confirm")
       \/ call[c].seq # Sequence /\ Refused /\ SequenceError(c)
       \/ Refused /\ Enter(c, "threw")
    /\ UNCHANGED <<applied, api>>

\* Mutant: the confirmation has no deadline.
NoDeadline(c) ==
    /\ call[c].at = "confirm"
    /\ \/ TRUE \in Outcomes(c) /\ Enter(c, "returned")
       \/ FALSE \in Outcomes(c) /\ Enter(c, "threw")
    /\ UNCHANGED <<applied, pooled, api>>

(* pollTransactionStatus.  The server's pollTransaction gives up with      *)
(* NOT_FOUND, which is not FAILED and returns the hash; the service's own  *)
(* loop over getTransaction throws at its deadline.                        *)
Confirm(c) ==
    /\ call[c].at = "confirm"
    /\ \/ TRUE \in Outcomes(c) /\ Enter(c, "returned")
       \/ FALSE \in Outcomes(c) /\ Enter(c, "threw")
       \/ /\ Outcomes(c) = {}
          /\ Enter(c, IF api = "pollTransaction" THEN "returned" ELSE "threw")
    /\ UNCHANGED <<applied, pooled, api>>

\* Mutant: an attempt whose answer was lost is retried.
LostIsRetried(c) ==
    /\ CallsFail
    /\ \/ call[c].at = "send" /\ Accepted(c) /\ SequenceError(c)
       \/ call[c].at = "confirm" /\ Refused /\ Enter(c, "threw")
    /\ UNCHANGED <<applied, api>>

(* An answer is lost: the call throws although its transaction is pooled.  *)
(* isSequenceError goes by the text of an error; that of a transport error *)
(* (timeout, reset, refused connection) does not mention the sequence.     *)
LoseAnswer(c) ==
    /\ CallsFail
    /\ \/ call[c].at = "send" /\ Accepted(c)
       \/ call[c].at = "confirm" /\ Refused
    /\ Enter(c, "threw")
    /\ UNCHANGED <<applied, api>>

(* The process dies; what it sent stays sent.                              *)
Die(c) ==
    /\ CallsFail
    /\ call[c].at \notin Ended \cup {"idle"}
    /\ Enter(c, "dead")
    /\ UNCHANGED <<applied, pooled, api>>

(* The ledger applies the pooled transaction, with success or without.     *)
Apply(ok) ==
    /\ \E tx \in pooled : applied' = Append(applied, [tx |-> tx, ok |-> ok])
    /\ pooled' = {}
    /\ UNCHANGED <<api, call>>

(* setTimeout(30): after its time bound the transaction is dropped.        *)
Expire ==
    /\ pooled # {}
    /\ pooled' = {}
    /\ UNCHANGED <<applied, api, call>>

Ledger == Expire \/ \E ok \in BOOLEAN : Apply(ok)

Proceed(c) == Build(c) \/ Send(c) \/ Confirm(c)

CallNext == Ledger \/ \E c \in Calls : Invoke(c) \/ Proceed(c) \/ LoseAnswer(c) \/ Die(c)

CallSpec == CallInit /\ [][CallNext]_callVars
-----------------------------------------------------------------------------
CallTypeOK ==
    /\ applied \in Seq([tx : Tx, ok : BOOLEAN])
    /\ pooled \subseteq Tx
    /\ api \in Apis
    /\ call \in [Calls -> [at : CallStates, try : 0..MaxRetries, seq : Nat]]

(* submitAutoRelease retries a sequence error only because that answer     *)
(* means the transaction was not accepted: however many attempts one call  *)
(* makes, the ledger never gets two transactions of that call.             *)
SubmittedOnce ==
    \A c \in Calls, i \in 1..Sequence :
        applied[i].tx.by = c =>
            /\ \A j \in 1..Sequence : applied[j].tx.by = c => i = j
            /\ \A tx \in pooled : tx.by # c
=============================================================================
