------------------------ MODULE ContractCalls_proofs ------------------------
(***************************************************************************)
(* Contract calls for any number of calls, retries and failures.           *)
(***************************************************************************)
EXTENDS ContractCalls, TLAPS

(* The ledger holds, or may still apply, a transaction of the call.        *)
Sent(c) == (\E i \in 1..Sequence : applied[i].tx.by = c)
           \/ (\E tx \in pooled : tx.by = c)

(* A call that can still send has sent nothing yet: this is what makes the *)
(* retry of a sequence error safe.                                         *)
UnsentBeforeSend ==
    \A c \in Calls : call[c].at \in {"idle", "build", "send"} => ~Sent(c)

OnePooled == \A s, t \in pooled : s = t

Inv == CallTypeOK /\ OnePooled /\ UnsentBeforeSend /\ SubmittedOnce

(* A step of one call that sends nothing.                                  *)
LEMMA QuietStepKeepsInv ==
    ASSUME Inv, NEW c \in Calls, UNCHANGED <<applied, pooled, api>>,
           NEW r \in [at : CallStates, try : 0..MaxRetries, seq : Nat],
           call' = [call EXCEPT ![c] = r],
           r.at \in {"idle", "build", "send"} =>
               call[c].at \in {"idle", "build", "send"}
    PROVE  Inv'
<1>1. CallTypeOK' /\ OnePooled'
  BY DEF Inv, CallTypeOK, OnePooled
<1>2. \A d \in Calls : Sent(d)' <=> Sent(d)
  BY DEF Sent, Sequence
<1>3. UnsentBeforeSend'
  BY <1>2 DEF Inv, UnsentBeforeSend, CallTypeOK
<1>4. SubmittedOnce'
  BY DEF Inv, SubmittedOnce, Sequence
<1> QED BY <1>1, <1>3, <1>4 DEF Inv

(* The server takes the transaction of a call that then goes on to         *)
(* confirm, or throws because the answer was lost.                         *)
LEMMA AcceptingKeepsInv ==
    ASSUME Inv, NEW c \in Calls, call[c].at = "send", Accepted(c),
           UNCHANGED <<applied, api>>,
           NEW r \in [at : CallStates, try : 0..MaxRetries, seq : Nat],
           call' = [call EXCEPT ![c] = r], r.at \in {"confirm", "threw"}
    PROVE  Inv'
<1>1. pooled' = {Own(c)} /\ Own(c) \in Tx /\ Own(c).by = c /\ ~Sent(c)
  BY DEF Accepted, Inv, UnsentBeforeSend, Own, Tx, CallTypeOK
<1>2. CallTypeOK' /\ OnePooled'
  BY <1>1 DEF Inv, CallTypeOK, OnePooled
<1>3. ASSUME NEW d \in Calls, d # c PROVE Sent(d)' => Sent(d)
  BY <1>1, <1>3 DEF Sent, Sequence
<1>4. UnsentBeforeSend'
  BY <1>3 DEF Inv, UnsentBeforeSend, CallTypeOK
<1>5. SubmittedOnce'
  BY <1>1 DEF Inv, SubmittedOnce, Sent, Sequence
<1> QED BY <1>2, <1>4, <1>5 DEF Inv

(* The ledger appends the pooled transaction, which was its call's only.   *)
LEMMA ApplyKeepsInv ==
    ASSUME Inv, NEW ok \in BOOLEAN, Apply(ok)
    PROVE  Inv'
<1>1. PICK tx \in pooled : applied' = Append(applied, [tx |-> tx, ok |-> ok])
  BY DEF Apply
<1>2. tx \in Tx /\ pooled' = {} /\ UNCHANGED <<api, call>>
  BY DEF Apply, Inv, CallTypeOK
<1>3. CallTypeOK' /\ OnePooled'
  BY <1>1, <1>2 DEF Inv, CallTypeOK, OnePooled
<1>4. /\ Sequence' = Sequence + 1 /\ Sequence \in Nat
      /\ applied'[Sequence + 1].tx = tx
      /\ \A i \in 1..Sequence : applied'[i] = applied[i]
  BY <1>1 DEF Inv, CallTypeOK, Sequence
<1>5. ASSUME NEW d \in Calls, Sent(d)' PROVE Sent(d)
  <2>1. PICK i \in 1..(Sequence + 1) : applied'[i].tx.by = d
    BY <1>2, <1>4, <1>5 DEF Sent
  <2>2. CASE i \in 1..Sequence
    BY <1>4, <2>1, <2>2 DEF Sent
  <2>3. CASE i = Sequence + 1
    BY <1>1, <1>4, <2>1, <2>3 DEF Sent
  <2> QED BY <1>4, <2>1, <2>2, <2>3
<1>6. UnsentBeforeSend'
  BY <1>2, <1>5 DEF Inv, UnsentBeforeSend
<1>7. \A i \in 1..Sequence : applied[i].tx.by # tx.by
  BY <1>1, <1>2 DEF Inv, SubmittedOnce, Tx
<1>8. SubmittedOnce'
  BY <1>2, <1>4, <1>7 DEF Inv, SubmittedOnce
<1> QED BY <1>3, <1>6, <1>8 DEF Inv

(* A transaction that expires was never applied.                           *)
LEMMA ExpireKeepsInv ==
    ASSUME Inv, Expire
    PROVE  Inv'
<1>1. CallTypeOK' /\ OnePooled'
  BY DEF Expire, Inv, CallTypeOK, OnePooled
<1>2. \A d \in Calls : Sent(d)' => Sent(d)
  BY DEF Expire, Sent, Sequence
<1>3. UnsentBeforeSend'
  BY <1>2 DEF Expire, Inv, UnsentBeforeSend
<1>4. SubmittedOnce'
  BY DEF Expire, Inv, SubmittedOnce, Sequence
<1> QED BY <1>1, <1>3, <1>4 DEF Inv

(* Entering a state keeps the attempt and forgets the built transaction.   *)
LEMMA EnterRecord ==
    ASSUME CallTypeOK, NEW c \in Calls, NEW at \in CallStates, Enter(c, at)
    PROVE  \E r \in [at : CallStates, try : 0..MaxRetries, seq : Nat] :
               call' = [call EXCEPT ![c] = r] /\ r.at = at /\ r.try = call[c].try
<1>1. [at |-> at, try |-> call[c].try, seq |-> 0]
          \in [at : CallStates, try : 0..MaxRetries, seq : Nat]
  BY DEF CallTypeOK
<1>2. call' = [call EXCEPT ![c] = [at |-> at, try |-> call[c].try, seq |-> 0]]
  BY DEF Enter, CallTypeOK
<1> QED BY <1>1, <1>2

(* No step of any call, of the server or of the ledger breaks Inv.         *)
LEMMA StepKeepsInv ==
    ASSUME MaxRetries \in Nat, Inv, [CallNext]_callVars
    PROVE  Inv'
<1> DEFINE Records == [at : CallStates, try : 0..MaxRetries, seq : Nat]
<1>0. CallTypeOK /\ \A c \in Calls : call[c] \in Records
  BY DEF Inv, CallTypeOK
<1>1. ASSUME NEW c \in Calls, NEW at \in CallStates, Enter(c, at),
             UNCHANGED <<applied, pooled, api>>,
             at \in {"idle", "build", "send"} =>
                 call[c].at \in {"idle", "build", "send"}
      PROVE  Inv'
  BY <1>0, <1>1, EnterRecord, QuietStepKeepsInv
<1>2. ASSUME NEW c \in Calls, Invoke(c) PROVE Inv'
  BY <1>1, <1>2 DEF Invoke, CallStates
<1>3. ASSUME NEW c \in Calls, call[c].at \in {"build", "send"}, SequenceError(c),
             UNCHANGED <<applied, pooled, api>>
      PROVE  Inv'
  <2>1. CASE Enter(c, "threw")
    BY <1>1, <1>3, <2>1 DEF CallStates
  <2>2. CASE /\ call[c].try < MaxRetries
             /\ call' = [call EXCEPT ![c] = [at |-> "build", try |-> @.try + 1, seq |-> 0]]
    <3>1. [at |-> "build", try |-> call[c].try + 1, seq |-> 0] \in Records
      BY <1>0, <2>2 DEF CallStates
    <3> QED BY <1>3, <2>2, <3>1, QuietStepKeepsInv
  <2> QED BY <1>3, <2>1, <2>2 DEF SequenceError
<1>4. ASSUME NEW c \in Calls, Build(c) PROVE Inv'
  <2>1. CASE Enter(c, "threw")
    BY <1>1, <1>4, <2>1 DEF Build, FetchAccount, CallStates
  <2>2. CASE call' = [call EXCEPT ![c] = [at |-> "send", try |-> @.try, seq |-> Sequence]]
    <3>1. [at |-> "send", try |-> call[c].try, seq |-> Sequence] \in Records
      BY <1>0 DEF CallStates, CallTypeOK, Sequence
    <3> QED BY <1>4, <2>2, <3>1, QuietStepKeepsInv DEF Build, FetchAccount
  <2> QED BY <1>3, <1>4, <2>1, <2>2 DEF Build, FetchAccount
<1>5. ASSUME NEW c \in Calls, NEW at \in {"confirm", "threw"}, call[c].at = "send",
             Accepted(c), Enter(c, at), UNCHANGED <<applied, api>>
      PROVE  Inv'
  BY <1>0, <1>5, EnterRecord, AcceptingKeepsInv DEF CallStates
<1>6. ASSUME NEW c \in Calls, Send(c) PROVE Inv'
  BY <1>1, <1>3, <1>5, <1>6 DEF Send, Refused, CallStates
<1>7. ASSUME NEW c \in Calls, Confirm(c) PROVE Inv'
  BY <1>1, <1>7 DEF Confirm, CallStates
<1>8. ASSUME NEW c \in Calls, LoseAnswer(c) PROVE Inv'
  BY <1>1, <1>5, <1>8 DEF LoseAnswer, Refused, CallStates
<1>9. ASSUME NEW c \in Calls, Die(c) PROVE Inv'
  BY <1>1, <1>9 DEF Die, CallStates
<1>10. CASE Ledger
  BY <1>10, ApplyKeepsInv, ExpireKeepsInv DEF Ledger
<1>11. CASE UNCHANGED callVars
  BY <1>11 DEF callVars, Inv, CallTypeOK, OnePooled, UnsentBeforeSend, Sent,
              SubmittedOnce, Sequence
<1> QED
  BY <1>2, <1>4, <1>6, <1>7, <1>8, <1>9, <1>10, <1>11 DEF CallNext, Proceed

(* Nothing is sent at first.                                               *)
LEMMA InitHasInv == ASSUME MaxRetries \in Nat PROVE CallInit => Inv
  BY DEF CallInit, Inv, CallTypeOK, OnePooled, UnsentBeforeSend, Sent,
         SubmittedOnce, Sequence, CallStates

(* The inductive invariant holds throughout.                               *)
LEMMA Invariance == ASSUME MaxRetries \in Nat PROVE CallSpec => []Inv
<1>1. Inv /\ [CallNext]_callVars => Inv'
  BY StepKeepsInv
<1> QED
  BY <1>1, InitHasInv, PTL DEF CallSpec

(* Retrying a refused transaction never gives the ledger two transactions  *)
(* of one call, for any number of calls sharing the account and retries.   *)
THEOREM SubmissionIsSingle ==
    ASSUME MaxRetries \in Nat PROVE CallSpec => []SubmittedOnce
<1>1. Inv => SubmittedOnce
  BY DEF Inv
<1> QED
  BY <1>1, Invariance, PTL
=============================================================================
