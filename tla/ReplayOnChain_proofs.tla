------------------------ MODULE ReplayOnChain_proofs ------------------------
(***************************************************************************)
(* The composition takes only steps of its parts, so what is proved of the *)
(* dead letter and of the contract calls holds of both together.           *)
(***************************************************************************)
EXTENDS ReplayOnChain, DeadLetters_proofs

ChainProofs == INSTANCE ContractCalls_proofs
               WITH Calls <- Operators \cup Workers, Retrying <- Operators,
                    CallsFail <- Faulty

(* Every step is a step of the dead letter and a step of the calls, or     *)
(* leaves one of them alone.                                               *)
LEMMA StepIsPartsStep ==
    ASSUME [ChainNext]_allVars
    PROVE  [Next]_vars /\ [Chain!CallNext]_(Chain!callVars)
<1> USE DEF chainVars, Chain!callVars
<1>1. ASSUME NEW o \in Operators, Records(o) /\ UNCHANGED chainVars
      PROVE  Next
  BY <1>1 DEF Records, Next, Step
<1>2. ASSUME NEW o \in Operators, CallContract(o) \/ AnswerLost(o)
      PROVE  UNCHANGED vars /\ Chain!CallNext
  BY <1>2 DEF CallContract, AnswerLost, Chain!CallNext
<1>3. ASSUME NEW o \in Operators, ContractAnswered(o)
      PROVE  Next /\ UNCHANGED chainVars
  <2>1. Submit(o)
    BY <1>3 DEF ContractAnswered, Submit
  <2> QED BY <1>3, <2>1 DEF ContractAnswered, Next, Step
<1>4. ASSUME NEW o \in Operators, CrashWithCall(o)
      PROVE  Next /\ [Chain!CallNext]_(Chain!callVars)
  BY <1>4 DEF CrashWithCall, Next, Chain!CallNext
<1>5. ASSUME NEW w \in Workers, WorkerCall(w)
      PROVE  UNCHANGED vars /\ Chain!CallNext
  BY <1>5 DEF WorkerCall, Chain!CallNext
<1>6. CASE Chain!Ledger /\ UNCHANGED vars
  BY <1>6 DEF Chain!CallNext
<1>7. CASE Age /\ UNCHANGED chainVars
  BY <1>7 DEF Next
<1>8. CASE UNCHANGED allVars
  BY <1>8 DEF allVars
<1> QED
  BY <1>1, <1>2, <1>3, <1>4, <1>5, <1>6, <1>7, <1>8 DEF ChainNext

(* DlqController's replay, made of DlqService and ContractService, behaves *)
(* as each of them does on its own.                                        *)
THEOREM CompositionImplementsParts == ChainSpec => ImplementsParts
<1>1. ChainInit => Init /\ Chain!CallInit
  BY DEF ChainInit
<1>2. [ChainNext]_allVars => [Next]_vars /\ [Chain!CallNext]_(Chain!callVars)
  BY SMTT(30), StepIsPartsStep
<1> QED
  BY <1>1, <1>2, PTL DEF ChainSpec, ImplementsParts, Spec, Chain!CallSpec

(* The two instances of ContractCalls are the same specification.          *)
LEMMA SameCalls ==
    /\ Chain!CallInit => ChainProofs!CallInit
    /\ [Chain!CallNext]_(Chain!callVars) => [ChainProofs!CallNext]_(ChainProofs!callVars)
  BY DEF
      Chain!CallInit, ChainProofs!CallInit, Chain!CallNext,
      ChainProofs!CallNext, Chain!callVars, ChainProofs!callVars,
      Chain!Ledger, ChainProofs!Ledger, Chain!Apply, ChainProofs!Apply,
      Chain!Expire, ChainProofs!Expire, Chain!Invoke, ChainProofs!Invoke,
      Chain!Proceed, ChainProofs!Proceed, Chain!Build, ChainProofs!Build, Chain!FetchAccount, ChainProofs!FetchAccount,
      Chain!Send, ChainProofs!Send, Chain!Confirm, ChainProofs!Confirm,
      Chain!LoseAnswer, ChainProofs!LoseAnswer, Chain!Die, ChainProofs!Die,
      Chain!Enter, ChainProofs!Enter, Chain!SequenceError,
      ChainProofs!SequenceError, Chain!Accepted, ChainProofs!Accepted,
      Chain!Refused, ChainProofs!Refused, Chain!Own, ChainProofs!Own,
      Chain!Outcomes, ChainProofs!Outcomes, Chain!Sequence,
      ChainProofs!Sequence, Chain!Ended, ChainProofs!Ended

(* An operator whose contract call is under way awaits it.                 *)
CallsAwaited ==
    /\ DOMAIN call = Operators \cup Workers
    /\ \A o \in Operators : InFlight(o) => pc[o] = "submit"

(* A step of the calls of one party touches no other call.                 *)
LEMMA OtherCallsKept ==
    ASSUME CallsAwaited, NEW c \in Operators \cup Workers,
           Chain!Invoke(c) \/ Chain!Proceed(c) \/ Chain!LoseAnswer(c) \/ Chain!Die(c)
    PROVE  /\ DOMAIN call' = Operators \cup Workers
           /\ \A d \in (Operators \cup Workers) \ {c} : call'[d] = call[d]
<1>1. \E r : call' = [call EXCEPT ![c] = r]
  BY DEF Chain!Invoke, Chain!Proceed, Chain!Build, Chain!FetchAccount, Chain!Send,
         Chain!Confirm, Chain!LoseAnswer, Chain!Die, Chain!SequenceError, Chain!Enter
<1> QED BY <1>1 DEF CallsAwaited

(* A call starts when its operator awaits it, and is over, by an answer or *)
(* with its process, when the operator goes on.                            *)
LEMMA StepKeepsAwaited ==
    ASSUME Inv, CallsAwaited, [ChainNext]_allVars
    PROVE  CallsAwaited'
<1> USE DEF Goto, Inv, TypeOK, CallsAwaited, InFlight
<1>1. ASSUME NEW o \in Operators, Records(o), UNCHANGED chainVars PROVE CallsAwaited'
  <2>1. pc[o] # "submit" /\ \E next : Goto(o, next)
    BY <1>1 DEF Records, Abandon, Replay, Check, ClaimForReplay, LoadClaimed,
                ReleaseClaim, IncrementAttempts, MarkReplayed, MarkAbandoned,
                AppendAudit, DatabaseError
  <2>2. call' = call
    BY <1>1 DEF chainVars
  <2> QED BY <2>1, <2>2
<1>2. ASSUME NEW o \in Operators, CallContract(o) PROVE CallsAwaited'
  <2>1. pc[o] = "submit" /\ pc' = pc
    BY <1>2 DEF CallContract, vars
  <2>2. /\ DOMAIN call' = Operators \cup Workers
        /\ \A d \in (Operators \cup Workers) \ {o} : call'[d] = call[d]
    BY <1>2, OtherCallsKept DEF CallContract
  <2> QED BY <2>1, <2>2
<1>3. ASSUME NEW o \in Operators, ContractAnswered(o) PROVE CallsAwaited'
  <2>1. call[o].at \in {"returned", "threw"} /\ \E next : Goto(o, next)
    BY <1>3 DEF ContractAnswered
  <2>2. call' = call
    BY <1>3 DEF ContractAnswered, chainVars
  <2> QED BY <2>1, <2>2
<1>4. ASSUME NEW o \in Operators, AnswerLost(o) PROVE CallsAwaited'
  <2>1. InFlight(o) /\ pc' = pc
    BY <1>4 DEF AnswerLost, vars, Chain!LoseAnswer
  <2>2. /\ DOMAIN call' = Operators \cup Workers
        /\ \A d \in (Operators \cup Workers) \ {o} : call'[d] = call[d]
    BY <1>4, OtherCallsKept DEF AnswerLost
  <2> QED BY <2>1, <2>2
<1>5. ASSUME NEW o \in Operators, CrashWithCall(o) PROVE CallsAwaited'
  <2>1. Goto(o, "idle")
    BY <1>5 DEF CrashWithCall, Crash
  <2>2. CASE call[o].at \in Chain!Ended \cup {"idle"} /\ call' = call
    BY <2>1, <2>2 DEF Chain!Ended
  <2>3. CASE Chain!Die(o)
    <3>1. call'[o].at = "dead"
      BY <2>3 DEF Chain!Die, Chain!Enter
    <3>2. /\ DOMAIN call' = Operators \cup Workers
          /\ \A d \in (Operators \cup Workers) \ {o} : call'[d] = call[d]
      BY <2>3, OtherCallsKept
    <3> QED BY <2>1, <3>1, <3>2
  <2> QED BY <1>5, <2>2, <2>3 DEF CrashWithCall, chainVars
<1>6. ASSUME NEW w \in Workers, WorkerCall(w) PROVE CallsAwaited'
  <2>1. /\ DOMAIN call' = Operators \cup Workers
        /\ \A d \in (Operators \cup Workers) \ {w} : call'[d] = call[d]
    BY <1>6, OtherCallsKept DEF WorkerCall
  <2>2. w \notin Operators /\ pc' = pc
    BY <1>6, WorkersAreOthers DEF WorkerCall, vars
  <2> QED BY <2>1, <2>2
<1>7. CASE Chain!Ledger /\ UNCHANGED vars
  BY <1>7 DEF Chain!Ledger, Chain!Apply, Chain!Expire, vars
<1>8. CASE Age /\ UNCHANGED chainVars
  BY <1>8 DEF Age, chainVars
<1>9. CASE UNCHANGED allVars
  BY <1>9 DEF allVars, vars, chainVars
<1> QED
  BY <1>1, <1>2, <1>3, <1>4, <1>5, <1>6, <1>7, <1>8, <1>9 DEF ChainNext

(* The claim on the row covers the whole contract call: no two operators   *)
(* submit the release at a time, and no row is closed over a submission    *)
(* that is under way, for any number of operators, retries, lost answers   *)
(* and crashes, if no live replay outlasts the threshold.                  *)
THEOREM ReplaysSubmitUnderClaim ==
    ASSUME ~SlowCalls PROVE ChainSpec => []SubmittedUnderClaim
<1>1. ChainInit => CallsAwaited
  BY DEF ChainInit, Chain!CallInit, CallsAwaited, InFlight
<1>2. Inv /\ CallsAwaited /\ [ChainNext]_allVars => CallsAwaited'
  BY StepKeepsAwaited
<1>3. Spec => []Inv
  BY Invariance
<1>4. Inv /\ CallsAwaited => SubmittedUnderClaim
  BY DEF Inv, ReplayExclusive, Holding, CallsAwaited, SubmittedUnderClaim
<1> QED
  BY <1>1, <1>2, <1>3, <1>4, CompositionImplementsParts, PTL
  DEF ChainSpec, ImplementsParts

(* One call of submitAutoRelease never has two transactions before the     *)
(* ledger, however often it retries and however operators and crashes      *)
(* interleave with other calls on the same account.  A later replay of the *)
(* same dead letter is another call and may submit the release again.      *)
THEOREM ReplaySubmitsOnce ==
    ASSUME MaxRetries \in Nat
    PROVE  ChainSpec => []SubmittedOnce
<1>1. Chain!CallSpec => []ChainProofs!Inv
  BY ChainProofs!Invariance, SameCalls, PTL DEF Chain!CallSpec, ChainProofs!CallSpec
<1>2. ChainProofs!Inv => SubmittedOnce
  BY DEF ChainProofs!Inv, ChainProofs!SubmittedOnce, SubmittedOnce,
         Chain!SubmittedOnce, ChainProofs!Sequence, Chain!Sequence
<1> QED
  BY <1>1, <1>2, CompositionImplementsParts, PTL DEF ImplementsParts
=============================================================================
