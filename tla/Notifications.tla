---------------------------- MODULE Notifications ----------------------------
(***************************************************************************)
(* One notification on its way to the e-mail and SMS providers, by one of  *)
(* the routes of the backend: NotificationsService dispatches it to the    *)
(* buyer, the vendor or the administrator, or NotificationRetryQueue runs  *)
(* it as a job, in process or in BullMQ.  The providers, BullMQ and Redis  *)
(* are external.                                                           *)
(***************************************************************************)
EXTENDS Naturals, Sequences

CONSTANTS MaxSends,       \* MAX_ATTEMPTS of a dispatch
          Attempts,       \* backoff.attempts of a job
          MaxStalls,      \* bound: how often BullMQ hands a job out again
          Faulty          \* database and Redis calls fail, processes die

ASSUME NotificationAssumption ==
    /\ MaxSends \in Nat \ {0}
    /\ Attempts \in Nat \ {0}
    /\ MaxStalls \in Nat
    /\ Faulty \in BOOLEAN

Channels == {"EMAIL", "SMS"}
Order    == <<"EMAIL", "SMS">>

Dispatch == {"buyer", "vendor", "admin"}
Queue    == {"inline", "redis"}

VARIABLES route,          \* the way this notification takes
          contact,        \* what is known of the recipient, by channel
          wanted,         \* the vendor's stored notificationChannels
          registered,     \* the queue has a dispatcher for the channel
          stage,
          todo,           \* channels still to be dispatched
          attempt,        \* failed or current attempts on the first of them
          rows,           \* Notification rows written, in order
          status,         \* of the row a job works for
          letters,        \* dead letters of the job
          calls, accepted, lost,  \* per channel: calls of the provider, messages
                                  \* it took, and those whose answer was lost
          stalls,         \* times the job was handed out again
          faulted         \* a database or Redis call failed, or a process died

input    == <<route, contact, wanted, registered>>
provider == <<calls, accepted, lost>>
record   == <<rows, status, letters>>
notifyVars     == <<input, stage, todo, attempt, record, provider, stalls, faulted>>

Ended == {"done", "threw", "gone"}

Zero == [ch \in Channels |-> 0]

(* A contact is missing (or cannot be decrypted), is something a provider  *)
(* cannot deliver to (a Stellar key; an e-mail without sender or           *)
(* template), or is usable.                                                *)
NotifyInit ==
    /\ route \in Dispatch \cup Queue
    /\ contact \in [Channels -> {"none", "unusable", "usable"}]
    /\ wanted \in SUBSET Channels
    /\ registered \in BOOLEAN
    /\ stage = "start" /\ todo = << >> /\ attempt = 0
    /\ rows = << >> /\ status = "PENDING" /\ letters = 0
    /\ calls = Zero /\ accepted = Zero /\ lost = Zero
    /\ stalls = 0 /\ faulted = FALSE

Fault(next) == Faulty /\ faulted' = TRUE /\ stage' = next
-----------------------------------------------------------------------------
Known(ch) == contact[ch] # "none"

(* dispatchToBuyer: every known contact; none leaves two rows behind.      *)
DispatchToBuyer ==
    /\ stage = "start" /\ route = "buyer"
    /\ stage' = "next"
    /\ todo' = IF \E ch \in Channels : Known(ch) THEN SelectSeq(Order, Known) ELSE Order
    /\ UNCHANGED <<input, attempt, record, provider, stalls, faulted>>

(* dispatchToVendor: the channels the vendor wants, or e-mail when the     *)
(* preferences cannot be read.  A failing read of the profile rejects.     *)
DispatchToVendor ==
    /\ stage = "start" /\ route = "vendor"
    /\ LET For(channels) == SelectSeq(Order, LAMBDA ch : ch \in channels /\ Known(ch))
       IN  \/ stage' = "next" /\ todo' = For(wanted) /\ UNCHANGED faulted
           \/ Fault("next") /\ todo' = For({"EMAIL"})
           \/ Fault("threw") /\ UNCHANGED todo
    /\ UNCHANGED <<input, attempt, record, provider, stalls>>

(* notifyDisputedAdmin: e-mail only, when an address is configured.        *)
DispatchToAdmin ==
    /\ stage = "start" /\ route = "admin"
    /\ stage' = "next"
    /\ todo' = IF Known("EMAIL") THEN <<"EMAIL">> ELSE << >>
    /\ UNCHANGED <<input, attempt, record, provider, stalls, faulted>>

(* The channels one after the other: what no provider can deliver is       *)
(* recorded without a call.                                                *)
StartOn(ch) ==
    /\ stage = "next" /\ todo # << >> /\ Head(todo) = ch
    /\ stage' = IF contact[ch] = "usable" THEN "send" ELSE "row"
    /\ UNCHANGED <<input, todo, attempt, record, provider, stalls, faulted>>

DispatchEmail == StartOn("EMAIL")
DispatchSms   == StartOn("SMS")

Dispatched ==
    /\ stage = "next" /\ todo = << >>
    /\ stage' = "done"
    /\ UNCHANGED <<input, todo, attempt, record, provider, stalls, faulted>>

Count(f, ch) == f' = [f EXCEPT ![ch] = @ + 1]

(* The provider takes the message and answers with the id it gave it.      *)
Acknowledged(ch) == Count(calls, ch) /\ Count(accepted, ch) /\ UNCHANGED lost

(* It refuses, or takes the message and the answer is lost.                *)
Unacknowledged(ch) ==
    /\ Count(calls, ch)
    /\ \/ UNCHANGED <<accepted, lost>>
       \/ Count(accepted, ch) /\ Count(lost, ch)

\* Mutant: the loop does not break after a success.
SendAgain(ch) ==
    /\ stage = "send" /\ Head(todo) = ch
    /\ attempt' = attempt + 1
    /\ \/ Acknowledged(ch) /\ stage' = IF attempt' < MaxSends THEN "send" ELSE "delivered row"
       \/ Unacknowledged(ch) /\ stage' = IF attempt' < MaxSends THEN "send" ELSE "row"
    /\ UNCHANGED <<input, todo, record, stalls, faulted>>

(* One attempt.  isRetryableProviderError keeps trying except after a      *)
(* definite 4xx answer, at most MAX_ATTEMPTS times.                        *)
Send(ch) ==
    /\ stage = "send" /\ Head(todo) = ch
    /\ attempt' = attempt + 1
    /\ \/ Acknowledged(ch) /\ stage' = "delivered row"
       \/ Unacknowledged(ch) /\ stage' = IF attempt' < MaxSends THEN "send" ELSE "row"
       \/ Count(calls, ch) /\ UNCHANGED <<accepted, lost>> /\ stage' = "row"
    /\ UNCHANGED <<input, todo, record, stalls, faulted>>

SendEmail == Send("EMAIL")
SendSms   == Send("SMS")

\* Mutant: a loop left early counts as a success.
EarlyExitIsSuccess ==
    /\ stage \in {"row", "delivered row"}
    /\ stage' = "next"
    /\ rows' = Append(rows, [ch |-> Head(todo), attempts |-> attempt,
                             delivered |-> attempt < MaxSends])
    /\ todo' = Tail(todo) /\ attempt' = 0
    /\ UNCHANGED <<input, status, letters, provider, stalls, faulted>>

(* createNotification; a failing insert rejects the whole dispatch.        *)
CreateNotification ==
    /\ stage \in {"row", "delivered row"}
    /\ \/ /\ stage' = "next"
          /\ rows' = Append(rows, [ch |-> Head(todo), attempts |-> attempt,
                                   delivered |-> stage = "delivered row"])
          /\ todo' = Tail(todo) /\ attempt' = 0
          /\ UNCHANGED faulted
       \/ Fault("threw") /\ UNCHANGED <<rows, todo, attempt>>
    /\ UNCHANGED <<input, status, letters, provider, stalls>>
-----------------------------------------------------------------------------
(* enqueue: onto the BullMQ queue, or straight into the in-process runner, *)
(* which drops a job without a dispatcher.                                 *)
Enqueue ==
    /\ stage = "start" /\ route \in Queue
    /\ \E ch \in Channels : todo' = <<ch>>
    /\ \/ stage' = (IF route = "inline" /\ ~registered THEN "done" ELSE "run") /\ UNCHANGED faulted
       \/ route = "redis" /\ Fault("threw")
    /\ UNCHANGED <<input, attempt, record, provider, stalls>>

(* One attempt of a job, attempt counting the failed ones: the loop of     *)
(* processInProcessInternal, and the processor of the BullMQ worker, which *)
(* throws before its try block when there is no dispatcher.                *)
RunInProcess ==
    /\ stage = "run" /\ route = "inline"
    /\ \/ Acknowledged(Head(todo)) /\ stage' = "mark sent"
       \/ Unacknowledged(Head(todo)) /\ stage' = "mark attempt"
    /\ UNCHANGED <<input, todo, attempt, record, stalls, faulted>>

RunWorkerJob ==
    /\ stage = "run" /\ route = "redis"
    /\ \/ registered /\ Acknowledged(Head(todo)) /\ stage' = "mark sent"
       \/ registered /\ Unacknowledged(Head(todo)) /\ stage' = "mark attempt"
       \/ ~registered /\ stage' = "mark attempt" /\ UNCHANGED provider
    /\ UNCHANGED <<input, todo, attempt, record, stalls, faulted>>

(* The updates of the row are awaited, and their errors swallowed.         *)
SetStatus(new, next) ==
    \/ status' = new /\ stage' = next /\ UNCHANGED faulted
    \/ Fault(next) /\ UNCHANGED status

MarkSent ==
    /\ stage = "mark sent"
    /\ SetStatus("SENT", "done")
    /\ UNCHANGED <<input, todo, attempt, rows, letters, provider, stalls>>

\* Mutants: the job fails one attempt early; it is retried for ever.
GiveUpEarly ==
    /\ stage = "mark attempt"
    /\ attempt' = attempt + 1
    /\ SetStatus(status, IF attempt' + 1 < Attempts THEN "run" ELSE "mark failed")
    /\ UNCHANGED <<input, todo, rows, letters, provider, stalls>>

RetryForever ==
    /\ stage = "mark attempt"
    /\ attempt' = IF attempt < Attempts - 1 THEN attempt + 1 ELSE attempt
    /\ SetStatus(status, "run")
    /\ UNCHANGED <<input, todo, rows, letters, provider, stalls>>

(* markAttemptFailed, then the next attempt after its backoff or, when the *)
(* attempts are used up, the catch-all of the runner or the 'failed'       *)
(* handler of the worker.                                                  *)
MarkAttemptFailed ==
    /\ stage = "mark attempt"
    /\ attempt' = attempt + 1
    /\ SetStatus(status, IF attempt' < Attempts THEN "run" ELSE "mark failed")
    /\ UNCHANGED <<input, todo, rows, letters, provider, stalls>>

MarkFailed ==
    /\ stage = "mark failed"
    /\ SetStatus("FAILED", "dead letter")
    /\ UNCHANGED <<input, todo, attempt, rows, letters, provider, stalls>>

(* recordDeadLetter: only BullMQ has a dead-letter queue by default.       *)
RecordDeadLetter ==
    /\ stage = "dead letter"
    /\ \/ letters' = (IF route = "redis" THEN letters + 1 ELSE letters) /\ stage' = "done" /\ UNCHANGED faulted
       \/ Fault("threw") /\ UNCHANGED letters
    /\ UNCHANGED <<input, todo, attempt, rows, status, provider, stalls>>

(* The process dies.  A job that waits in Redis for its next attempt is    *)
(* not touched; one that was being worked on is handed out again by        *)
(* BullMQ, MaxStalls times; everything else is gone.                       *)
Crash ==
    /\ stage \notin Ended /\ (route = "redis" => stage # "run")
    /\ IF /\ route = "redis" /\ stage \in {"mark sent", "mark attempt"}
          /\ stalls < MaxStalls
       THEN Fault("run") /\ stalls' = stalls + 1
       ELSE Fault("gone") /\ UNCHANGED stalls
    /\ UNCHANGED <<input, todo, attempt, record, provider>>

NotifyStep ==
    \/ DispatchToBuyer \/ DispatchToVendor \/ DispatchToAdmin
    \/ DispatchEmail \/ DispatchSms \/ Dispatched \/ SendEmail \/ SendSms
    \/ CreateNotification \/ Enqueue \/ RunInProcess \/ RunWorkerJob \/ MarkSent
    \/ MarkAttemptFailed \/ MarkFailed \/ RecordDeadLetter

NotifyNext == NotifyStep \/ Crash

-----------------------------------------------------------------------------
(* The row of a dispatch tells what happened: its attemptCount is the      *)
(* number of calls of the provider, never more than MAX_ATTEMPTS, and it   *)
(* carries a provider's message id exactly when the provider acknowledged  *)
(* the message.                                                            *)
RowTruthful ==
    \A i \in 1..Len(rows) :
        LET r == rows[i] IN
        /\ r.attempts = calls[r.ch] /\ r.attempts <= MaxSends
        /\ r.delivered <=> accepted[r.ch] > lost[r.ch]

(* Retrying never sends a message again that the provider acknowledged:    *)
(* the recipient gets it twice only when an answer was lost or BullMQ      *)
(* handed the job out again.                                               *)
SentOnce == \A ch \in Channels : accepted[ch] <= lost[ch] + stalls + 1

(* A job is given up, and dead-lettered once, only after all its attempts, *)
(* none of them acknowledged since it was last handed out.                 *)
GivenUpIsExhausted ==
    (status = "FAILED" \/ letters > 0) =>
        /\ attempt = Attempts /\ letters <= 1
        /\ \A ch \in Channels : accepted[ch] <= lost[ch] + stalls

(* Every notification that was begun comes to an end, and a job that no    *)
(* fault hit and that has a dispatcher ends SENT or FAILED.                *)
Settles ==
    stage # "start" ~>
        stage \in Ended /\ (route \in Queue /\ registered /\ ~faulted => status # "PENDING")
=============================================================================
