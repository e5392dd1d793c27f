------------------------------ MODULE StressTest ------------------------------
(***************************************************************************)
(* StressTestService and its controller: a run is audited, listed as       *)
(* active, executes its profiles one after the other, each with several    *)
(* workers that issue requests concurrently, and is summed up.  The        *)
(* service under test is external: a request is answered or fails, after   *)
(* some time.                                                              *)
(***************************************************************************)
EXTENDS Naturals, Sequences, FiniteSets, FiniteSetsExt, SequencesExt

CONSTANTS Runs,           \* runs that administrators start on one process
          Plan,           \* the profiles each of them asks for
          MaxWorkers,     \* the cap on concurrent workers
          Times,          \* response times
          Thresholds      \* maxResponseTime, maxErrorRate and minThroughput

VARIABLES test,           \* per run: where it is and what it has measured
          activeTests,    \* runs listed as active
          started         \* STRESS_TEST_STARTED entries of the audit log

stressVars == <<test, activeTests, started>>

NewTest == [pc |-> "asked", left |-> << >>, metrics |-> << >>, results |-> << >>,
            status |-> "COMPLETED"]

StressInit ==
    /\ test = [t \in Runs |-> NewTest]
    /\ activeTests = {} /\ started = {}

At(t, pc) == test[t].pc = pc
-----------------------------------------------------------------------------
(* The controller audits the run before it starts; when that fails nothing *)
(* runs.                                                                   *)
AuditRun(t) ==
    /\ At(t, "asked")
    /\ \/ started' = started \cup {t} /\ test' = [test EXCEPT ![t].pc = "start"]
       \/ UNCHANGED started /\ test' = [test EXCEPT ![t].pc = "refused"]
    /\ UNCHANGED activeTests

RunStressTest(t) ==
    /\ At(t, "start")
    /\ activeTests' = activeTests \cup {t}
    /\ test' = [test EXCEPT ![t].pc = "profile"]
    /\ UNCHANGED started

Workers(p) == IF p.users < MaxWorkers THEN p.users ELSE MaxWorkers

\* Mutant: the share of a worker is rounded down.
RoundedDown(p) == (p.rate * p.duration) \div Workers(p)

(* Math.ceil of the share of each worker.                                  *)
RequestsPerWorker(p) == (p.rate * p.duration + Workers(p) - 1) \div Workers(p)

Profile(t) == Plan[t][Len(test[t].results) + 1]
LastProfile(t) == Len(test[t].results) = Len(Plan[t])

(* The loop over the profiles: start the workers of the next one.          *)
ExecuteProfile(t) ==
    /\ At(t, "profile") /\ ~LastProfile(t)
    /\ test' = [test EXCEPT ![t].pc = "work", ![t].metrics = << >>,
                   ![t].left = [w \in 1..Workers(Profile(t)) |-> RequestsPerWorker(Profile(t))]]
    /\ UNCHANGED <<activeTests, started>>

(* One request of one worker.  Its outcome is recorded either way.         *)
RunWorker(t) ==
    /\ At(t, "work")
    /\ \E w \in DOMAIN test[t].left, rt \in Times, ok \in BOOLEAN :
        /\ test[t].left[w] > 0
        /\ test' = [test EXCEPT ![t].left[w] = @ - 1,
                       ![t].metrics = Append(@, [rt |-> rt, ok |-> ok])]
    /\ UNCHANGED <<activeTests, started>>

(* checkThresholds on averageResponseTime, errorRate and throughput; the   *)
(* first two are NaN for a profile without requests, and raise nothing.    *)
CheckThresholds(total, failed, sum, duration) ==
    {a \in {"PERFORMANCE_DROP", "ERROR_RATE", "THROUGHPUT_DROP"} :
        CASE a = "PERFORMANCE_DROP" -> sum > Thresholds.maxResponseTime * total
          [] a = "ERROR_RATE"       -> failed * 100 > Thresholds.maxErrorRate * total
          [] a = "THROUGHPUT_DROP"  -> total < Thresholds.minThroughput * duration}

(* The counts, the longest response time and the alerts.                   *)
CalculateProfileMetrics(metrics, duration) ==
    LET total  == Len(metrics)
        failed == Cardinality({i \in 1..total : ~metrics[i].ok})
        times  == [i \in 1..total |-> metrics[i].rt]
    IN  [total |-> total, failed |-> failed, max |-> Max(Range(times) \cup {0}),
         alerts |-> CheckThresholds(total, failed, SumFunction(times), duration)]

(* Promise.all over the workers, then the metrics of the profile.          *)
FinishProfile(t) ==
    /\ At(t, "work") /\ \A w \in DOMAIN test[t].left : test[t].left[w] = 0
    /\ test' = [test EXCEPT ![t].pc = "profile", ![t].left = << >>, ![t].metrics = << >>,
                   ![t].results = Append(@, CalculateProfileMetrics(test[t].metrics, Profile(t).duration))]
    /\ UNCHANGED <<activeTests, started>>

(* calculateOverallMetrics reads the first and last metric of a profile    *)
(* when the span found so far plus its number of metrics is positive: an   *)
(* empty profile after one that took time ends the run as FAILED.          *)
MayFail(results) ==
    \E i \in 2..Len(results) : results[i].total = 0 /\ results[i - 1].total > 1

(* The result is returned, COMPLETED or FAILED, and the run delisted.      *)
CompleteRun(t) ==
    /\ At(t, "profile") /\ LastProfile(t)
    /\ \/ test' = [test EXCEPT ![t].pc = "returned"]
       \/ /\ MayFail(test[t].results)
          /\ test' = [test EXCEPT ![t].pc = "returned", ![t].status = "FAILED"]
    /\ activeTests' = activeTests \ {t}
    /\ UNCHANGED started

StressStep(t) ==
    \/ AuditRun(t) \/ RunStressTest(t) \/ ExecuteProfile(t)
    \/ RunWorker(t) \/ FinishProfile(t) \/ CompleteRun(t)

StressNext == \E t \in Runs : StressStep(t)
-----------------------------------------------------------------------------
(* A run is listed as active exactly while it is in progress, delisted     *)
(* whether it succeeds or fails, and never starts without its audit entry. *)
(* The workers of a profile issue at least the requestsPerSecond *         *)
(* duration that were asked for, however many of them share these, and     *)
(* less than one request each beyond; a profile that ran fast and without  *)
(* failures raises no alert but THROUGHPUT_DROP.                           *)
ReportsComplete ==
    /\ activeTests = {t \in Runs : test[t].pc \in {"profile", "work"}}
    /\ activeTests \subseteq started
    /\ \A t \in Runs : \A i \in 1..Len(test[t].results) :
        LET r == test[t].results[i]  p == Plan[t][i] IN
        /\ r.total >= p.rate * p.duration /\ r.total < p.rate * p.duration + Workers(p)
        /\ r.failed = 0 /\ r.max <= Thresholds.maxResponseTime => r.alerts \subseteq {"THROUGHPUT_DROP"}
=============================================================================
