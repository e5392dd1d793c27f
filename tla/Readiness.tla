------------------------------ MODULE Readiness ------------------------------
(***************************************************************************)
(* The readiness probe of AppController (GET /health/ready and GET         *)
(* /health): four dependency checks run concurrently, and the answer is    *)
(* 200 or 503.  The dependencies are external; they may be healthy, answer *)
(* with an error, or not answer, and change at any time.  How the Soroban  *)
(* RPC is bound, and the word with which it reports that it is healthy, do *)
(* not change.                                                             *)
(***************************************************************************)
EXTENDS FiniteSets

Required == {"db", "horizon", "soroban"}
Deps     == Required \cup {"redis"}
Timed    == {"horizon", "soroban"}     \* checks with a timer of 150 ms

HealthyStatuses == {"pass"}

VARIABLES dep,            \* the state of each dependency
          binding,        \* of SorobanHealthService: is it there, has it a server
          word,           \* the status of getHealth on a node that is healthy
          redisUrl,       \* REDIS_URL is set
          check,          \* the outcome of each check of the current probe
          answer,         \* the answer to the current probe
          wasUp,          \* dependencies that were healthy during the probe
          trouble         \* a required dependency was not healthy, or was slow

deployment == <<binding, word, redisUrl>>
probeVars  == <<dep, deployment, check, answer, wasUp, trouble>>

Healthy == {d \in Deps : dep[d] = "healthy"}

\* The dependencies that this deployment can ask and must not miss.
Probed == IF binding = "no server" THEN Required \ {"soroban"} ELSE Required

ProbeInit ==
    /\ dep = [d \in Deps |-> "healthy"]
    /\ binding \in {"server", "no server", "no service"}
    /\ word \in IF binding = "server" THEN {"pass", "healthy"} ELSE {"pass"}
    /\ redisUrl \in BOOLEAN
    /\ check = [d \in Deps |-> "none"]
    /\ answer = "idle" /\ wasUp = {} /\ trouble = FALSE

(* A dependency changes.  The clients of the database and of Redis give up *)
(* on a server that does not answer: it fails.                             *)
Change(d) ==
    /\ \E s \in {"healthy", "failing"} \cup (IF d \in Timed THEN {"silent"} ELSE {}) :
        dep' = [dep EXCEPT ![d] = s]
    /\ wasUp' = IF answer = "pending" /\ dep'[d] = "healthy" THEN wasUp \cup {d} ELSE wasUp
    /\ trouble' = (trouble \/ (answer = "pending" /\ d \in Probed /\ dep'[d] # "healthy"))
    /\ UNCHANGED <<deployment, check, answer>>

(* checkAllDependencies starts the four checks.                            *)
RunReadinessCheck ==
    /\ answer # "pending"
    /\ answer' = "pending"
    /\ check' = [d \in Deps |-> "running"]
    /\ wasUp' = Healthy /\ trouble' = ~(Probed \subseteq Healthy)
    /\ UNCHANGED <<dep, deployment>>

Settle(d, outcome) ==
    /\ answer = "pending" /\ check[d] = "running"
    /\ check' = [check EXCEPT ![d] = outcome]

(* checkDatabase: one bounded query, and its error is caught.              *)
CheckDatabase ==
    /\ Settle("db", IF dep["db"] = "healthy" THEN "ok" ELSE "down")
    /\ UNCHANGED <<dep, deployment, answer, wasUp, trouble>>

(* HorizonService.checkHealth: a response with a 2xx status is ok, any     *)
(* other response or an error is down.                                     *)
CheckHorizon ==
    /\ dep["horizon"] # "silent"
    /\ Settle("horizon", IF dep["horizon"] = "healthy" THEN "ok" ELSE "down")
    /\ UNCHANGED <<dep, deployment, answer, wasUp, trouble>>

\* What getHealth resolves with; "error" stands for a rejection too.
Status == IF dep["soroban"] = "healthy" THEN word ELSE "error"

(* SorobanHealthService.checkHealth: ok when there is no server to ask,    *)
(* else the status decides.                                                *)
CheckHealth ==
    IF binding = "no server" \/ Status \in HealthyStatuses THEN "ok" ELSE "down"

(* checkSoroban: down without the service.                                 *)
CheckSoroban ==
    /\ binding = "server" => dep["soroban"] # "silent"
    /\ Settle("soroban", IF binding = "no service" THEN "down" ELSE CheckHealth)
    /\ UNCHANGED <<dep, deployment, answer, wasUp, trouble>>

(* The timer fires first: the check is down, though the dependency may     *)
(* only be slow.                                                           *)
Timeout(d) ==
    /\ d \in Timed /\ (d = "soroban" => binding = "server")
    /\ Settle(d, "down")
    /\ trouble' = TRUE
    /\ UNCHANGED <<dep, deployment, answer, wasUp>>

Ping == IF ~redisUrl THEN "disabled" ELSE IF dep["redis"] = "healthy" THEN "ok" ELSE "down"

(* checkRedis: disabled without REDIS_URL, else a PING, whose failure is   *)
(* caught.                                                                 *)
CheckRedis ==
    /\ Settle("redis", Ping)
    /\ UNCHANGED <<dep, deployment, answer, wasUp, trouble>>

\* Mutant: the RPC does not count (issue #841).
StellarOptional == check["db"] = "ok" /\ check["horizon"] = "ok"

AllOk == \A d \in Required : check[d] = "ok"

(* The answer, once all four checks have settled.                          *)
Answer ==
    /\ answer = "pending" /\ \A d \in Deps : check[d] # "running"
    /\ answer' = IF AllOk THEN "200" ELSE "503"
    /\ UNCHANGED <<dep, deployment, check, wasUp, trouble>>

(* What goes on by itself: timers fire, the clients of the database and of *)
(* Redis settle.                                                           *)
ProbeStep ==
    \/ CheckDatabase \/ CheckHorizon \/ CheckSoroban \/ CheckRedis \/ Answer
    \/ \E d \in Deps : Timeout(d)

ProbeNext == ProbeStep \/ RunReadinessCheck \/ \E d \in Deps : Change(d)

-----------------------------------------------------------------------------
(* The probe says 200 only when each required dependency, the Soroban RPC  *)
(* included unless no server is bound, was healthy at some moment of this  *)
(* very probe; and 503 only when one of them was unhealthy or too slow     *)
(* meanwhile, when the controller has no SorobanHealthService, or when the *)
(* RPC calls its health by another word than "pass".  Redis is optional.   *)
ProbeTruthful ==
    /\ answer = "200" => Probed \subseteq wasUp
    /\ answer = "503" => trouble \/ binding = "no service" \/ word \notin HealthyStatuses
=============================================================================
