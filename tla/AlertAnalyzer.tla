----------------------------- MODULE AlertAnalyzer -----------------------------
(***************************************************************************)
(* The LLM analyzer: it consumes stream:alerts one entry after the other   *)
(* and gives each alert an analysis: from the cache, from the LLM behind a *)
(* circuit breaker and a chain of models, or by a heuristic; it stores the *)
(* alert and publishes it to stream:decisions_pending.  What the LLM       *)
(* answers is a choice, severities and texts are left out.                 *)
(***************************************************************************)
EXTENDS StreamConsumer

CONSTANTS
    Alerts,       \* number of alerts in stream:alerts
    TenantOfAlert,
    BucketOf,     \* an alert's traffic profile, rounded to buckets
    BadAlert,     \* alerts that validation rejects
    Client,       \* an API key is configured
    Chain,        \* number of models in the fallback chain
    Threshold,    \* consecutive failures that open the circuit
    AlertFaults   \* bound on errors of Redis and the database, and crashes

Alert == 1..Alerts

ASSUME AnalyzerAssumption ==
    /\ Alerts \in Nat
    /\ BadAlert \subseteq Alert
    /\ Client \in BOOLEAN
    /\ Chain \in Nat \ {0}
    /\ Threshold \in Nat \ {0}
    /\ AlertFaults \in Nat

VARIABLES
    work,       \* stream:alerts: where the analyzer has got to with an alert
    attempt,    \* the model of the chain that it calls
    circuit,    \* the breaker: _state, _failure_count, recovery timeout elapsed
    cached,     \* the cache: a set of [key, maker], maker being the alert whose analysis it is
    answer,     \* per alert: the kind of its analysis, and whose it is
    stored,     \* alerts with a row in the database
    decided,    \* entries of stream:decisions_pending: the alert and the id it carries
    failRun,    \* chains that failed since an LLM last answered or the start (history)
    alertFaults

analyzerVars ==
    <<work, attempt, circuit, cached, answer, stored, decided, failRun, alertFaults>>

AlertStep == Unread \cup Settled \cup {"inbox", "call", "cache", "store", "publish", "ack"}
Closed == [state |-> "CLOSED", failures |-> 0, cooled |-> FALSE]
None   == [kind |-> "none", maker |-> 0]

AnalyzerInit ==
    /\ work = [a \in Alert |-> "queued"]
    /\ attempt = 0
    /\ circuit = Closed
    /\ cached = {}
    /\ answer = [a \in Alert |-> None]
    /\ stored = {}
    /\ decided = {}
    /\ failRun = 0
    /\ alertFaults = 0

output == <<stored, decided>>

AlertFault == alertFaults < AlertFaults /\ alertFaults' = alertFaults + 1

ToStep(a, from, to) == Turn(work, a) /\ work[a] = from /\ work' = [work EXCEPT ![a] = to]

Answers(a, kind, maker) == answer' = [answer EXCEPT ![a] = [kind |-> kind, maker |-> maker]]

(***************************************************************************)
(* The circuit breaker.                                                    *)
(***************************************************************************)

\* The property state: OPEN becomes HALF_OPEN once the timeout has elapsed.
Observed(c) ==
    IF c.state = "OPEN" /\ c.cooled THEN [c EXCEPT !.state = "HALF_OPEN"] ELSE c

CanExecute(c) == Observed(c).state \in {"CLOSED", "HALF_OPEN"}

\* Mutant: record_success does not reset the count.
SucceededKeepsCount(c) == [c EXCEPT !.state = "CLOSED", !.cooled = FALSE]

\* record_success closes the circuit and forgets the failures.
Succeeded(c) == Closed

\* record_failure counts, and opens the circuit on a failed test or at the threshold.
Failed(c) ==
    [state |-> IF c.state = "HALF_OPEN" \/ c.failures + 1 >= Threshold THEN "OPEN" ELSE c.state,
     failures |-> c.failures + 1,
     cooled |-> FALSE]

(***************************************************************************)
(* The analysis of one alert.                                              *)
(***************************************************************************)

ReadAlerts(n) ==
    /\ Idle(work)
    /\ work' = Delivered(work, n)
    /\ UNCHANGED <<attempt, circuit, cached, answer, output, failRun, alertFaults>>

RejectAlert(a) ==
    /\ a \in BadAlert
    /\ ToStep(a, "inbox", "ack")
    /\ UNCHANGED <<attempt, circuit, cached, answer, output, failRun, alertFaults>>

\* Mutant: the key is made of the traffic buckets alone.
CacheKeyShared(a) == <<BucketOf[a]>>

CacheKey(a) == <<TenantOfAlert[a], BucketOf[a]>>

Hits(a) == {e \in cached : e.key = CacheKey(a)}

FromCache(a) ==
    /\ a \notin BadAlert
    /\ ToStep(a, "inbox", "store")
    /\ \E e \in Hits(a) : Answers(a, "cache", e.maker)
    /\ UNCHANGED <<attempt, circuit, cached, output, failRun, alertFaults>>

\* Nothing cached: the breaker is asked.  A closed or half-open circuit lets the
\* call through; otherwise, or without a client, the heuristic answers.
AskCircuit(a) ==
    /\ a \notin BadAlert
    /\ Hits(a) = {}
    /\ circuit' = Observed(circuit)
    /\ IF Client /\ CanExecute(circuit)
       THEN ToStep(a, "inbox", "call") /\ attempt' = 1 /\ UNCHANGED answer
       ELSE ToStep(a, "inbox", "store") /\ Answers(a, "heuristic", a) /\ UNCHANGED attempt
    /\ UNCHANGED <<cached, output, failRun, alertFaults>>

\* One attempt was in vain: the next model, or the end of the chain.
NextModel(a, from) ==
    \/ /\ attempt < Chain
       /\ ToStep(a, from, "call")
       /\ attempt' = attempt + 1
       /\ UNCHANGED <<circuit, answer, failRun>>
    \/ /\ attempt = Chain
       /\ ToStep(a, from, "store")
       /\ circuit' = Failed(circuit)
       /\ Answers(a, "heuristic", a)
       /\ failRun' = failRun + 1
       /\ UNCHANGED attempt

\* The call raises, times out or returns something invalid.
CallFails(a) ==
    /\ NextModel(a, "call")
    /\ UNCHANGED <<cached, output, alertFaults>>

CallSucceeds(a) ==
    /\ ToStep(a, "call", "cache")
    /\ circuit' = Succeeded(circuit)
    /\ failRun' = 0
    /\ UNCHANGED <<attempt, cached, answer, output, alertFaults>>

CacheAnalysis(a) ==
    /\ ToStep(a, "cache", "store")
    /\ cached' = {e \in cached : e.key # CacheKey(a)} \cup {[key |-> CacheKey(a), maker |-> a]}
    /\ Answers(a, "llm", a)
    /\ UNCHANGED <<attempt, circuit, output, failRun, alertFaults>>

\* The write to the cache is inside the try of the call: an error there counts as
\* a failure of the model, and the answer is thrown away.
CacheError(a) ==
    /\ AlertFault
    /\ NextModel(a, "cache")
    /\ UNCHANGED <<cached, output>>

StoreAlert(a) ==
    /\ ToStep(a, "store", "publish")
    /\ stored' = stored \cup {a}
    /\ UNCHANGED <<attempt, circuit, cached, answer, decided, failRun, alertFaults>>

\* Mutant: an alert that cannot be stored is not passed on.
StoreErrorEnds(a) ==
    /\ AlertFault
    /\ ToStep(a, "store", "ack")
    /\ UNCHANGED <<attempt, circuit, cached, answer, output, failRun>>

\* An error of the database is logged, and the alert goes on under no id.
StoreError(a) ==
    /\ AlertFault
    /\ ToStep(a, "store", "publish")
    /\ UNCHANGED <<attempt, circuit, cached, answer, output, failRun>>

\* The id of the decision is the row's, or "unknown" (0).
PublishDecision(a) ==
    /\ ToStep(a, "publish", "ack")
    /\ decided' = decided \cup {[alert |-> a, id |-> IF a \in stored THEN a ELSE 0]}
    /\ UNCHANGED <<attempt, circuit, cached, answer, stored, failRun, alertFaults>>

\* The entry goes to the recent alerts of the dashboard and is acknowledged.
AckAlert(a) ==
    /\ ToStep(a, "ack", "done")
    /\ UNCHANGED <<attempt, circuit, cached, answer, output, failRun, alertFaults>>

\* Any other error (of Redis) leaves the entry pending.
AlertError(a) ==
    /\ AlertFault
    /\ Turn(work, a)
    /\ work[a] \in {"inbox", "publish", "ack"}
    /\ work' = [work EXCEPT ![a] = "stuck"]
    /\ UNCHANGED <<attempt, circuit, cached, answer, output, failRun>>

\* After a batch the gauge reads the state of the breaker, and may change it.
ReadGauge ==
    /\ Idle(work)
    /\ circuit' = Observed(circuit)
    /\ UNCHANGED <<work, attempt, cached, answer, output, failRun, alertFaults>>

\* The breaker lives in the process.
AnalyzerRestart ==
    /\ AlertFault
    /\ work' = Abandoned(work)
    /\ circuit' = Closed
    /\ failRun' = 0
    /\ UNCHANGED <<attempt, cached, answer, output>>

\* The recovery timeout elapses; an entry of the cache expires.
CircuitCools ==
    /\ circuit.state = "OPEN"
    /\ ~circuit.cooled
    /\ circuit' = [circuit EXCEPT !.cooled = TRUE]
    /\ UNCHANGED <<work, attempt, cached, answer, output, failRun, alertFaults>>

CacheExpires(e) ==
    /\ e \in cached
    /\ cached' = cached \ {e}
    /\ UNCHANGED <<work, attempt, circuit, answer, output, failRun, alertFaults>>

Handle(a) ==
    \/ RejectAlert(a) \/ FromCache(a) \/ AskCircuit(a) \/ CallFails(a) \/ CallSucceeds(a)
    \/ CacheAnalysis(a) \/ StoreAlert(a) \/ PublishDecision(a) \/ AckAlert(a)

Analyzer ==
    \/ \E n \in Alert : ReadAlerts(n) /\ work' # work
    \/ \E a \in Alert : Handle(a)

AnalyzerNext ==
    \/ Analyzer \/ ReadGauge \/ AnalyzerRestart \/ CircuitCools
    \/ \E a \in Alert : CacheError(a) \/ StoreError(a) \/ AlertError(a)
    \/ \E e \in cached : CacheExpires(e)

AnalyzerSpec == AnalyzerInit /\ [][AnalyzerNext]_analyzerVars

-----------------------------------------------------------------------------

\* Every variable of the analyzer keeps its type; a model is being called, or its
\* answer cached, only within the chain.
AnalyzerTypeOK ==
    /\ work \in [Alert -> AlertStep]
    /\ attempt \in 0..Chain
    /\ circuit \in [state : {"CLOSED", "OPEN", "HALF_OPEN"}, failures : Nat, cooled : BOOLEAN]
    /\ \A e \in cached : e.maker \in Alert /\ e.key = CacheKey(e.maker)
    /\ answer \in [Alert -> [kind : {"none", "cache", "llm", "heuristic"}, maker : Alert \cup {0}]]
    /\ stored \subseteq Alert
    /\ decided \subseteq [alert : Alert, id : Alert \cup {0}]
    /\ failRun \in Nat
    /\ alertFaults \in Nat
    /\ \A a \in Alert : work[a] \in {"call", "cache"} => attempt > 0

\* A valid alert is acknowledged only once its decision is requested, whatever
\* failed on the way; it is requested once, under the id of its row, and under no
\* id only because the row could not be written.
AlertsPassedOn ==
    \A a \in Alert :
        /\ work[a] = "done" => a \in BadAlert \/ \E d \in decided : d.alert = a
        /\ \A d, e \in decided : d.alert = e.alert => d = e
        /\ \A d \in decided : IF d.id = 0 THEN alertFaults > 0 ELSE d.id = d.alert /\ d.id \in stored

\* The breaker tells the truth about the calls: it is open only after Threshold
\* chains in a row have failed, and not closed after so many, whatever else fails.
BreakerTruthful ==
    /\ circuit.state = "OPEN" => failRun >= Threshold
    /\ failRun >= Threshold => circuit.state # "CLOSED"

\* An alert is explained by the analysis of another only within a tenant and a
\* traffic profile, and that analysis is the LLM's, never a heuristic.
CacheOwnTenant ==
    \A a \in Alert : answer[a].kind = "cache" =>
        LET m == answer[a].maker
        IN  /\ TenantOfAlert[m] = TenantOfAlert[a]
            /\ BucketOf[m] = BucketOf[a]
            /\ answer[m].kind = "llm"

\* Every alert is read and settled in the end, whatever the LLM does.
AlertsDrained == \A a \in Alert : work[a] \in Settled

AlertsServed == <>[]AlertsDrained
=============================================================================
