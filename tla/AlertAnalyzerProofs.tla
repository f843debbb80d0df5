--------------------------- MODULE AlertAnalyzerProofs ---------------------------
(***************************************************************************)
(* Proofs about AlertAnalyzer, for every number of alerts, every chain and *)
(* threshold and any number of errors and crashes.                         *)
(***************************************************************************)
EXTENDS AlertAnalyzer, TLAPS

\* The steps of an alert that has its analysis.
Analyzed == {"store", "publish", "ack", "done", "stuck"}

(***************************************************************************)
(* What a step does to the entries.                                        *)
(***************************************************************************)

LEMMA AlertNat == Alert \subseteq Nat \ {0}
BY AnalyzerAssumption DEF Alert

LEMMA Moves ==
    ASSUME AnalyzerNext
    PROVE  \/ work' = work
           \/ \E n \in Alert : work' = Delivered(work, n)
           \/ \E a \in Alert, to \in AlertStep :
                 /\ Turn(work, a)
                 /\ work[a] \in Analyzed => to \in Analyzed
                 /\ work' = [work EXCEPT ![a] = to]
           \/ work' = Abandoned(work)
<1> USE DEF AlertStep, Analyzed, Settled
<1>1. ASSUME NEW a \in Alert, Handle(a) \/ CacheError(a) \/ StoreError(a) \/ AlertError(a)
      PROVE  \E to \in AlertStep : /\ Turn(work, a)
                                   /\ work[a] \in Analyzed => to \in Analyzed
                                   /\ work' = [work EXCEPT ![a] = to]
  <2>1. CASE RejectAlert(a) \/ FromCache(a) \/ CallSucceeds(a) \/ CacheAnalysis(a)
    BY <2>1 DEF RejectAlert, FromCache, CallSucceeds, CacheAnalysis, ToStep
  <2>2. CASE StoreAlert(a) \/ PublishDecision(a) \/ AckAlert(a)
    BY <2>2 DEF StoreAlert, PublishDecision, AckAlert, ToStep
  <2>3. CASE AskCircuit(a)
    BY <2>3 DEF AskCircuit, ToStep
  <2>4. CASE CallFails(a) \/ CacheError(a)
    BY <2>4 DEF CallFails, CacheError, NextModel, ToStep
  <2>5. CASE StoreError(a) \/ AlertError(a)
    BY <2>5 DEF StoreError, AlertError, ToStep
  <2>. QED
    BY <1>1, <2>1, <2>2, <2>3, <2>4, <2>5 DEF Handle
<1>2. ASSUME NEW n \in Alert, ReadAlerts(n) PROVE work' = Delivered(work, n)
  BY <1>2 DEF ReadAlerts
<1>3. AnalyzerRestart => work' = Abandoned(work)
  BY DEF AnalyzerRestart
<1>4. ReadGauge \/ CircuitCools \/ (\E e \in cached : CacheExpires(e)) => work' = work
  BY DEF ReadGauge, CircuitCools, CacheExpires
<1>. QED
  BY <1>1, <1>2, <1>3, <1>4 DEF AnalyzerNext, Analyzer

LEMMA WorkTyped == AnalyzerTypeOK /\ AnalyzerNext => work' \in [Alert -> AlertStep]
<1>1. work \in [Alert -> AlertStep] => /\ Abandoned(work) \in [Alert -> AlertStep]
                                       /\ \A n \in Alert : Delivered(work, n) \in [Alert -> AlertStep]
  BY DEF Abandoned, Delivered, AlertStep, Settled
<1>. QED
  BY <1>1, Moves DEF AnalyzerTypeOK

LEMMA AnalyzedStays ==
    ASSUME AnalyzerTypeOK, AnalyzerNext, NEW a \in Alert, work[a] \in Analyzed
    PROVE  work'[a] \in Analyzed
<1>1. work \in [Alert -> AlertStep]
  BY DEF AnalyzerTypeOK
<1>. QED
  BY <1>1, Moves DEF Delivered, Abandoned, Analyzed

(***************************************************************************)
(* Types.                                                                  *)
(***************************************************************************)

LEMMA BreakerTyped ==
    LET C == [state : {"CLOSED", "OPEN", "HALF_OPEN"}, failures : Nat, cooled : BOOLEAN]
    IN  /\ Closed \in C
        /\ \A c \in C : Observed(c) \in C /\ Failed(c) \in C /\ Succeeded(c) \in C
BY DEF Closed, Observed, Failed, Succeeded

LEMMA AnalyzerTypeStart == AnalyzerInit => AnalyzerTypeOK
BY AnalyzerAssumption
   DEF AnalyzerInit, AnalyzerTypeOK, AlertStep, Unread, Closed, None

LEMMA AnalyzerTypeStep == AnalyzerTypeOK /\ [AnalyzerNext]_analyzerVars => AnalyzerTypeOK'
<1>. SUFFICES ASSUME AnalyzerTypeOK, [AnalyzerNext]_analyzerVars PROVE AnalyzerTypeOK'
  OBVIOUS
<1> DEFINE Breaker == [state : {"CLOSED", "OPEN", "HALF_OPEN"}, failures : Nat, cooled : BOOLEAN]
           Answer  == [kind : {"none", "cache", "llm", "heuristic"}, maker : Alert \cup {0}]
           Begun   == \A a \in Alert : work'[a] \in {"call", "cache"} => attempt' > 0
           Rest    == /\ attempt' \in 0..Chain
                      /\ circuit' \in Breaker
                      /\ \A e \in cached' : e.maker \in Alert /\ e.key = CacheKey(e.maker)
                      /\ answer' \in [Alert -> Answer]
                      /\ stored' \subseteq Alert
                      /\ decided' \subseteq [alert : Alert, id : Alert \cup {0}]
                      /\ failRun' \in Nat
                      /\ alertFaults' \in Nat
                      /\ Begun
<1>t. /\ work \in [Alert -> AlertStep] /\ attempt \in 0..Chain /\ circuit \in Breaker
      /\ \A e \in cached : e.maker \in Alert /\ e.key = CacheKey(e.maker)
      /\ answer \in [Alert -> Answer] /\ stored \subseteq Alert
      /\ decided \subseteq [alert : Alert, id : Alert \cup {0}]
      /\ failRun \in Nat /\ alertFaults \in Nat
      /\ \A a \in Alert : work[a] \in {"call", "cache"} => attempt > 0
      /\ Chain \in Nat \ {0}
  BY AnalyzerAssumption DEF AnalyzerTypeOK
<1>b. Closed \in Breaker /\ Observed(circuit) \in Breaker /\ Failed(circuit) \in Breaker
      /\ Succeeded(circuit) \in Breaker
  BY <1>t, BreakerTyped
<1>f. AlertFault => alertFaults' \in Nat
  BY <1>t DEF AlertFault
<1>1. ASSUME NEW n \in Alert, ReadAlerts(n) PROVE Rest
  <2>1. UNCHANGED <<attempt, circuit, cached, answer, stored, decided, failRun, alertFaults>>
    BY <1>1 DEF ReadAlerts, output
  <2>2. Begun
    BY <1>1, <1>t, <2>1 DEF ReadAlerts, Delivered
  <2>. QED
    BY <1>t, <2>1, <2>2
<1>2. ASSUME NEW a \in Alert, RejectAlert(a) \/ AckAlert(a) PROVE Rest
  <2>1. /\ UNCHANGED <<attempt, circuit, cached, answer, stored, decided, failRun, alertFaults>>
        /\ \E to \in {"ack", "done"} : work' = [work EXCEPT ![a] = to]
    BY <1>2 DEF RejectAlert, AckAlert, ToStep, output
  <2>2. Begun
    BY <1>t, <2>1
  <2>. QED
    BY <1>t, <2>1, <2>2
<1>3. ASSUME NEW a \in Alert, FromCache(a) PROVE Rest
  <2>1. /\ UNCHANGED <<attempt, circuit, cached, stored, decided, failRun, alertFaults>>
        /\ work' = [work EXCEPT ![a] = "store"]
    BY <1>3 DEF FromCache, ToStep, output
  <2>2. PICK e \in Hits(a) : answer' = [answer EXCEPT ![a] = [kind |-> "cache", maker |-> e.maker]]
    BY <1>3 DEF FromCache, Answers
  <2>3. e.maker \in Alert
    BY <1>t DEF Hits
  <2>4. answer' \in [Alert -> Answer] /\ Begun
    BY <1>t, <2>1, <2>2, <2>3
  <2>. QED
    BY <1>t, <2>1, <2>4
<1>4. ASSUME NEW a \in Alert, AskCircuit(a) PROVE Rest
  <2>1. /\ UNCHANGED <<cached, stored, decided, failRun, alertFaults>>
        /\ circuit' = Observed(circuit)
        /\ \/ work' = [work EXCEPT ![a] = "call"] /\ attempt' = 1 /\ answer' = answer
           \/ /\ work' = [work EXCEPT ![a] = "store"] /\ attempt' = attempt
              /\ answer' = [answer EXCEPT ![a] = [kind |-> "heuristic", maker |-> a]]
    BY <1>4 DEF AskCircuit, ToStep, Answers, output
  <2>2. answer' \in [Alert -> Answer] /\ Begun /\ attempt' \in 0..Chain
    BY <1>t, <2>1
  <2>. QED
    BY <1>t, <1>b, <2>1, <2>2
<1>5. ASSUME NEW a \in Alert, CallFails(a) \/ CacheError(a) PROVE Rest
  <2>1. UNCHANGED <<cached, stored, decided>> /\ alertFaults' \in Nat
    BY <1>5, <1>f, <1>t DEF CallFails, CacheError, output
  <2>2. \/ /\ attempt < Chain /\ attempt' = attempt + 1 /\ work' = [work EXCEPT ![a] = "call"]
           /\ UNCHANGED <<circuit, answer, failRun>>
        \/ /\ work' = [work EXCEPT ![a] = "store"] /\ attempt' = attempt
           /\ circuit' = Failed(circuit) /\ failRun' = failRun + 1
           /\ answer' = [answer EXCEPT ![a] = [kind |-> "heuristic", maker |-> a]]
    BY <1>5 DEF CallFails, CacheError, NextModel, ToStep, Answers
  <2>3. answer' \in [Alert -> Answer] /\ attempt' \in 0..Chain /\ circuit' \in Breaker /\ failRun' \in Nat
    BY <1>t, <1>b, <2>2
  <2>4. Begun
    BY <1>t, <2>2
  <2>. QED
    BY <1>t, <2>1, <2>3, <2>4
<1>6. ASSUME NEW a \in Alert, CallSucceeds(a) PROVE Rest
  <2>1. /\ UNCHANGED <<attempt, cached, answer, stored, decided, alertFaults>>
        /\ circuit' = Succeeded(circuit) /\ failRun' = 0
        /\ work[a] = "call" /\ work' = [work EXCEPT ![a] = "cache"]
    BY <1>6 DEF CallSucceeds, ToStep, output
  <2>2. Begun
    BY <1>t, <2>1
  <2>. QED
    BY <1>t, <1>b, <2>1, <2>2
<1>7. ASSUME NEW a \in Alert, CacheAnalysis(a) PROVE Rest
  <2>1. /\ UNCHANGED <<attempt, circuit, stored, decided, failRun, alertFaults>>
        /\ work' = [work EXCEPT ![a] = "store"]
        /\ cached' = {e \in cached : e.key # CacheKey(a)} \cup {[key |-> CacheKey(a), maker |-> a]}
        /\ answer' = [answer EXCEPT ![a] = [kind |-> "llm", maker |-> a]]
    BY <1>7 DEF CacheAnalysis, ToStep, Answers, output
  <2>2. answer' \in [Alert -> Answer] /\ Begun
    BY <1>t, <2>1
  <2>3. \A e \in cached' : e.maker \in Alert /\ e.key = CacheKey(e.maker)
    BY <1>t, <2>1
  <2>. QED
    BY <1>t, <2>1, <2>2, <2>3
<1>8. ASSUME NEW a \in Alert, StoreAlert(a) \/ StoreError(a) PROVE Rest
  <2>1. /\ UNCHANGED <<attempt, circuit, cached, answer, decided, failRun>>
        /\ work' = [work EXCEPT ![a] = "publish"]
        /\ stored' = stored \/ stored' = stored \cup {a}
    BY <1>8 DEF StoreAlert, StoreError, ToStep, output
  <2>2. alertFaults' \in Nat
    BY <1>8, <1>f, <1>t DEF StoreAlert, StoreError
  <2>3. Begun
    BY <1>t, <2>1
  <2>. QED
    BY <1>t, <2>1, <2>2, <2>3
<1>9. ASSUME NEW a \in Alert, PublishDecision(a) PROVE Rest
  <2>1. /\ UNCHANGED <<attempt, circuit, cached, answer, stored, failRun, alertFaults>>
        /\ work' = [work EXCEPT ![a] = "ack"]
        /\ decided' = decided \cup {[alert |-> a, id |-> IF a \in stored THEN a ELSE 0]}
    BY <1>9 DEF PublishDecision, ToStep
  <2>2. Begun
    BY <1>t, <2>1
  <2>. QED
    BY <1>t, <2>1, <2>2
<1>10. ASSUME NEW a \in Alert, AlertError(a) PROVE Rest
  <2>1. /\ UNCHANGED <<attempt, circuit, cached, answer, stored, decided, failRun>>
        /\ work' = [work EXCEPT ![a] = "stuck"] /\ alertFaults' \in Nat
    BY <1>10, <1>f DEF AlertError, output
  <2>2. Begun
    BY <1>t, <2>1
  <2>. QED
    BY <1>t, <2>1, <2>2
<1>11. ASSUME AnalyzerRestart PROVE Rest
  <2>1. /\ UNCHANGED <<attempt, cached, answer, stored, decided>> /\ circuit' = Closed /\ failRun' = 0
        /\ work' = Abandoned(work) /\ alertFaults' \in Nat
    BY <1>11, <1>f DEF AnalyzerRestart, output
  <2>2. Begun
    BY <1>t, <2>1 DEF Abandoned
  <2>. QED
    BY <1>t, <1>b, <2>1, <2>2
<1>12. ASSUME ReadGauge \/ CircuitCools PROVE Rest
  <2>1. UNCHANGED <<work, attempt, cached, answer, stored, decided, failRun, alertFaults>>
    BY <1>12 DEF ReadGauge, CircuitCools, output
  <2>2. circuit' = Observed(circuit) \/ circuit' = [circuit EXCEPT !.cooled = TRUE]
    BY <1>12 DEF ReadGauge, CircuitCools
  <2>3. circuit' \in Breaker
    BY <1>t, <1>b, <2>2
  <2>. QED
    BY <1>t, <2>1, <2>3
<1>13. ASSUME \E e \in cached : CacheExpires(e) PROVE Rest
  BY <1>13, <1>t DEF CacheExpires, output
<1>14. CASE AnalyzerNext
  <2>1. Rest
    BY <1>1, <1>2, <1>3, <1>4, <1>5, <1>6, <1>7, <1>8, <1>9, <1>10, <1>11, <1>12, <1>13, <1>14
       DEF AnalyzerNext, Analyzer, Handle
  <2>. QED
    BY <1>14, <2>1, WorkTyped DEF AnalyzerTypeOK
<1>15. CASE UNCHANGED analyzerVars
  BY <1>15 DEF analyzerVars, AnalyzerTypeOK
<1>. QED
  BY <1>14, <1>15

LEMMA AnalyzerTypes == AnalyzerSpec => []AnalyzerTypeOK
BY AnalyzerTypeStart, AnalyzerTypeStep, PTL DEF AnalyzerSpec

(***************************************************************************)
(* The circuit breaker.                                                    *)
(***************************************************************************)

\* The count is that of the chains that failed in a row, and the circuit is closed just
\* as long as it is below the threshold.
Counts ==
    /\ circuit.failures = failRun
    /\ circuit.state = "CLOSED" <=> failRun < Threshold

LEMMA ObservedCounts ==
    ASSUME AnalyzerTypeOK
    PROVE  /\ Observed(circuit).failures = circuit.failures
           /\ Observed(circuit).state = "CLOSED" <=> circuit.state = "CLOSED"
BY DEF Observed, AnalyzerTypeOK

LEMMA CountsStep == AnalyzerTypeOK /\ Counts /\ [AnalyzerNext]_analyzerVars => Counts'
<1>. SUFFICES ASSUME AnalyzerTypeOK, Counts, [AnalyzerNext]_analyzerVars PROVE Counts'
  OBVIOUS
<1>t. /\ circuit \in [state : {"CLOSED", "OPEN", "HALF_OPEN"}, failures : Nat, cooled : BOOLEAN]
      /\ failRun \in Nat /\ Threshold \in Nat \ {0}
  BY AnalyzerAssumption DEF AnalyzerTypeOK
<1>1. ASSUME circuit' = Observed(circuit), failRun' = failRun PROVE Counts'
  BY <1>1, ObservedCounts DEF Counts
<1>2. ASSUME circuit' = Closed, failRun' = 0 PROVE Counts'
  BY <1>2, <1>t DEF Counts, Closed
<1>3. ASSUME circuit' = Failed(circuit), failRun' = failRun + 1 PROVE Counts'
  <2>1. /\ circuit'.failures = failRun + 1
        /\ circuit'.state = IF circuit.state = "HALF_OPEN" \/ failRun + 1 >= Threshold
                            THEN "OPEN" ELSE circuit.state
    BY <1>3 DEF Failed, Counts
  <2>. QED
    BY <1>3, <1>t, <2>1 DEF Counts
<1>4. ASSUME circuit.state = "OPEN", circuit' = [circuit EXCEPT !.cooled = TRUE], failRun' = failRun
      PROVE  Counts'
  BY <1>4, <1>t DEF Counts
<1>5. ASSUME UNCHANGED <<circuit, failRun>> PROVE Counts'
  BY <1>5 DEF Counts
<1>6. ASSUME NEW a \in Alert, Handle(a) \/ CacheError(a) \/ StoreError(a) \/ AlertError(a)
      PROVE  Counts'
  <2>1. CASE CallSucceeds(a)
    BY <1>2, <2>1 DEF CallSucceeds, Succeeded
  <2>2. CASE CallFails(a) \/ CacheError(a)
    BY <1>3, <1>5, <2>2 DEF CallFails, CacheError, NextModel
  <2>3. CASE AskCircuit(a)
    BY <1>1, <2>3 DEF AskCircuit
  <2>4. CASE \/ RejectAlert(a) \/ FromCache(a) \/ CacheAnalysis(a) \/ StoreAlert(a)
             \/ PublishDecision(a) \/ AckAlert(a) \/ StoreError(a) \/ AlertError(a)
    BY <1>5, <2>4 DEF RejectAlert, FromCache, CacheAnalysis, StoreAlert, PublishDecision, AckAlert,
                      StoreError, AlertError
  <2>. QED
    BY <1>6, <2>1, <2>2, <2>3, <2>4 DEF Handle
<1>7. CASE \/ \E n \in Alert : ReadAlerts(n)
           \/ \E e \in cached : CacheExpires(e)
           \/ UNCHANGED analyzerVars
  BY <1>5, <1>7 DEF ReadAlerts, CacheExpires, analyzerVars
<1>8. CASE ReadGauge \/ AnalyzerRestart \/ CircuitCools
  BY <1>1, <1>2, <1>4, <1>8 DEF ReadGauge, AnalyzerRestart, CircuitCools
<1>. QED
  BY <1>6, <1>7, <1>8 DEF AnalyzerNext, Analyzer

\* Invariance of BreakerTruthful: the breaker is open only after Threshold failed chains in
\* a row, and never closed after so many, whatever else fails.
THEOREM BreakerHolds == AnalyzerSpec => []BreakerTruthful
<1>1. AnalyzerInit => Counts
  BY AnalyzerAssumption DEF AnalyzerInit, Counts, Closed
<1>2. AnalyzerTypeOK /\ Counts => BreakerTruthful
  BY AnalyzerAssumption DEF AnalyzerTypeOK, Counts, BreakerTruthful
<1>. QED
  BY <1>1, <1>2, CountsStep, AnalyzerTypes, PTL DEF AnalyzerSpec

(***************************************************************************)
(* The cache.                                                              *)
(***************************************************************************)

\* What is cached, and what was taken from the cache, is an analysis of the LLM for an
\* alert that has its analysis for good.
ByLlm(m) == answer[m].kind = "llm" /\ work[m] \in Analyzed

Sourced ==
    /\ \A e \in cached : ByLlm(e.maker)
    /\ \A a \in Alert : answer[a].kind = "cache" =>
          LET m == answer[a].maker
          IN  m \in Alert /\ CacheKey(m) = CacheKey(a) /\ ByLlm(m)

LEMMA SourcedStep == AnalyzerTypeOK /\ Sourced /\ [AnalyzerNext]_analyzerVars => Sourced'
<1>. SUFFICES ASSUME AnalyzerTypeOK, Sourced, [AnalyzerNext]_analyzerVars PROVE Sourced'
  OBVIOUS
<1>t. /\ work \in [Alert -> AlertStep]
      /\ answer \in [Alert -> [kind : {"none", "cache", "llm", "heuristic"}, maker : Alert \cup {0}]]
      /\ \A e \in cached : e.maker \in Alert /\ e.key = CacheKey(e.maker)
  BY DEF AnalyzerTypeOK
<1>n. CASE UNCHANGED analyzerVars
  BY <1>n DEF analyzerVars, Sourced, ByLlm
<1>s. CASE AnalyzerNext
  <2>1. ASSUME cached' \subseteq cached, answer' = answer PROVE Sourced'
    <3>1. \A m \in Alert : ByLlm(m) => ByLlm(m)'
      BY <1>s, <2>1, AnalyzedStays DEF ByLlm
    <3>. QED
      BY <1>t, <2>1, <3>1 DEF Sourced
  <2>2. ASSUME NEW a \in Alert, work[a] \notin Analyzed, NEW ans,
               answer' = [answer EXCEPT ![a] = ans], ans.kind \in {"cache", "heuristic", "llm"},
               ans.kind = "cache" => /\ ans.maker \in Alert /\ CacheKey(ans.maker) = CacheKey(a)
                                     /\ ByLlm(ans.maker),
               ans.kind = "llm" => work'[a] \in Analyzed,
               \A e \in cached' : e \in cached \/ (e.maker = a /\ ans.kind = "llm")
        PROVE  Sourced'
    <3>1. \A b \in Alert : answer'[b] = IF b = a THEN ans ELSE answer[b]
      BY <1>t, <2>2
    <3>2. \A m \in Alert : ByLlm(m) => m # a /\ ByLlm(m)'
      BY <1>s, <2>2, <3>1, AnalyzedStays DEF ByLlm
    <3>3. ans.kind = "llm" => ByLlm(a)'
      BY <2>2, <3>1 DEF ByLlm
    <3>4. \A e \in cached' : ByLlm(e.maker)'
      BY <1>t, <2>2, <3>2, <3>3 DEF Sourced
    <3>5. ASSUME NEW b \in Alert, answer'[b].kind = "cache", NEW m, m = answer'[b].maker
          PROVE  m \in Alert /\ CacheKey(m) = CacheKey(b) /\ ByLlm(m)'
      <4>1. m \in Alert /\ CacheKey(m) = CacheKey(b) /\ ByLlm(m)
        BY <2>2, <3>1, <3>5 DEF Sourced
      <4>. QED
        BY <3>2, <4>1 DEF ByLlm
    <3>. QED
      BY <3>4, <3>5 DEF Sourced, ByLlm
  <2>3. ASSUME NEW a \in Alert, FromCache(a) PROVE Sourced'
    <3>1. PICK e \in Hits(a) : answer' = [answer EXCEPT ![a] = [kind |-> "cache", maker |-> e.maker]]
      BY <2>3 DEF FromCache, Answers
    <3>2. cached' = cached /\ work[a] = "inbox"
      BY <2>3 DEF FromCache, ToStep
    <3>3. e \in cached /\ e.key = CacheKey(a)
      BY DEF Hits
    <3>4. e.maker \in Alert /\ CacheKey(e.maker) = CacheKey(a) /\ ByLlm(e.maker)
      BY <1>t, <3>3 DEF Sourced
    <3>. QED
      BY <2>2, <3>1, <3>2, <3>4 DEF Analyzed
  <2>4. ASSUME NEW a \in Alert, AskCircuit(a) \/ CallFails(a) \/ CacheError(a) PROVE Sourced'
    <3>1. /\ cached' = cached /\ work[a] \in {"inbox", "call", "cache"}
          /\ \/ answer' = answer
             \/ answer' = [answer EXCEPT ![a] = [kind |-> "heuristic", maker |-> a]]
      BY <2>4 DEF AskCircuit, CallFails, CacheError, NextModel, ToStep, Answers
    <3>2. [kind |-> "heuristic", maker |-> a].kind = "heuristic"
      OBVIOUS
    <3>. QED
      BY <2>1, <2>2, <3>1, <3>2 DEF Analyzed
  <2>5. ASSUME NEW a \in Alert, CacheAnalysis(a) PROVE Sourced'
    <3>1. /\ cached' = {e \in cached : e.key # CacheKey(a)} \cup {[key |-> CacheKey(a), maker |-> a]}
          /\ answer' = [answer EXCEPT ![a] = [kind |-> "llm", maker |-> a]]
          /\ work[a] = "cache" /\ work' = [work EXCEPT ![a] = "store"]
      BY <2>5 DEF CacheAnalysis, ToStep, Answers
    <3>2. [kind |-> "llm", maker |-> a].kind = "llm" /\ work'[a] \in Analyzed
      BY <1>t, <3>1 DEF Analyzed
    <3>3. \A e \in cached' : e \in cached \/ e.maker = a
      BY <3>1
    <3>. QED
      BY <2>2, <3>1, <3>2, <3>3 DEF Analyzed
  <2>6. ASSUME NEW a \in Alert,
               \/ RejectAlert(a) \/ CallSucceeds(a) \/ StoreAlert(a) \/ PublishDecision(a)
               \/ AckAlert(a) \/ StoreError(a) \/ AlertError(a)
        PROVE  Sourced'
    <3>1. UNCHANGED <<cached, answer>>
      BY <2>6 DEF RejectAlert, CallSucceeds, StoreAlert, PublishDecision, AckAlert, StoreError,
                  AlertError
    <3>. QED
      BY <2>1, <3>1
  <2>7. CASE \/ \E n \in Alert : ReadAlerts(n)
             \/ \E e \in cached : CacheExpires(e)
             \/ ReadGauge \/ AnalyzerRestart \/ CircuitCools
    <3>1. cached' \subseteq cached /\ answer' = answer
      BY <2>7 DEF ReadAlerts, CacheExpires, ReadGauge, AnalyzerRestart, CircuitCools
    <3>. QED
      BY <2>1, <3>1
  <2>. QED
    BY <1>s, <2>3, <2>4, <2>5, <2>6, <2>7 DEF AnalyzerNext, Analyzer, Handle
<1>. QED
  BY <1>n, <1>s

\* Invariance of CacheOwnTenant: an alert is explained by another's analysis only within a
\* tenant and a traffic profile, and that analysis is the LLM's.
THEOREM CacheHolds == AnalyzerSpec => []CacheOwnTenant
<1>1. AnalyzerInit => Sourced
  BY DEF AnalyzerInit, Sourced, None
<1>2. Sourced => CacheOwnTenant
  <2>1. \A a, m \in Alert : CacheKey(m) = CacheKey(a)
            => TenantOfAlert[m] = TenantOfAlert[a] /\ BucketOf[m] = BucketOf[a]
    BY DEF CacheKey
  <2>. QED
    BY <2>1 DEF Sourced, ByLlm, CacheOwnTenant
<1>. QED
  BY <1>1, <1>2, SourcedStep, AnalyzerTypes, PTL DEF AnalyzerSpec

(***************************************************************************)
(* The way of an alert to its decision.                                    *)
(***************************************************************************)

\* What is known of an alert at each step.
Way(a) ==
    /\ work[a] = "publish" => a \in stored \/ alertFaults > 0
    /\ work[a] \in {"ack", "done"} => a \in BadAlert \/ \E d \in decided : d.alert = a
    /\ \A d \in decided : d.alert = a =>
          /\ work[a] \in {"ack", "done", "stuck"}
          /\ IF d.id = 0 THEN alertFaults > 0 ELSE d.id = a /\ a \in stored
    /\ \A d, e \in decided : d.alert = a /\ e.alert = a => d = e

Ways == \A a \in Alert : Way(a)

\* A step that brings an alert neither to its publication nor past it.
Bystander(a) ==
    /\ decided' = decided /\ stored \subseteq stored'
    /\ alertFaults > 0 => alertFaults' > 0
    /\ work'[a] = "publish" => work[a] = "publish"
    /\ work'[a] \in {"ack", "done"} => work[a] \in {"ack", "done"}
    /\ work[a] \in {"ack", "done", "stuck"} => work'[a] \in {"ack", "done", "stuck"}

LEMMA BystanderKeeps ==
    ASSUME NEW a \in Alert, Way(a), Bystander(a) PROVE Way(a)'
BY DEF Way, Bystander

LEMMA WaysStep == AnalyzerTypeOK /\ Ways /\ [AnalyzerNext]_analyzerVars => Ways'
<1>. SUFFICES ASSUME AnalyzerTypeOK, Ways, AnalyzerNext, NEW a \in Alert PROVE Way(a)'
  BY DEF analyzerVars, Ways, Way
<1>w. Way(a)
  BY DEF Ways
<1>t. /\ work \in [Alert -> AlertStep] /\ stored \subseteq Alert /\ alertFaults \in Nat
      /\ decided \subseteq [alert : Alert, id : Alert \cup {0}]
  BY DEF AnalyzerTypeOK
<1>f. AlertFault => alertFaults' > 0
  BY <1>t DEF AlertFault
<1>1. ASSUME NEW b \in Alert, NEW to, work' = [work EXCEPT ![b] = to],
             decided' = decided, stored \subseteq stored',
             alertFaults' = alertFaults \/ alertFaults' > 0,
             b = a => \/ /\ work[b] \notin {"ack", "done", "stuck"}
                         /\ to \notin {"publish", "ack", "done"}
                      \/ work[b] = "ack" /\ to = "done"
                      \/ to = "stuck"
      PROVE  Way(a)'
  <2>1. CASE a # b
    BY <1>1, <1>t, <1>w, <2>1, BystanderKeeps DEF Bystander
  <2>2. CASE a = b /\ work[a] \notin {"ack", "done", "stuck"} /\ to \notin {"publish", "ack", "done"}
    BY <1>1, <1>t, <1>w, <2>2, BystanderKeeps DEF Bystander
  <2>3. CASE a = b /\ work[a] = "ack" /\ to = "done"
    BY <1>1, <1>t, <1>w, <2>3, BystanderKeeps DEF Bystander
  <2>4. CASE a = b /\ to = "stuck"
    BY <1>1, <1>t, <1>w, <2>4, BystanderKeeps DEF Bystander
  <2>. QED
    BY <1>1, <2>1, <2>2, <2>3, <2>4
<1>2. ASSUME NEW n \in Alert, ReadAlerts(n) PROVE Way(a)'
  <2>1. Bystander(a)
    BY <1>2, <1>t DEF ReadAlerts, Delivered, Bystander, output
  <2>. QED
    BY <1>w, <2>1, BystanderKeeps
<1>3. ASSUME NEW b \in Alert, RejectAlert(b) PROVE Way(a)'
  <2>1. /\ b \in BadAlert /\ work[b] = "inbox" /\ work' = [work EXCEPT ![b] = "ack"]
        /\ UNCHANGED <<stored, decided, alertFaults>>
    BY <1>3 DEF RejectAlert, ToStep, output
  <2>2. CASE a = b
    BY <1>t, <1>w, <2>1, <2>2 DEF Way
  <2>3. CASE a # b
    BY <1>t, <1>w, <2>1, <2>3, BystanderKeeps DEF Bystander
  <2>. QED
    BY <2>2, <2>3
<1>4. ASSUME NEW b \in Alert, FromCache(b) \/ CallSucceeds(b) \/ CacheAnalysis(b) \/ AskCircuit(b)
      PROVE  Way(a)'
  <2>1. \E to \in {"call", "cache", "store"} :
            /\ work[b] \in {"inbox", "call", "cache"} /\ work' = [work EXCEPT ![b] = to]
            /\ UNCHANGED <<stored, decided, alertFaults>>
    BY <1>4 DEF FromCache, CallSucceeds, CacheAnalysis, AskCircuit, ToStep, output
  <2>. QED
    BY <1>1, <2>1
<1>5. ASSUME NEW b \in Alert, CallFails(b) \/ CacheError(b) PROVE Way(a)'
  <2>1. \E to \in {"call", "store"} :
            work[b] \in {"call", "cache"} /\ work' = [work EXCEPT ![b] = to]
    BY <1>5 DEF CallFails, CacheError, NextModel, ToStep
  <2>2. UNCHANGED <<stored, decided>> /\ (alertFaults' = alertFaults \/ alertFaults' > 0)
    BY <1>5, <1>f DEF CallFails, CacheError, output
  <2>. QED
    BY <1>1, <2>1, <2>2
<1>6. ASSUME NEW b \in Alert, StoreAlert(b) \/ StoreError(b) PROVE Way(a)'
  <2>1. /\ work[b] = "store" /\ work' = [work EXCEPT ![b] = "publish"] /\ decided' = decided
        /\ \/ stored' = stored \cup {b} /\ alertFaults' = alertFaults
           \/ stored' = stored /\ alertFaults' > 0
    BY <1>6, <1>f DEF StoreAlert, StoreError, ToStep, output
  <2>2. CASE a = b
    BY <1>t, <1>w, <2>1, <2>2 DEF Way
  <2>3. CASE a # b
    BY <1>t, <1>w, <2>1, <2>3, BystanderKeeps DEF Bystander
  <2>. QED
    BY <2>2, <2>3
<1>7. ASSUME NEW b \in Alert, PublishDecision(b) PROVE Way(a)'
  <2> DEFINE d0 == [alert |-> b, id |-> IF b \in stored THEN b ELSE 0]
  <2>1. /\ work[b] = "publish" /\ work' = [work EXCEPT ![b] = "ack"]
        /\ decided' = decided \cup {d0} /\ UNCHANGED <<stored, alertFaults>>
    BY <1>7 DEF PublishDecision, ToStep
  <2>2. CASE a = b
    <3>1. \A d \in decided : d.alert # b
      BY <1>w, <2>1, <2>2 DEF Way
    <3>2. d0.alert = b /\ IF d0.id = 0 THEN alertFaults > 0 ELSE d0.id = b /\ b \in stored
      BY <1>w, <2>1, <2>2, AlertNat DEF Way
    <3>3. work'[a] = "ack"
      BY <1>t, <2>1, <2>2
    <3> HIDE DEF d0
    <3>4. \A d \in decided' : d.alert = a => d = d0
      BY <2>1, <2>2, <3>1
    <3>. QED
      BY <2>1, <2>2, <3>2, <3>3, <3>4 DEF Way
  <2>3. CASE a # b
    <3>1. \A d \in decided' : d.alert = a => d \in decided
      BY <2>1, <2>3
    <3>2. decided \subseteq decided' /\ work'[a] = work[a]
      BY <1>t, <2>1, <2>3
    <3>. QED
      BY <1>w, <2>1, <3>1, <3>2 DEF Way
  <2>. QED
    BY <2>2, <2>3
<1>8. ASSUME NEW b \in Alert, AckAlert(b) PROVE Way(a)'
  <2>1. /\ work[b] = "ack" /\ work' = [work EXCEPT ![b] = "done"]
        /\ UNCHANGED <<stored, decided, alertFaults>>
    BY <1>8 DEF AckAlert, ToStep, output
  <2>. QED
    BY <1>1, <2>1
<1>9. ASSUME NEW b \in Alert, AlertError(b) PROVE Way(a)'
  <2>1. work' = [work EXCEPT ![b] = "stuck"] /\ UNCHANGED <<stored, decided>> /\ alertFaults' > 0
    BY <1>9, <1>f DEF AlertError, output
  <2>. QED
    BY <1>1, <2>1
<1>10. ASSUME AnalyzerRestart PROVE Way(a)'
  <2>1. work' = Abandoned(work) /\ UNCHANGED <<stored, decided>> /\ alertFaults' > 0
    BY <1>10, <1>f DEF AnalyzerRestart, output
  <2>2. work'[a] = work[a] \/ work'[a] = "stuck"
    BY <1>t, <2>1 DEF Abandoned
  <2>3. Bystander(a)
    BY <2>1, <2>2 DEF Bystander
  <2>. QED
    BY <1>w, <2>3, BystanderKeeps
<1>11. CASE ReadGauge \/ CircuitCools \/ \E e \in cached : CacheExpires(e)
  <2>1. UNCHANGED <<work, stored, decided, alertFaults>>
    BY <1>11 DEF ReadGauge, CircuitCools, CacheExpires, output
  <2>. QED
    BY <1>w, <2>1, BystanderKeeps DEF Bystander
<1>. QED
  BY <1>2, <1>3, <1>4, <1>5, <1>6, <1>7, <1>8, <1>9, <1>10, <1>11
     DEF AnalyzerNext, Analyzer, Handle

\* Invariance of AlertsPassedOn: a valid alert is acknowledged only once its decision is
\* requested, once, and under the id of its row unless the row could not be written.
THEOREM AlertsPassed == AnalyzerSpec => []AlertsPassedOn
<1>1. AnalyzerInit => Ways
  BY DEF AnalyzerInit, Ways, Way
<1>2. AnalyzerTypeOK /\ Ways => AlertsPassedOn
  <2>. SUFFICES ASSUME AnalyzerTypeOK, Ways PROVE AlertsPassedOn
    OBVIOUS
  <2>1. \A d \in decided : d.alert \in Alert
    BY DEF AnalyzerTypeOK
  <2>. QED
    BY <2>1 DEF Ways, Way, AlertsPassedOn
<1>. QED
  BY <1>1, <1>2, WaysStep, AnalyzerTypes, PTL DEF AnalyzerSpec
=============================================================================
