----------------------------- MODULE MCDetection -----------------------------
(* The components of detection, and the blocklist it feeds, for TLC.  They   *)
(* share no variable, so one run checks them side by side: part names the    *)
(* one whose turn it is, for good.                                           *)
EXTENDS TrafficWindow, FeaturePipeline, AlertAnalyzer, ModelRegistry, Blocklist

CONSTANTS t1, t2, a1, a2, Parts

VARIABLE part

vars == <<part, windowVars, flowVars, analyzerVars, registryVars, blocklistVars>>

MCFlow     == {<<t1, a1>>, <<t2, a1>>}
MCSource   == {<<t1, a1>>, <<t2, a1>>}
MCSourceOf == [p \in 1..3 |-> IF p = 3 THEN <<t2, a1>> ELSE <<t1, a1>>]
MCTenantOf == [a \in 1..4 |-> IF a = 2 THEN t2 ELSE t1]
MCBucketOf == [a \in 1..4 |-> 500]

\* The first command is one tenant's, the others, for the same address, another's.
MCPairOf == [c \in Command |-> IF c = 1 THEN <<t1, a1>> ELSE <<t2, a1>>]

\* Requests are interchangeable: they are numbered in the order of what they ask.
MCRank == [gateway |-> 1, mobile |-> 2, unblock |-> 3]
MCSorted == \A r, s \in Request : r < s => MCRank[req[r].op] <= MCRank[req[s].op]

Init ==
    /\ part \in Parts
    /\ WindowInit /\ FlowInit /\ AnalyzerInit /\ RegistryInit /\ BlocklistInit
    /\ part # "flow" => ~loaded
    /\ part # "registry" => engine.model = Nothing
    /\ MCSorted
    /\ part # "firewall" => \A r \in Request : req[r].op = "mobile" /\ req[r].pair = <<t1, a1>>

NotWindow    == UNCHANGED <<part, flowVars, analyzerVars, registryVars, blocklistVars>>
NotFlow      == UNCHANGED <<part, windowVars, analyzerVars, registryVars, blocklistVars>>
NotAnalyzer  == UNCHANGED <<part, windowVars, flowVars, registryVars, blocklistVars>>
NotRegistry  == UNCHANGED <<part, windowVars, flowVars, analyzerVars, blocklistVars>>
NotBlocklist == UNCHANGED <<part, windowVars, flowVars, analyzerVars, registryVars>>

Next ==
    \/ part = "window" /\ WindowNext /\ NotWindow
    \/ part = "flow" /\ FlowNext /\ NotFlow
    \/ part = "analyzer" /\ AnalyzerNext /\ NotAnalyzer
    \/ part = "registry" /\ RegistryNext /\ NotRegistry
    \/ part = "firewall" /\ BlocklistNext /\ NotBlocklist

\* Every loop of a running process goes on: the metrics loop and the expiry of
\* what it published, the consumers, the engine's poll, the firewall's start,
\* reload and loop.
Fairness ==
    /\ WF_vars(part = "window" /\ MetricsLoop /\ NotWindow)
    /\ \A t \in Tenants : WF_vars(part = "window" /\ MetricsExpire(t) /\ NotWindow)
    /\ WF_vars(part = "flow" /\ Extractor /\ NotFlow)
    /\ WF_vars(part = "flow" /\ Engine /\ NotFlow)
    /\ WF_vars(part = "analyzer" /\ Analyzer /\ NotAnalyzer)
    /\ WF_vars(part = "registry" /\ EngineWorks /\ NotRegistry)
    /\ WF_vars(part = "firewall" /\ Controller /\ NotBlocklist)

Spec == Init /\ [][Next]_vars /\ Fairness

DetectionTypes ==
    /\ WindowTypeOK /\ FlowTypeOK /\ AnalyzerTypeOK /\ RegistryTypeOK /\ BlocklistTypeOK

\* PacketsServed and AlertsServed, each of its part.
StreamsServed ==
    <>[](/\ part = "flow" => PacketsDrained
         /\ part = "analyzer" => AlertsDrained)

\* Every command that enters stream:block_commands is acknowledged or, after an error
\* or a crash, pending for good: no invalid entry, error or restart keeps the later
\* ones waiting.
CommandsServed == <>[](part = "firewall" => CommandsDrained)
=============================================================================
