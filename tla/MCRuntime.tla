-------------------------------- MODULE MCRuntime --------------------------------
(* Small instances of the modules on what runs for a flow: the program built  *)
(* from its graph, values and bridges, the conditions of its alerts, and      *)
(* where their pushes go.  A behaviour is one of one of them, `part`.         *)
EXTENDS FlowBuilder, RuntimeValues, FlowBridges, AlertConditions, PushTargets, FlowPreference,
        TLC

VARIABLE part

runtimeVars == <<graphVars, payload, bridgeVars, stored, targetVars, prefVars, part>>

\* supportedOperators an administrator sends: known and unknown ones
MCOperatorLists == {<<>>, <<">">>, <<"between">>, <<"between", "<", ">">>, <<"!=", "outside">>}
MCReadings == -1 .. 11
MCSentNumbers == {-3, 0, 1, 100, 300, 5000}

\* Graphs have four nodes, whose modules are in the order of Kinds; the last may be
\* configured wrongly or take another's pin.
Kinds == <<"input", "gas", "mqtt-in", "function", "output", "mqtt-out">>
PinsA == <<18, 19, 21, 22>>
PinsB == <<32, 33, 34, 35>>

Configured(module, i) ==
    [module |-> module, a |-> PinsA[i], b |-> PinsB[i], useA |-> TRUE, useB |-> i # 3, valid |-> TRUE]

Wrong(module) ==
    LET x == Configured(module, 4) IN
    CASE module \in {"function", "mqtt-out"} -> {[x EXCEPT !.valid = FALSE]}
      [] module = "mqtt-in" -> {}
      [] OTHER -> {[x EXCEPT !.a = p] : p \in {NoPin, 12, 18}}
                  \cup {[x EXCEPT !.a = NoPin, !.useA = FALSE, !.b = 32],
                        [x EXCEPT !.module = IF module = "output" THEN "dac" ELSE module, !.a = 26]}

MCCatalogue == UNION {{Configured(Kinds[k], i) : i \in 1 .. 4} \cup Wrong(Kinds[k]) : k \in 1 .. Len(Kinds)}

Orders == {k \in [1 .. 4 -> 1 .. Len(Kinds)] : \A i \in 1 .. 3 : k[i] <= k[i + 1]}
Graphs ==
    UNION {{[i \in 1 .. 4 |-> IF i = 4 THEN x ELSE Configured(Kinds[k[i]], i)] :
              x \in {Configured(Kinds[k[4]], 4)} \cup Wrong(Kinds[k[4]])} : k \in Orders}

\* Ids differ, or the first two nodes share one, of inputs, functions and outputs.
OwnIds == [n \in 1 .. 4 |-> n]
OneShared == [OwnIds EXCEPT ![2] = 1]
SharingGraphs ==
    {[i \in 1 .. 4 |-> Configured(k[i], i)] :
       k \in [1 .. 4 -> {"input", "function", "output"}]}

\* Two devices, each with an owner
MCOwnerOf == [d \in BridgeDevices |-> IF d = "d1" THEN "u1" ELSE "u2"]

\* Programs: outputs for a bridge, bridges to one flow or to both, one from a bridge, and one
\* from a node whose id is its channel, which forwards what comes over it
MCPath(from, in, out, targets, channel) ==
    [from |-> from, in |-> in, function |-> in = "mqtt-in", out |-> out, targets |-> targets,
     channel |-> channel]
MCReceiver == MCPath("c1", "mqtt-in", "output", {}, "none")
MCPrograms ==
    {{}, {MCReceiver}, {MCPath("s1", "sensor", "mqtt-out", {"f2"}, "c1")},
     {MCPath("s1", "sensor", "mqtt-out", {"f1", "f2"}, "c1"), MCReceiver},
     {MCPath("c1", "mqtt-in", "mqtt-out", {"f1"}, "c1")},
     {MCPath("n1", "sensor", "mqtt-out", {"f1"}, "n1")}}

\* Requests are interchangeable.
RuntimeSymmetry == Permutations(TargetRequests) \cup Permutations(PrefRequests)

RuntimeInit ==
    /\ ValuesInit /\ BridgesInit /\ ConditionInit /\ TargetInit /\ PrefInit
    /\ edges = {}
    /\ part \in {"graph", "values", "bridges", "conditions", "tokens", "preference"}
    /\ IF part = "graph"
       THEN \/ node \in Graphs /\ id = OwnIds
            \/ node \in SharingGraphs /\ id = OneShared
       ELSE node = [n \in 1 .. 4 |-> CHOOSE x \in Wrong("function") : TRUE] /\ id = OwnIds

\* Edges of graphs whose pins and functions are refused add nothing.
DrawGraph == GraphNext /\ SetupAccepts /\ FunctionsValid

RuntimeNext ==
    /\ UNCHANGED part
    /\ \/ /\ part = "graph" /\ DrawGraph
          /\ UNCHANGED <<payload, bridgeVars, stored, targetVars, prefVars>>
       \/ /\ part = "values" /\ ValuesNext
          /\ UNCHANGED <<graphVars, bridgeVars, stored, targetVars, prefVars>>
       \/ /\ part = "bridges" /\ BridgesNext
          /\ UNCHANGED <<graphVars, payload, stored, targetVars, prefVars>>
       \/ /\ part = "conditions" /\ ConditionNext
          /\ UNCHANGED <<graphVars, payload, bridgeVars, targetVars, prefVars>>
       \/ /\ part = "tokens" /\ TargetNext
          /\ UNCHANGED <<graphVars, payload, bridgeVars, stored, prefVars>>
       \/ /\ part = "preference" /\ PrefNext
          /\ UNCHANGED <<graphVars, payload, bridgeVars, stored, targetVars>>

RuntimeSpec == RuntimeInit /\ [][RuntimeNext]_runtimeVars

==================================================================================
