------------------------------ MODULE FlowBuilder ------------------------------
(* What becomes of the graph an owner draws: FlowsService validates its       *)
(* structure, builds the setup of the pins, the UI items and the program, and *)
(* LogicService sanitises the program before it is stored.                    *)
(*                                                                            *)
(* A node is its module and the settings that count; names, positions, alert  *)
(* texts, task names and polling intervals are left out.  A function is valid *)
(* or not as a whole.  The model of the editor draws on valid graphs only.    *)
(*                                                                            *)
(* Nodes are the entries of a list, and nothing makes their ids differ: edges *)
(* name ids, and an id stands for the last node of the list that has it.      *)
EXTENDS Naturals, FiniteSets, Sequences

CONSTANTS
    GraphNodes,       \* positions in the list of nodes
    Ids,              \* ids a node may have
    Catalogue,        \* configured modules: [module, a, b, useA, useB, valid]
    MaxEdges,         \* bound: edges drawn
    MaxPaths, MaxSteps, MaxFunctions    \* MAX_RUNTIME_FLOW_PATHS, ..._STEPS_PER_PATH, ..._FUNCTION_STEPS_PER_PATH

ASSUME GraphAssumption == IsFiniteSet(GraphNodes) /\ GraphNodes \subseteq Nat /\ IsFiniteSet(Ids)

\* A pin setting that is absent
NoPin == 99

VARIABLES
    node,      \* node[n]: the module and settings of a node
    id,        \* id[n]: its id
    edges      \* pairs <<source, target>> of ids

graphVars == <<node, id, edges>>

Valid == {0, 1, 2, 3, 4, 5, 12, 13, 14, 15, 16, 17, 18, 19, 21, 22, 23, 25, 26, 27, 32,
          33, 34, 35, 36, 39}
Reserved == {0, 1, 2, 3, 6, 7, 8, 9, 10, 11, 12, 15, 16}
InputOnly == {34, 35, 36, 39}
InputPins == Valid \ Reserved
IoPins == InputPins \ InputOnly
AnalogPins == {32, 33} \cup InputOnly
DacPins == {25, 26}

\* Modules with the same pins and ports share a name: "output" is digital, LED, PWM or servo,
\* "sensor" DHT or PIR, "gas" MQ2, rain or soil
Inputs == {"input", "analog", "sensor", "ultrasonic", "gas", "mqtt-in"}
Outputs == {"output", "dac", "mqtt-out"}

\* The pins a configured module takes, each with the pins that are allowed for it.  A gas,
\* rain or soil sensor takes the pins of the readings that are switched on.
Pins(x) ==
    CASE x.module \in {"input", "sensor"} -> {[slot |-> "a", pin |-> x.a, allowed |-> InputPins]}
      [] x.module = "analog" -> {[slot |-> "a", pin |-> x.a, allowed |-> AnalogPins]}
      [] x.module = "output" -> {[slot |-> "a", pin |-> x.a, allowed |-> IoPins]}
      [] x.module = "dac" -> {[slot |-> "a", pin |-> x.a, allowed |-> DacPins]}
      [] x.module = "ultrasonic" -> {[slot |-> "a", pin |-> x.a, allowed |-> IoPins],
                                     [slot |-> "b", pin |-> x.b, allowed |-> InputPins]}
      [] x.module = "gas" ->
           {p \in {[slot |-> "a", pin |-> x.a, allowed |-> InputPins],
                   [slot |-> "b", pin |-> x.b, allowed |-> AnalogPins]} :
              (IF p.slot = "a" THEN x.useA ELSE x.useB) /\ p.pin # NoPin}
      [] OTHER -> {}

-------------------------------------------------------------------------------
(* Structure, setup and UI                                                     *)

\* MUTANT: an id with two incoming edges passes.
AnyStructure(E) == TRUE

\* validateFlowStructure: one incoming edge at most, counted by id.  An edge that is listed
\* twice counts twice, so a set of them leaves nothing out.
ValidStructure(E) == \A e1, e2 \in E : e1[2] = e2[2] => e1 = e2

\* All pins the graph takes, with the node that takes them
Taken == UNION {{[node |-> n, slot |-> p.slot, pin |-> p.pin, allowed |-> p.allowed] :
                   p \in Pins(node[n])} : n \in GraphNodes}

\* buildSetupFromNodes: settings are complete, pins allowed and taken once
SetupAccepts ==
    /\ \A n \in GraphNodes : node[n].module = "gas" => Pins(node[n]) # {}
    /\ \A t \in Taken : t.pin # NoPin /\ t.pin \in t.allowed
    /\ \A t, u \in Taken : t.pin = u.pin => t = u

\* buildUiFromNodes asks for every pin that is switched on
UiAccepts ==
    \A n \in GraphNodes : LET x == node[n] IN
      x.module = "gas" => (x.useA => x.a # NoPin) /\ (x.useB => x.b # NoPin)

-------------------------------------------------------------------------------
(* The program                                                                *)

\* buildNodeByIdMap: the node its id stands for
HasId(n) == \A m \in GraphNodes : id[m] = id[n] => m <= n

\* An edge of m's id leads to n.
Edge(m, n) == <<id[m], id[n]>> \in edges /\ HasId(n)

\* The nodes that the edges of a node's id lead to.  They have different ids, so the paths
\* from a node are a set, and those from different nodes are different paths.
Targets(n) == {t \in GraphNodes : Edge(n, t)}
Module(n) == node[n].module

\* Calls of the recursion: a node, and the ids visited before it
Calls == GraphNodes \X SUBSET Ids

\* MUTANT: the loop over the targets ends with the first output.
FirstOutput(n) ==
    LET outputs == {t \in Targets(n) : Module(t) \in Outputs} IN
    IF outputs = {} THEN {} ELSE {CHOOSE t \in outputs : TRUE}

\* What a node feeds: outputs, and functions that lead on
OutputTargets(n) == {t \in Targets(n) : Module(t) \in Outputs}
FunctionTargets(n) == {t \in Targets(n) : Module(t) = "function"}

\* buildPathsFromNode: what follows a node, as paths that end with an output.  Targets that
\* are inputs are skipped, and a node whose id was visited has none.
PathsFrom[c \in Calls] ==
    LET n == c[1] visited == c[2] IN
    IF id[n] \in visited THEN {}
    ELSE {<<t>> : t \in OutputTargets(n)}
         \cup UNION {{<<t>> \o path : path \in PathsFrom[<<t, visited \cup {id[n]}>>]} :
                       t \in FunctionTargets(n)}

\* ... and whether it throws: a bridge that does not feed a function, a bridge without
\* target flows, a function that leads to no output
Throws[c \in Calls] ==
    LET n == c[1] visited == c[2] IN
    /\ id[n] \notin visited
    /\ \E t \in Targets(n) :
         \/ Module(n) = "mqtt-in" /\ Module(t) # "function"
         \/ Module(t) = "mqtt-out" /\ ~node[t].valid
         \/ /\ Module(t) = "function"
            /\ \/ Throws[<<t, visited \cup {id[n]}>>]
               \/ PathsFrom[<<t, visited \cup {id[n]}>>] = {}

InputNodes == {n \in GraphNodes : Module(n) \in Inputs}

\* validateFunctionNodes
FunctionsValid == \A n \in GraphNodes : Module(n) = "function" => node[n].valid

\* buildLogicCommandsFromGraph: the code of all functions is checked first
BuildAccepts ==
    /\ FunctionsValid
    /\ \A n \in InputNodes : ~Throws[<<n, {}>>]

Program == UNION {{<<n>> \o path : path \in PathsFrom[<<n, {}>>]} : n \in InputNodes}

Bridge(path) == Module(path[1]) = "mqtt-in" /\ Module(path[Len(path)]) = "mqtt-out"
Functions(path) == {i \in 1 .. Len(path) : Module(path[i]) = "function"}
TooBig(program) ==
    \/ Cardinality(program) > MaxPaths
    \/ \E path \in program : Len(path) > MaxSteps \/ Cardinality(Functions(path)) > MaxFunctions

\* sanitizeProgram
Sanitised(program) ==
    /\ ~TooBig(program)
    /\ \A path \in program :
         /\ path # <<>> /\ Module(path[1]) \in Inputs
         /\ ~Bridge(path)
         /\ Module(path[Len(path)]) \in Outputs
         /\ \A i \in 2 .. Len(path) - 1 : Module(path[i]) = "function"

-------------------------------------------------------------------------------
GraphInit ==
    /\ node \in [GraphNodes -> Catalogue]
    /\ id \in [GraphNodes -> Ids]
    /\ edges = {}

Connect(s, t) ==
    /\ Cardinality(edges) < MaxEdges
    /\ <<s, t>> \notin edges /\ ValidStructure(edges \cup {<<s, t>>})
    /\ edges' = edges \cup {<<s, t>>}
    /\ UNCHANGED <<node, id>>

GraphNext == \E s, t \in {id[n] : n \in GraphNodes} : Connect(s, t)

GraphSpec == GraphInit /\ [][GraphNext]_graphVars

Accepted == ValidStructure(edges) /\ SetupAccepts /\ UiAccepts /\ BuildAccepts

\* No id comes twice among the first k nodes of a path.
NoIdTwice(p, k) == \A i, j \in 1 .. k : id[p[i]] = id[p[j]] => i = j

\* Reference: the paths of the graph, on which no id comes twice before the end
SimplePaths ==
    UNION {{p \in [1 .. k -> GraphNodes] :
              NoIdTwice(p, k - 1) /\ \A i \in 1 .. k - 1 : Edge(p[i], p[i + 1])} :
             k \in 2 .. Cardinality(GraphNodes)}

\* The program built from an accepted graph is every path of the graph from an input over
\* functions to an output, and nothing else; no function that an input feeds is a dead end;
\* and the sanitiser, which runs when flow, setup and UI are already written
\* (flows.service.ts:236), refuses it for a bridge from mqtt-in to mqtt-out or its size only.
ProgramIsAllPaths ==
    Accepted =>
      LET program == Program
          paths == SimplePaths
          Feeds(p, last) == /\ Module(p[1]) \in Inputs
                            /\ \A i \in 2 .. last : Module(p[i]) = "function" IN
      /\ program = {p \in paths : Feeds(p, Len(p) - 1) /\ Module(p[Len(p)]) \in Outputs}
      /\ \A p \in paths : Feeds(p, Len(p)) /\ NoIdTwice(p, Len(p)) =>
           \E path \in program : Len(path) > Len(p) /\ SubSeq(path, 1, Len(p)) = p
      /\ Sanitised(program) \/ TooBig(program) \/ \E path \in program : Bridge(path)

\* The nodes of p have the ids of the last nodes of q.
EndsLike(p, q) == \A k \in 0 .. Len(p) - 1 : id[p[Len(p) - k]] = id[q[Len(q) - k]]

SharesId(n) == \E m \in GraphNodes : m # n /\ id[m] = id[n]

\* What drives a pin of an accepted graph: one node takes it, and one chain of edges leads to
\* the output on it.  Two paths of the program command it only where nodes share an id, which
\* nothing forbids (validateFlowStructure): the shorter of them, or either if they are as long,
\* begins at a node whose id another node has too, and goes the way the other one ends.
OneDriver ==
    Accepted =>
      \A pin \in Valid :
        LET commanding == {path \in Program :
              LET last == node[path[Len(path)]] IN last.module \in {"output", "dac"} /\ last.a = pin} IN
        /\ Cardinality({t \in Taken : t.pin = pin}) <= 1
        /\ \A p, q \in commanding :
             p # q /\ Len(p) <= Len(q) => SharesId(p[1]) /\ EndsLike(p, q)
================================================================================
