------------------------------ MODULE FlowBridges ------------------------------
(* The programs of flows at work: a device's message runs the paths that      *)
(* begin with its node, functions let it pass or stop it, outputs command the *)
(* device, and bridges forward it to the programs of other flows of its       *)
(* owner.  What values are commanded is in RuntimeValues, how a program is    *)
(* read and cached in FlowLife: here a task reads the saved one.              *)
EXTENDS Naturals, FiniteSets

CONSTANTS
    BridgeFlows, BridgeDevices, BridgeUsers,
    OwnerOf,         \* the owner of each device
    Sensors,         \* ids of input nodes
    Channels,        \* channels of bridges
    Unlinked,        \* no flow
    Programs,        \* bound: the programs owners save, sets of paths
    MaxTasks,        \* bound: forwards in progress
    MaxHops          \* bound: times a message is forwarded

ASSUME BridgesAssumption ==
    /\ OwnerOf \in [BridgeDevices -> BridgeUsers]
    /\ Unlinked \notin BridgeFlows
    /\ MaxHops \in Nat /\ MaxTasks \in Nat

VARIABLES
    program,     \* program[f]: its paths
    activeFlow,  \* activeFlow[d]: the device's activeFlowId
    clientFlow,  \* clientFlow[d]: linkedFlowId of the device's connection
    tasks        \* processRuntimeInputAndForwarding and executeInternalMqttForward under way

bridgeVars == <<program, activeFlow, clientFlow, tasks>>

\* A path begins with a node, or with a bridge for a channel, and ends with an output or
\* with a bridge to flows.  "function": a function is between.
RuntimePaths == [from : Sensors \cup Channels, in : {"sensor", "mqtt-in"}, function : BOOLEAN,
          out : {"output"}, targets : {{}}, channel : {"none"}]
         \cup [from : Sensors \cup Channels, in : {"sensor", "mqtt-in"}, function : BOOLEAN,
               out : {"mqtt-out"}, targets : SUBSET BridgeFlows \ {{}}, channel : Channels]

\* Nodes and channels are where they belong, and a bridge feeds a function
Built(path) ==
    /\ path.from \in IF path.in = "sensor" THEN Sensors ELSE Channels
    /\ path.in = "mqtt-in" => path.function

\* MUTANT: bridges from bridges are stored.
AnyPath(path) == TRUE

\* sanitizeProgram
Storable(path) == ~(path.in = "mqtt-in" /\ path.out = "mqtt-out")

\* A task at "run" has the flow, the id of its input topic or its channel, and the device
\* whose outputs it commands; one at "forward" is about to look for the device of the flow.
\* last is the input of the task that forwarded it.
Tasks == [at : {"run", "forward"}, flow : BridgeFlows, input : Sensors \cup Channels,
          device : BridgeDevices, owner : BridgeUsers, hops : 0 .. MaxHops,
          last : Sensors \cup Channels]

BridgesInit ==
    /\ program = [f \in BridgeFlows |-> {}]
    /\ activeFlow = [d \in BridgeDevices |-> Unlinked] /\ clientFlow = activeFlow
    /\ tasks = {}

\* A program that is refused leaves the stored one
SaveProgram(f, paths) ==
    /\ paths \subseteq RuntimePaths
    /\ \A path \in paths : Built(path) /\ Storable(path)
    /\ program' = [program EXCEPT ![f] = paths]
    /\ UNCHANGED <<activeFlow, clientFlow, tasks>>

\* A link changes; the device's connection learns of it when it is made anew
LinkFlow(d, f) ==
    /\ activeFlow' = [activeFlow EXCEPT ![d] = f]
    /\ UNCHANGED <<program, clientFlow, tasks>>

ConnectAgain(d) ==
    /\ clientFlow' = [clientFlow EXCEPT ![d] = activeFlow[d]]
    /\ UNCHANGED <<program, activeFlow, tasks>>

\* onClientPublish for an input topic: the flow in the topic, if there is one, is the
\* connection's; a node of no path is for the alert rules only
DevicePublishes(d, f, input) ==
    /\ clientFlow[d] \in {f, Unlinked}
    /\ clientFlow[d] = f => \E path \in program[f] : path.in = "sensor" /\ path.from = input
    /\ tasks = {}                                     \* bound: one message at a time
    /\ tasks' = {[at |-> "run", flow |-> f, input |-> input, device |-> d,
                   owner |-> OwnerOf[d], hops |-> 0, last |-> input]}
    /\ UNCHANGED <<program, activeFlow, clientFlow>>

\* A path matches by its channel or by its node; a message on a topic may name either
Matching(t) == {path \in program[t.flow] : path.from = t.input}

\* A function that returns nothing, or fails, ends its path
MayStop(path) == path.function

\* A bridge forwards to each of its flows
Forwards(t, path) ==
    {[t EXCEPT !.at = "forward", !.flow = f, !.input = path.channel, !.hops = t.hops + 1,
               !.last = t.input] :
       f \in path.targets}

\* processRuntimeInputAndForwarding runs through the program it read: the outputs of the
\* paths that are not stopped command the task's device (an output has no targets)
Run(t) ==
    /\ t.at = "run"
    /\ \E passed \in SUBSET Matching(t) :
         LET forwards == UNION {Forwards(t, path) : path \in passed} IN
         /\ \A path \in Matching(t) \ passed : MayStop(path)
         /\ forwards # {} => t.hops < MaxHops
         /\ Cardinality((tasks \ {t}) \cup forwards) <= MaxTasks
         /\ tasks' = (tasks \ {t}) \cup forwards
    /\ UNCHANGED <<program, activeFlow, clientFlow>>

\* executeInternalMqttForward: a device linked to the flow, if there is one and it has the
\* same owner, runs the flow's paths for the channel
ForwardTo(t, d) ==
    /\ t.at = "forward"
    /\ activeFlow[d] = t.flow
    /\ tasks' = (tasks \ {t}) \cup
                IF OwnerOf[d] = t.owner THEN {[t EXCEPT !.at = "run", !.device = d]} ELSE {}
    /\ UNCHANGED <<program, activeFlow, clientFlow>>

ForwardToNobody(t) ==
    /\ t.at = "forward"
    /\ \A d \in BridgeDevices : activeFlow[d] # t.flow
    /\ tasks' = tasks \ {t}
    /\ UNCHANGED <<program, activeFlow, clientFlow>>

BridgesNext ==
    \/ \E f \in BridgeFlows : \E paths \in Programs : SaveProgram(f, paths)
    \/ \E d \in BridgeDevices : \/ \E f \in BridgeFlows \cup {Unlinked} : LinkFlow(d, f)
                                \/ ConnectAgain(d)
                                \/ \E f \in BridgeFlows, i \in Sensors \cup Channels :
                                     DevicePublishes(d, f, i)
    \/ \E t \in tasks : Run(t) \/ ForwardToNobody(t) \/ \E d \in BridgeDevices : ForwardTo(t, d)

BridgesSpec == BridgesInit /\ [][BridgesNext]_bridgeVars

BridgesTypeOK ==
    /\ program \in [BridgeFlows -> SUBSET RuntimePaths]
    /\ activeFlow \in [BridgeDevices -> BridgeFlows \cup {Unlinked}]
    /\ clientFlow \in [BridgeDevices -> BridgeFlows \cup {Unlinked}]
    /\ tasks \subseteq Tasks

\* Nothing counts the hops of a message (mqtt.handlers.ts:2052-2112): what ends it is that the
\* sanitiser refuses paths from bridge to bridge.  A message that came over a channel is
\* forwarded again only where that channel is the id of an input node, which nothing forbids.
\* Programs and links may change while it is under way, and the device it commands belongs to
\* the owner it came from.
ForwardOnce ==
    \A t \in tasks : /\ t.hops > 1 => t.last \in Sensors \cap Channels
                     /\ t.at = "run" => OwnerOf[t.device] = t.owner
================================================================================
