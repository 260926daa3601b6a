----------------------------- MODULE Runtime_proofs -----------------------------
(***************************************************************************)
(* Theorems about what runs for a flow: the program built from its graph,  *)
(* messages that cross bridges, the values they command, the conditions of *)
(* alerts, where their pushes go and whether the owner wants them, for any *)
(* graphs, programs, numbers, lists of operators, requests and readings.   *)
(***************************************************************************)
EXTENDS FlowBuilder, FlowBridges, RuntimeValues, AlertConditions, PushTargets,
        FlowPreference, FiniteSetTheorems, SequenceTheorems, WellFoundedInduction, TLAPS

-----------------------------------------------------------------------------
(* Messages that cross bridges                                             *)

USE BridgesAssumption

\* Stored programs hold what the builder builds and the sanitiser lets through.
ProgramsSafe ==
    \A f \in BridgeFlows : \A path \in program[f] : Built(path) /\ Storable(path)

\* A forwarded message is for a channel, and came over a node if it came over a channel before;
\* the device it runs on belongs to its owner.
TasksSafe ==
    \A t \in tasks :
        /\ t.hops > 0 => t.input \in Channels
        /\ t.hops > 1 => t.last \in Sensors \cap Channels
        /\ t.at = "run" => OwnerOf[t.device] = t.owner

BridgesInv == BridgesTypeOK /\ ProgramsSafe /\ TasksSafe

-----------------------------------------------------------------------------
(* Paths and forwards                                                      *)

\* What a path can be.
LEMMA PathShapes ==
    ASSUME NEW path \in RuntimePaths
    PROVE  /\ path.from \in Sensors \cup Channels /\ path.in \in {"sensor", "mqtt-in"}
           /\ \/ path.out = "output" /\ path.targets = {}
              \/ /\ path.out = "mqtt-out" /\ path.channel \in Channels
                 /\ path.targets \subseteq BridgeFlows
BY DEF RuntimePaths

\* The forwards of a task are tasks of the same owner, for the path's channel.
LEMMA ForwardsAre ==
    ASSUME NEW t \in Tasks, NEW path \in RuntimePaths, NEW u \in Forwards(t, path),
           t.hops < MaxHops
    PROVE  /\ u \in Tasks /\ u.at = "forward" /\ u.hops = t.hops + 1 /\ u.last = t.input
           /\ u.input \in Channels /\ path.out = "mqtt-out"
<1>1. PICK f \in path.targets :
        u = [t EXCEPT !.at = "forward", !.flow = f, !.input = path.channel, !.hops = t.hops + 1,
                      !.last = t.input]
  BY DEF Forwards
<1>2. path.out = "mqtt-out" /\ path.channel \in Channels /\ f \in BridgeFlows
  BY <1>1, PathShapes
<1>3. t.hops + 1 \in 0 .. MaxHops
  BY DEF Tasks
<1> QED
  BY <1>1, <1>2, <1>3 DEF Tasks

\* A message for a channel that is no node's id runs paths that no bridge ends.
LEMMA ChannelsEndHere ==
    ASSUME BridgesTypeOK, ProgramsSafe, NEW t \in tasks, t.input \notin Sensors,
           NEW path \in Matching(t)
    PROVE  Forwards(t, path) = {}
<1>1. /\ path \in RuntimePaths /\ path.from = t.input
      /\ Built(path) /\ Storable(path)
  BY DEF BridgesTypeOK, ProgramsSafe, Matching, Tasks
<1>2. path.in = "mqtt-in"
  BY <1>1, PathShapes DEF Built
<1>3. path.targets = {}
  BY <1>1, <1>2, PathShapes DEF Storable
<1> QED
  BY <1>3 DEF Forwards

-----------------------------------------------------------------------------
(* The invariant                                                           *)

LEMMA BridgesInitial == BridgesInit => BridgesInv
BY DEF BridgesInit, BridgesInv, BridgesTypeOK, ProgramsSafe, TasksSafe

LEMMA SaveKeeps ==
    ASSUME BridgesInv, NEW f \in BridgeFlows, NEW paths, SaveProgram(f, paths)
    PROVE  BridgesInv'
<1>1. /\ program' \in [BridgeFlows -> SUBSET RuntimePaths]
      /\ program'[f] = paths /\ \A g \in BridgeFlows \ {f} : program'[g] = program[g]
      /\ UNCHANGED <<activeFlow, clientFlow, tasks>>
  BY DEF SaveProgram, BridgesInv, BridgesTypeOK
<1>2. ProgramsSafe'
  BY <1>1 DEF SaveProgram, BridgesInv, ProgramsSafe, Built, Storable
<1> QED
  BY <1>1, <1>2 DEF BridgesInv, BridgesTypeOK, TasksSafe

LEMMA LinksKeep ==
    ASSUME BridgesInv, NEW d \in BridgeDevices, NEW f \in BridgeFlows \cup {Unlinked},
           LinkFlow(d, f) \/ ConnectAgain(d)
    PROVE  BridgesInv'
<1>1. /\ activeFlow' \in [BridgeDevices -> BridgeFlows \cup {Unlinked}]
      /\ clientFlow' \in [BridgeDevices -> BridgeFlows \cup {Unlinked}]
      /\ UNCHANGED <<program, tasks>>
  BY DEF LinkFlow, ConnectAgain, BridgesInv, BridgesTypeOK
<1> QED
  BY <1>1 DEF BridgesInv, BridgesTypeOK, ProgramsSafe, TasksSafe

LEMMA PublishKeeps ==
    ASSUME BridgesInv, NEW d \in BridgeDevices, NEW f \in BridgeFlows,
           NEW i \in Sensors \cup Channels, DevicePublishes(d, f, i)
    PROVE  BridgesInv'
<1> DEFINE t == [at |-> "run", flow |-> f, input |-> i, device |-> d,
                 owner |-> OwnerOf[d], hops |-> 0, last |-> i]
<1>1. t \in Tasks /\ t.hops = 0 /\ OwnerOf[t.device] = t.owner
  BY DEF Tasks
<1>2. tasks' = {t} /\ UNCHANGED <<program, activeFlow, clientFlow>>
  BY DEF DevicePublishes
<1> HIDE DEF t
<1> QED
  BY <1>1, <1>2 DEF BridgesInv, BridgesTypeOK, ProgramsSafe, TasksSafe

LEMMA RunKeeps ==
    ASSUME BridgesInv, NEW t \in tasks, Run(t)
    PROVE  BridgesInv'
<1>1. PICK passed \in SUBSET Matching(t) :
        LET forwards == UNION {Forwards(t, path) : path \in passed} IN
        /\ forwards # {} => t.hops < MaxHops
        /\ tasks' = (tasks \ {t}) \cup forwards
  BY DEF Run
<1>2. UNCHANGED <<program, activeFlow, clientFlow>> /\ t \in Tasks
  BY DEF Run, BridgesInv, BridgesTypeOK
<1>3. Matching(t) \subseteq RuntimePaths
  BY <1>2 DEF Matching, BridgesInv, BridgesTypeOK, Tasks
<1>4. ASSUME NEW u \in tasks', u \notin tasks
      PROVE  \E path \in Matching(t) :
               /\ u \in Forwards(t, path)
               /\ u \in Tasks /\ u.at = "forward" /\ u.hops = t.hops + 1
               /\ u.last = t.input /\ u.input \in Channels
  <2>1. PICK path \in passed : u \in Forwards(t, path)
    BY <1>1, <1>4
  <2>2. t.hops < MaxHops /\ path \in RuntimePaths /\ path \in Matching(t)
    BY <1>1, <1>3, <2>1
  <2> QED
    BY <1>2, <2>1, <2>2, ForwardsAre
<1>5. tasks' \subseteq Tasks
  BY <1>4 DEF BridgesInv, BridgesTypeOK
<1>6. TasksSafe'
  <2>1. ASSUME NEW u \in tasks'
        PROVE  /\ u.hops > 0 => u.input \in Channels
               /\ u.hops > 1 => u.last \in Sensors \cap Channels
               /\ u.at = "run" => OwnerOf[u.device] = u.owner
    <3>1. CASE u \in tasks
      BY <3>1 DEF BridgesInv, TasksSafe
    <3>2. CASE u \notin tasks
      <4>1. PICK path \in Matching(t) :
              /\ u \in Forwards(t, path)
              /\ u.at = "forward" /\ u.hops = t.hops + 1 /\ u.last = t.input /\ u.input \in Channels
        BY <1>4, <3>2
      <4>2. t.input \in Sensors
        BY <4>1, ChannelsEndHere DEF BridgesInv
      <4>3. u.hops > 1 => t.input \in Channels
        <5>1. t.hops \in Nat /\ t.hops > 0 => t.input \in Channels
          BY <1>2 DEF BridgesInv, TasksSafe, Tasks
        <5> QED
          BY <4>1, <5>1, <1>2 DEF Tasks
      <4> QED
        BY <4>1, <4>2, <4>3
    <3> QED
      BY <3>1, <3>2
  <2> QED
    BY <2>1 DEF TasksSafe
<1> QED
  BY <1>2, <1>5, <1>6 DEF BridgesInv, BridgesTypeOK, ProgramsSafe

LEMMA ForwardKeeps ==
    ASSUME BridgesInv, NEW t \in tasks, NEW d \in BridgeDevices,
           ForwardTo(t, d)
    PROVE  BridgesInv'
<1> DEFINE u == [t EXCEPT !.at = "run", !.device = d]
<1>1. /\ u \in Tasks /\ u.hops = t.hops /\ u.input = t.input /\ u.last = t.last
      /\ u.device = d /\ u.owner = t.owner
  BY DEF BridgesInv, BridgesTypeOK, Tasks
<1>2. /\ \A v \in tasks' : v \in tasks \/ (v = u /\ OwnerOf[d] = t.owner)
      /\ UNCHANGED <<program, activeFlow, clientFlow>>
  BY DEF ForwardTo
<1> HIDE DEF u
<1>3. tasks' \subseteq Tasks
  BY <1>1, <1>2 DEF BridgesInv, BridgesTypeOK
<1>4. TasksSafe'
  BY <1>1, <1>2 DEF BridgesInv, TasksSafe
<1> QED
  BY <1>2, <1>3, <1>4 DEF BridgesInv, BridgesTypeOK, ProgramsSafe

LEMMA BridgesStep == BridgesInv /\ [BridgesNext]_bridgeVars => BridgesInv'
<1> SUFFICES ASSUME BridgesInv, [BridgesNext]_bridgeVars PROVE BridgesInv'
  OBVIOUS
<1>1. CASE UNCHANGED bridgeVars
  BY <1>1 DEF bridgeVars, BridgesInv, BridgesTypeOK, ProgramsSafe, TasksSafe
<1>2. CASE BridgesNext
  <2>1. Unlinked \in BridgeFlows \cup {Unlinked}
    OBVIOUS
  <2>2. ASSUME NEW t \in tasks, ForwardToNobody(t) PROVE BridgesInv'
    <3>1. tasks' \subseteq tasks /\ UNCHANGED <<program, activeFlow, clientFlow>>
      BY <2>2 DEF ForwardToNobody
    <3> QED
      BY <3>1 DEF BridgesInv, BridgesTypeOK, ProgramsSafe, TasksSafe
  <2> QED
    BY <1>2, <2>1, <2>2, SaveKeeps, LinksKeep, PublishKeeps, RunKeeps, ForwardKeeps
       DEF BridgesNext
<1> QED
  BY <1>1, <1>2

-----------------------------------------------------------------------------

\* A message that crossed a bridge crosses another only where its channel is the id of an input
\* node, and it ends on a device of the owner it came from, whatever programs owners save and
\* however they link flows while it is under way.
THEOREM BridgesForwardOnce == BridgesSpec => []ForwardOnce
<1>1. BridgesInv => ForwardOnce
  BY DEF BridgesInv, TasksSafe, ForwardOnce
<1> QED
  BY <1>1, BridgesInitial, BridgesStep, PTL DEF BridgesSpec

HIDE BridgesAssumption

-----------------------------------------------------------------------------
(* Indices                                                                 *)

\* Some index is the least of a set of them.
LEMMA LeastIndex ==
    ASSUME NEW S \in SUBSET Nat, S # {}
    PROVE  \E m \in S : \A n \in S : m <= n
<1> DEFINE R == {mn \in Nat \X Nat : mn[1] < mn[2]}
<1>1. IsWellFoundedOn(R, Nat)
  BY NatLessThanWellFounded DEF OpToRel
<1>2. ASSUME NEW m \in Nat, NEW n \in Nat, m < n PROVE <<m, n>> \in R
  BY <1>2
<1> HIDE DEF R
<1>3. PICK m \in S : \A n \in S : ~(<<n, m>> \in R)
  BY <1>1, WFMin
<1>4. ASSUME NEW n \in S PROVE m <= n
  <2>1. ~(n < m)
    BY <1>2, <1>3
  <2> QED
    BY <2>1
<1> QED
  BY <1>4

-----------------------------------------------------------------------------
(* Conversions                                                             *)

USE ValuesAssumption

\* The first index found is one of them, and none is before it.
LEMMA FirstFound ==
    ASSUME NEW S \in SUBSET Nat, S # {}
    PROVE  Min(S) \in S /\ \A i \in S : Min(S) <= i
BY LeastIndex DEF Min

LEMMA FirstIs ==
    ASSUME NEW S \in SUBSET Nat, NEW i \in S, \A j \in S : i <= j
    PROVE  Min(S) = i
<1>1. Min(S) \in S /\ Min(S) <= i
  BY FirstFound
<1>2. i <= Min(S)
  BY <1>1
<1>3. \A k \in S : k \in Int
  OBVIOUS
<1>4. Min(S) \in Int /\ i \in Int
  BY <1>1, <1>3
<1> QED
  BY <1>1, <1>2, <1>4

LEMMA NumberIs ==
    \A b : Number(b).type = "number" /\ Number(b).is = b /\ Number(b) # None /\ Number(b) # Absent
<1> SUFFICES ASSUME NEW b PROVE Number(b).type = "number" /\ Number(b).is = b
                                /\ Number(b) # None /\ Number(b) # Absent
  OBVIOUS
<1>1. Number(b).type = "number" /\ Number(b).is = b
  BY DEF Number
<1>2. None.type = "null" /\ Absent.type = "absent"
  BY DEF None, Absent
<1> QED
  BY <1>1, <1>2

LEMMA Clamping ==
    ASSUME NEW v \in Int
    PROVE  /\ Clamp(v) \in 0 .. 255 /\ Clamp(Clamp(v)) = Clamp(v)
           /\ v \in 0 .. 255 => Clamp(v) = v
           /\ FromAnalog(v) \in 0 .. 255 /\ FromPercent(v) \in 0 .. 255
<1>1. Clamp(v) \in 0 .. 255 /\ (v \in 0 .. 255 => Clamp(v) = v)
  BY DEF Clamp, Between, Least
<1>2. Clamp(Clamp(v)) = Clamp(v)
  BY <1>1 DEF Clamp, Between, Least
<1>3. FromAnalog(v) \in 0 .. 255
  <2>1. PICK w \in 0 .. 4095 : w = Between(0, v, 4095)
    BY DEF Between, Least
  <2>2. FromAnalog(v) = (510 * w + 4095) \div 8190
    BY <2>1 DEF FromAnalog, Rounded
  <2> QED
    BY <2>2
<1>4. FromPercent(v) \in 0 .. 255
  <2>1. Between(0, v, 100) \in 0 .. 100
    BY DEF Between, Least
  <2> QED
    BY <2>1 DEF FromPercent, Rounded
<1> QED
  BY <1>1, <1>2, <1>3, <1>4

-----------------------------------------------------------------------------
(* Payloads                                                                *)

PayloadOK(p) == p = [f \in Fields |-> p[f]] /\ \A f \in Fields : p[f] \in Values(f)

\* What a field of a payload may hold.
FieldOK(f, x) ==
    \/ x = Absent
    \/ x.type = "number" /\ x.is \in Int /\ x = Number(x.is)
    \/ f \in {"result", "digital", "motion"} /\ x.type = "boolean" /\ x.is \in {0, 1}

\* A payload on its way: fields may have been filled in.
OnWay(p) == p = [f \in Fields |-> p[f]] /\ \A f \in Fields : FieldOK(f, p[f])

LEMMA PayloadOnWay == ASSUME NEW p, PayloadOK(p) PROVE OnWay(p)
BY DEF PayloadOK, OnWay, FieldOK, Values, Number, Absent, Booleans

LEMMA FieldBytes ==
    ASSUME NEW p, OnWay(p), NEW f \in Fields, p[f].type \in {"number", "boolean"}
    PROVE  Byte(f, p[f]) \in 0 .. 255
<1>1. PICK x : x = p[f] /\ FieldOK(f, x)
  BY DEF OnWay
<1>2. p[f] # Absent
  BY DEF Absent
<1>3. CASE p[f].type = "number" /\ p[f].is \in Int
  <2>1. Byte(f, p[f]) \in {FromAnalog(p[f].is), FromPercent(p[f].is), Clamp(p[f].is)}
    BY <1>3 DEF Byte
  <2> QED
    BY <1>3, <2>1, Clamping
<1>4. CASE /\ p[f].type = "boolean" /\ p[f].is \in {0, 1}
           /\ f \in {"result", "digital", "motion"}
  BY <1>4 DEF Byte
<1>5. \/ p[f].type = "number" /\ p[f].is \in Int
      \/ /\ p[f].type = "boolean" /\ p[f].is \in {0, 1}
         /\ f \in {"result", "digital", "motion"}
  BY <1>1, <1>2, Zenon DEF FieldOK
<1> QED
  BY <1>3, <1>4, <1>5, Zenon

\* A value or a result is clamped.
LEMMA ValueBytes ==
    ASSUME NEW x, x.type = "number"
    PROVE  Byte("value", x) = Clamp(x.is) /\ Byte("result", x) = Clamp(x.is)
BY DEF Byte

\* A number that a field names first is the value of the payload.
LEMMA NormalisedIs ==
    ASSUME NEW p, OnWay(p)
    PROVE  /\ p["result"].type = "number" => Normalised(p) = Number(Clamp(p["result"].is))
           /\ p["result"].type # "number" /\ p["value"].type = "number"
                => Normalised(p) = Number(Clamp(p["value"].is))
           /\ Normalised(p) = None \/ \E b \in 0 .. 255 : Normalised(p) = Number(b)
           /\ Normalised(p) = None => \A f \in Fields : p[f] = Absent
<1> DEFINE found == {i \in DOMAIN NormalOrder : p[NormalOrder[i][1]].type = NormalOrder[i][2]}
           f == NormalOrder[Min(found)][1]
<1>1. /\ DOMAIN NormalOrder = 1 .. 13
      /\ NormalOrder[1] = <<"result", "number">> /\ NormalOrder[2] = <<"value", "number">>
      /\ \A i \in 1 .. 13 : NormalOrder[i][1] \in Fields /\ NormalOrder[i][2] \in {"number", "boolean"}
  BY DEF NormalOrder, Fields
<1>2. \A g \in Fields : p[g] = Absent \/ \E i \in found : NormalOrder[i][1] = g
  <2> SUFFICES ASSUME NEW g \in Fields, p[g] # Absent
               PROVE  \E i \in found : NormalOrder[i][1] = g
    OBVIOUS
  <2>1. p[g].type = "number" \/ (p[g].type = "boolean" /\ g \in {"result", "digital", "motion"})
    BY DEF OnWay, FieldOK
  <2>2. \E i \in 1 .. 13 : NormalOrder[i] = <<g, p[g].type>>
    BY <2>1 DEF NormalOrder, Fields
  <2> QED
    BY <1>1, <2>2
<1>3. Normalised(p) = IF found = {} THEN None
                      ELSE Number(IF f \notin {"digital", "motion"} THEN Byte(f, p[f])
                                  ELSE IF p[f].is = 0 THEN 0 ELSE 1)
  BY DEF Normalised
<1>4. /\ found \in SUBSET Nat
      /\ \A i \in found : p[NormalOrder[i][1]].type = NormalOrder[i][2] /\ i \in 1 .. 13
  BY <1>1
<1>5. p["result"].type = "number" => 1 \in found
  BY <1>1
<1>6. p["value"].type = "number" => 2 \in found
  BY <1>1
<1>7. 1 \in found => p["result"].type = "number"
  BY <1>1
<1>8. \A i \in found : i >= 1
  BY <1>4
<1> HIDE DEF found
<1>9. CASE p["result"].type = "number"
  <2>1. Min(found) = 1
    BY <1>4, <1>5, <1>8, <1>9, FirstIs
  <2>2. Normalised(p) = Number(Clamp(p["result"].is))
    BY <1>1, <1>3, <1>5, <1>9, <2>1 DEF Byte
  <2>3. p["result"].is \in Int
    BY <1>9 DEF OnWay, FieldOK, Fields, Absent
  <2>4. Clamp(p["result"].is) \in 0 .. 255
    BY <2>3, Clamping
  <2>5. Number(Clamp(p["result"].is)) # None
    BY NumberIs
  <2> QED
    BY <1>9, <2>2, <2>4, <2>5
<1>10. CASE p["result"].type # "number" /\ p["value"].type = "number"
  <2>1. 2 \in found /\ \A i \in found : 2 <= i
    BY <1>4, <1>6, <1>7, <1>8, <1>10
  <2>4. Min(found) = 2
    BY <1>4, <2>1, FirstIs
  <2>2. Normalised(p) = Number(Clamp(p["value"].is))
    BY <1>1, <1>3, <1>6, <1>10, <2>4 DEF Byte
  <2>3. p["value"].is \in Int
    BY <1>10 DEF OnWay, FieldOK, Fields, Absent
  <2>5. Clamp(p["value"].is) \in 0 .. 255
    BY <2>3, Clamping
  <2>6. Number(Clamp(p["value"].is)) # None
    BY NumberIs
  <2> QED
    BY <1>10, <2>2, <2>5, <2>6
<1>11. CASE p["result"].type # "number" /\ p["value"].type # "number"
  <2>1. CASE found = {}
    BY <1>2, <1>3, <1>11, <2>1
  <2>2. CASE found # {}
    <3>1. Min(found) \in found
      BY <1>4, <2>2, FirstFound
    <3>2. f \in Fields /\ p[f].type \in {"number", "boolean"}
      BY <1>1, <1>4, <3>1
    <3>3. PICK b : b = IF f \notin {"digital", "motion"} THEN Byte(f, p[f])
                       ELSE IF p[f].is = 0 THEN 0 ELSE 1
      OBVIOUS
    <3>4. b \in 0 .. 255
      BY <3>2, <3>3, FieldBytes
    <3>5. Normalised(p) = Number(b)
      BY <1>3, <2>2, <3>3
    <3>6. Normalised(p) # None
      BY <3>5, NumberIs
    <3> QED
      BY <1>11, <3>4, <3>5, <3>6
  <2> QED
    BY <2>1, <2>2
<1> QED
  BY <1>9, <1>10, <1>11

\* An output takes the value, or else the result.
LEMMA ObjectIs ==
    ASSUME NEW p, OnWay(p)
    PROVE  /\ p["value"].type = "number" => CoerceObject(p) = Number(Clamp(p["value"].is))
           /\ p["value"] = Absent /\ p["result"].type = "number"
                => CoerceObject(p) = Number(Clamp(p["result"].is))
           /\ (\A f \in Fields : p[f] = Absent) => CoerceObject(p) = None
<1> DEFINE order == <<"value", "result", "raw", "analog", "percent", "temperature", "humidity",
                      "distance_cm">>
           found == {i \in DOMAIN order : p[order[i]].type \in {"number", "boolean"}}
           f == order[Min(found)]
<1>1. /\ DOMAIN order = 1 .. 8 /\ order[1] = "value" /\ order[2] = "result"
      /\ \A i \in 1 .. 8 : order[i] \in Fields
  BY DEF Fields
<1>2. CoerceObject(p) = IF found = {} THEN None ELSE Number(Byte(f, p[f]))
  BY DEF CoerceObject, FirstOf
<1> HIDE DEF order
<1>3. found \in SUBSET Nat /\ \A i \in found : i >= 1
  BY <1>1
<1>4. CASE p["value"].type = "number"
  <2>1. 1 \in found
    BY <1>1, <1>4
  <2>2. Min(found) = 1
    BY <1>3, <2>1, FirstIs
  <2>3. CoerceObject(p) = Number(Clamp(p["value"].is))
    BY <1>1, <1>2, <1>4, <2>1, <2>2, ValueBytes
  <2>4. p["value"] # Absent /\ "value" \in Fields
    BY <1>4 DEF Absent, Fields
  <2> QED
    BY <2>3, <2>4
<1>5. CASE p["value"] = Absent /\ p["result"].type = "number"
  <2>1. 2 \in found /\ 1 \notin found
    BY <1>1, <1>5 DEF Absent
  <2>3. \A i \in found : 2 <= i
    BY <1>3, <2>1
  <2>2. Min(found) = 2
    BY <1>3, <2>1, <2>3, FirstIs
  <2> QED
    BY <1>1, <1>2, <1>5, <2>1, <2>2, ValueBytes
<1>6. CASE \A g \in Fields : p[g] = Absent
  <2>1. found = {}
    BY <1>1, <1>6 DEF Absent
  <2> QED
    BY <1>2, <1>6, <2>1 DEF Absent, Fields
<1> QED
  BY <1>4, <1>5, <1>6 DEF Absent

\* What a function is handed: the payload with its result, if it has none, and a raw value.
LEMMA FunctionGets ==
    ASSUME NEW p, OnWay(p)
    PROVE  /\ OnWay(FunctionPayload(p))
           /\ FunctionPayload(p)["value"] = p["value"]
           /\ FunctionPayload(p)["result"] =
                IF Normalised(p) # None /\ p["result"].type # "number" THEN Normalised(p)
                ELSE p["result"]
           /\ Normalised(p) = None => FunctionPayload(p) = p
<1> DEFINE n == Normalised(p)
           q == FunctionPayload(p)
           raw == CASE p["raw"].type = "number" -> p["raw"]
                    [] p["raw"].type # "number" /\ p["analog"].type = "number" -> p["analog"]
                    [] OTHER -> IF n = None THEN p["raw"] ELSE Number(ToAnalog(n.is))
           result == IF n # None /\ p["result"].type # "number" THEN n ELSE p["result"]
<1>1. q = [p EXCEPT !["result"] = result, !["raw"] = raw]
  BY DEF FunctionPayload
<1>2. n = None \/ \E b \in 0 .. 255 : n = Number(b)
  BY NormalisedIs
<1>3. FieldOK("result", p["result"]) /\ FieldOK("raw", p["raw"]) /\ FieldOK("analog", p["analog"])
  BY DEF OnWay, Fields
<1> HIDE DEF n
<1>4. FieldOK("result", result)
  BY <1>2, <1>3 DEF FieldOK, Number
<1>5. FieldOK("raw", raw)
  <2>1. CASE p["raw"].type = "number"
    BY <1>3, <2>1
  <2>2. CASE p["raw"].type # "number" /\ p["analog"].type = "number"
    <3>1. raw = p["analog"]
      BY <2>2
    <3> QED
      BY <1>3, <2>2, <3>1 DEF FieldOK
  <2>3. CASE p["raw"].type # "number" /\ p["analog"].type # "number"
    <3>1. raw = IF n = None THEN p["raw"] ELSE Number(ToAnalog(n.is))
      BY <2>3
    <3>2. CASE n # None
      <4>1. PICK b \in 0 .. 255 : n = Number(b)
        BY <1>2, <3>2
      <4>2. n.is = b /\ b \in Int
        BY <4>1 DEF Number
      <4>3. Clamp(b) \in Int
        BY <4>2, Clamping
      <4>4. ToAnalog(b) \in Int
        BY <4>3 DEF ToAnalog, Rounded
      <4> QED
        BY <3>1, <3>2, <4>2, <4>4 DEF FieldOK, Number
    <3> QED
      BY <1>3, <3>1, <3>2
  <2> QED
    BY <2>1, <2>2, <2>3
<1> HIDE DEF raw, result
<1>6. /\ q = [f \in Fields |-> q[f]] /\ q["result"] = result /\ q["raw"] = raw
      /\ \A f \in Fields \ {"result", "raw"} : q[f] = p[f]
  BY <1>1 DEF OnWay, Fields
<1>7. OnWay(q)
  BY <1>4, <1>5, <1>6 DEF OnWay
<1>8. ASSUME n = None PROVE q = p
  <2>1. \A f \in Fields : p[f] = Absent
    BY <1>8, NormalisedIs DEF n
  <2>2. result = p["result"] /\ raw = p["raw"]
    BY <1>8, <2>1 DEF raw, result, Absent, Fields
  <2>3. p = [f \in Fields |-> p[f]]
    BY DEF OnWay
  <2>4. q = [p EXCEPT !["result"] = p["result"], !["raw"] = p["raw"]]
    BY <1>1, <2>2
  <2> HIDE DEF q
  <2> QED
    BY <2>3, <2>4
<1> QED
  BY <1>6, <1>7, <1>8 DEF result, n, Fields

\* A function, and what comes behind it, gets the value of the payload it was handed.
LEMMA ViaFunctionIs ==
    ASSUME NEW p, OnWay(p), p["result"].type # "number" \/ p["value"] = Absent
    PROVE  ViaFunction(p) = Normalised(p)
<1> DEFINE q == FunctionPayload(p)
<1>1. /\ OnWay(q) /\ q["value"] = p["value"] /\ (Normalised(p) = None => q = p)
      /\ q["result"] = IF Normalised(p) # None /\ p["result"].type # "number" THEN Normalised(p)
                       ELSE p["result"]
  BY FunctionGets
<1>2. ViaFunction(p) = CoerceObject(q)
  BY DEF ViaFunction
<1>3. p["value"] = Absent \/ p["value"].type = "number"
  BY DEF OnWay, FieldOK, Fields
<1> HIDE DEF q
<1>4. CASE Normalised(p) = None
  BY <1>1, <1>2, <1>4, NormalisedIs, ObjectIs
<1>5. CASE p["value"].type = "number"
  BY <1>1, <1>2, <1>5, NormalisedIs, ObjectIs DEF Absent
<1>6. CASE Normalised(p) # None /\ p["value"] = Absent
  <2>1. CASE p["result"].type = "number"
    BY <1>1, <1>2, <1>6, <2>1, NormalisedIs, ObjectIs
  <2>2. CASE p["result"].type # "number"
    <3>1. PICK b \in 0 .. 255 : Normalised(p) = Number(b)
      BY <1>6, NormalisedIs
    <3>2. q["result"] = Number(b) /\ Clamp(b) = b
      BY <1>1, <1>6, <2>2, <3>1, Clamping
    <3> QED
      BY <1>1, <1>2, <1>6, <3>1, <3>2, ObjectIs DEF Number
  <2> QED
    BY <2>1, <2>2
<1> QED
  BY <1>3, <1>4, <1>5, <1>6

\* The payload a function is handed has the value of the one it was made from.
LEMMA FunctionKeepsValue ==
    ASSUME NEW p, OnWay(p), p["result"].type # "number" \/ p["value"] = Absent
    PROVE  /\ Normalised(FunctionPayload(p)) = Normalised(p)
           /\ ViaFunction(FunctionPayload(p)) = Normalised(p)
<1> DEFINE q == FunctionPayload(p)
<1>1. /\ OnWay(q) /\ q["value"] = p["value"] /\ (Normalised(p) = None => q = p)
      /\ q["result"] = IF Normalised(p) # None /\ p["result"].type # "number" THEN Normalised(p)
                       ELSE p["result"]
  BY FunctionGets
<1>2. CASE Normalised(p) = None
  BY <1>1, <1>2, ViaFunctionIs
<1>3. CASE Normalised(p) # None
  <2>1. PICK b \in 0 .. 255 : Normalised(p) = Number(b)
    BY <1>3, NormalisedIs
  <2>2. q["result"].type = "number" /\ Clamp(q["result"].is) = b
    <3>1. CASE p["result"].type = "number"
      <4>1. Number(Clamp(p["result"].is)) = Number(b)
        BY <2>1, <3>1, NormalisedIs
      <4>2. Clamp(p["result"].is) = b
        BY <4>1, NumberIs
      <4> QED
        BY <1>1, <3>1, <4>2
    <3>2. CASE p["result"].type # "number"
      <4>1. q["result"] = Number(b) /\ Clamp(b) = b
        BY <1>1, <1>3, <2>1, <3>2, Clamping
      <4> QED
        BY <4>1, NumberIs
    <3> QED
      BY <3>1, <3>2
  <2>3. Normalised(q) = Normalised(p)
    BY <1>1, <2>1, <2>2, NormalisedIs
  <2>4. ViaFunction(q) = CoerceObject(FunctionPayload(q)) /\ OnWay(FunctionPayload(q))
        /\ FunctionPayload(q)["value"] = p["value"] /\ FunctionPayload(q)["result"] = q["result"]
    BY <1>1, <2>2, FunctionGets DEF ViaFunction
  <2>5. p["value"] = Absent \/ p["value"].type = "number"
    BY DEF OnWay, FieldOK, Fields
  <2>6. CASE p["value"] = Absent
    BY <2>1, <2>2, <2>3, <2>4, <2>6, ObjectIs
  <2>7. CASE p["value"].type = "number"
    BY <1>1, <2>3, <2>4, <2>7, NormalisedIs, ObjectIs DEF Absent
  <2> QED
    BY <2>3, <2>5, <2>6, <2>7
<1> QED
  BY <1>2, <1>3

LEMMA ValuesKeep == ASSUME PayloadOK(payload) PROVE ValueSurvives
<1> DEFINE p == payload  n == Direct(p)
<1>1. OnWay(p)
  BY PayloadOnWay
<1>2. Normalised(p) = None \/ \E b \in 0 .. 255 : Normalised(p) = Number(b)
  BY <1>1, NormalisedIs
<1>3. n = Normalised(p)
  BY <1>2, Clamping DEF Direct, CoerceNumber, Number, None
<1> HIDE DEF n
<1>4. ASSUME p["result"].type # "number" \/ p["value"] = Absent
      PROVE  ViaFunction(p) = n /\ ViaBridge(p) = n /\ ViaFunctionAndBridge(p) = n
  BY <1>1, <1>3, <1>4, ViaFunctionIs, FunctionKeepsValue DEF ViaBridge, ViaFunctionAndBridge
<1>5. n = None \/ n.is \in 0 .. 255
  BY <1>2, <1>3 DEF Number
<1>6. n # None => ServoAngle(n, FALSE).is \in 0 .. 180
  <2> SUFFICES ASSUME n # None PROVE ServoAngle(n, FALSE).is \in 0 .. 180
    OBVIOUS
  <2>1. PICK b \in 0 .. 255 : n.is = b
    BY <1>5
  <2>2. PICK a \in Int : a = Rounded(b * 180, 255)
    BY DEF Rounded
  <2>3. ServoAngle(n, FALSE).is = Between(0, a, 180)
    BY <2>1, <2>2, NumberIs DEF ServoAngle
  <2>4. Between(0, a, 180) \in 0 .. 180
    BY <2>2 DEF Between, Least
  <2> QED
    BY <2>3, <2>4
<1>7. n # None /\ p["result"] = Absent => AlertReadings(p)["result"] = <<n.is>>
  BY <1>3 DEF AlertReadings, Absent, Fields
<1> QED
  BY <1>4, <1>5, <1>6, <1>7 DEF ValueSurvives, n

\* Whatever fields and numbers a device's message has, its value is the same on every way to
\* an output, unless it names a result and a value.
THEOREM ValuesSurvive == ValuesSpec => []ValueSurvives
<1>1. ValuesInit => PayloadOK(payload)
  BY DEF ValuesInit, PayloadOK, NoFields, Values
<1>2. PayloadOK(payload) /\ [ValuesNext]_payload => PayloadOK(payload)'
  BY DEF ValuesNext, AddField, PayloadOK
<1> QED
  BY <1>1, <1>2, ValuesKeep, PTL DEF ValuesSpec

HIDE ValuesAssumption

-----------------------------------------------------------------------------
(* The program of a graph                                                  *)

USE GraphAssumption

IdsOK == id \in [GraphNodes -> Ids]

\* No call after another has been visited for ever.
LEMMA CallsEnd ==
    ASSUME IdsOK, NEW Bad \in SUBSET Calls,
           \A c \in Bad : id[c[1]] \notin c[2] /\ \E t \in GraphNodes : <<t, c[2] \cup {id[c[1]]}>> \in Bad
    PROVE  Bad = {}
<1> SUFFICES ASSUME Bad # {} PROVE FALSE
  OBVIOUS
<1> DEFINE left(c) == Cardinality(Ids \ c[2])
           S == {left(c) : c \in Bad}
<1>1. ASSUME NEW V \in SUBSET Ids
      PROVE  /\ IsFiniteSet(Ids \ V) /\ Cardinality(Ids \ V) \in Nat
             /\ \A i \in Ids \ V : Cardinality(Ids \ (V \cup {i})) = Cardinality(Ids \ V) - 1
  <2>1. IsFiniteSet(Ids \ V) /\ Cardinality(Ids \ V) \in Nat
    BY FS_Subset, FS_CardinalityType DEF GraphAssumption
  <2>2. ASSUME NEW i \in Ids \ V
        PROVE  Cardinality(Ids \ (V \cup {i})) = Cardinality(Ids \ V) - 1
    <3>1. PICK T : T = Ids \ V
      OBVIOUS
    <3>2. Ids \ (V \cup {i}) = T \ {i} /\ i \in T /\ IsFiniteSet(T)
      BY <2>1, <3>1
    <3>3. Cardinality(T \ {i}) = Cardinality(T) - 1
      BY <3>2, FS_RemoveElement
    <3> QED
      BY <3>1, <3>2, <3>3
  <2> QED
    BY <2>1, <2>2
<1>2. S \in SUBSET Nat /\ S # {}
  BY <1>1 DEF Calls
<1>3. PICK m \in S : \A k \in S : m <= k
  BY <1>2, LeastIndex
<1>4. PICK c \in Bad : m = left(c)
  BY <1>3
<1>5. PICK n \in GraphNodes, V \in SUBSET Ids : c = <<n, V>>
  BY <1>4 DEF Calls
<1>6. PICK i : i = id[n]
  OBVIOUS
<1>7. PICK t \in GraphNodes : i \notin V /\ <<t, V \cup {i}>> \in Bad
  BY <1>4, <1>5, <1>6
<1>8. i \in Ids
  BY <1>6 DEF IdsOK
<1>9. PICK k : k = left(<<t, V \cup {i}>>)
  OBVIOUS
<1>10. k \in S
  BY <1>7, <1>9
<1>11. k = m - 1 /\ m \in Nat
  BY <1>1, <1>4, <1>5, <1>7, <1>8, <1>9
<1> HIDE DEF S
<1> QED
  BY <1>3, <1>10, <1>11

\* Functions that lead from a node n on, one edge after the other, past V and past each other
Lead(n, V, p) ==
    /\ id[n] \notin V
    /\ p # <<>> => Edge(n, p[1])
    /\ \A i \in 1 .. Len(p) - 1 : Edge(p[i], p[i + 1])
    /\ \A i \in 1 .. Len(p) : Module(p[i]) = "function" /\ id[p[i]] \notin V /\ id[p[i]] # id[n]
    /\ \A i, j \in 1 .. Len(p) : id[p[i]] = id[p[j]] => i = j

Leads(n, V) == {p \in Seq(GraphNodes) : Lead(n, V, p)}
End(n, p) == IF p = <<>> THEN n ELSE p[Len(p)]

LEMMA FirstAndRest ==
    ASSUME NEW t \in GraphNodes, NEW q \in Seq(GraphNodes)
    PROVE  /\ <<t>> \o q \in Seq(GraphNodes) /\ <<t>> \o q # <<>>
           /\ Len(<<t>> \o q) = Len(q) + 1 /\ Len(q) \in Nat
           /\ (<<t>> \o q)[1] = t
           /\ \A i \in 1 .. Len(q) : (<<t>> \o q)[i + 1] = q[i]
<1>1. <<t>> \in Seq(GraphNodes) /\ Len(<<t>>) = 1 /\ <<t>>[1] = t /\ Len(q) \in Nat
  BY LenProperties
<1>2. /\ <<t>> \o q \in Seq(GraphNodes) /\ Len(<<t>> \o q) = 1 + Len(q)
      /\ \A i \in 1 .. 1 + Len(q) :
           (<<t>> \o q)[i] = IF i <= 1 THEN <<t>>[i] ELSE q[i - 1]
  BY <1>1, ConcatProperties
<1>3. \A i \in 1 .. Len(q) : (<<t>> \o q)[i + 1] = q[i]
  <2> SUFFICES ASSUME NEW i \in 1 .. Len(q) PROVE (<<t>> \o q)[i + 1] = q[i]
    OBVIOUS
  <2>1. i + 1 \in 1 .. 1 + Len(q) /\ ~(i + 1 <= 1) /\ (i + 1) - 1 = i
    BY <1>1
  <2> QED
    BY <1>2, <2>1
<1>4. (<<t>> \o q)[1] = t /\ <<t>> \o q # <<>>
  BY <1>1, <1>2
<1> QED
  BY <1>1, <1>2, <1>3, <1>4

LEMMA SplitFirst ==
    ASSUME NEW p \in Seq(GraphNodes), p # <<>>
    PROVE  \E t \in GraphNodes, q \in Seq(GraphNodes) : p = <<t>> \o q
<1>1. /\ Len(p) \in Nat \ {0} /\ Tail(p) \in Seq(GraphNodes) /\ Len(Tail(p)) = Len(p) - 1
      /\ p[1] \in GraphNodes /\ \A i \in 1 .. Len(Tail(p)) : Tail(p)[i] = p[i + 1]
  BY HeadTailProperties, EmptySeq, ElementOfSeq
<1>2. /\ <<p[1]>> \o Tail(p) \in Seq(GraphNodes) /\ Len(<<p[1]>> \o Tail(p)) = Len(p)
      /\ (<<p[1]>> \o Tail(p))[1] = p[1]
      /\ \A i \in 1 .. Len(p) - 1 : (<<p[1]>> \o Tail(p))[i + 1] = p[i + 1]
  BY <1>1, FirstAndRest
<1>3. ASSUME NEW i \in 1 .. Len(p) PROVE (<<p[1]>> \o Tail(p))[i] = p[i]
  <2>1. CASE i = 1
    BY <1>2, <2>1
  <2>2. CASE i # 1
    <3>1. i - 1 \in 1 .. Len(p) - 1 /\ (i - 1) + 1 = i
      BY <1>1, <2>2
    <3> QED
      BY <1>2, <3>1
  <2> QED
    BY <2>1, <2>2
<1>4. <<p[1]>> \o Tail(p) = p
  BY <1>1, <1>2, <1>3, SeqEqual
<1> QED
  BY <1>1, <1>4

LEMMA LeadOn ==
    ASSUME NEW n \in GraphNodes, NEW V, NEW t \in GraphNodes, NEW q \in Seq(GraphNodes)
    PROVE  Lead(n, V, <<t>> \o q) <=> /\ id[n] \notin V /\ Edge(n, t)
                                      /\ Module(t) = "function" /\ Lead(t, V \cup {id[n]}, q)
<1>1. PICK p \in Seq(GraphNodes) : p = <<t>> \o q
  BY FirstAndRest
<1>2. /\ p # <<>> /\ Len(p) = Len(q) + 1 /\ Len(q) \in Nat /\ p[1] = t
      /\ \A i \in 1 .. Len(q) : p[i + 1] = q[i]
  BY <1>1, FirstAndRest
<1>3. \A i \in 1 .. Len(p) : i = 1 \/ (i - 1 \in 1 .. Len(q) /\ p[i] = q[i - 1])
  <2> SUFFICES ASSUME NEW i \in 1 .. Len(p), i # 1 PROVE i - 1 \in 1 .. Len(q) /\ p[i] = q[i - 1]
    OBVIOUS
  <2>1. i - 1 \in 1 .. Len(q) /\ (i - 1) + 1 = i
    BY <1>2
  <2> QED
    BY <1>2, <2>1
<1>4. ASSUME Lead(n, V, p)
      PROVE  id[n] \notin V /\ Edge(n, t) /\ Module(t) = "function" /\ Lead(t, V \cup {id[n]}, q)
  <2>1. id[n] \notin V /\ Edge(n, t)
    BY <1>2, <1>4 DEF Lead
  <2>2. Module(t) = "function" /\ id[t] \notin V \cup {id[n]}
    BY <1>2, <1>4 DEF Lead
  <2>3. q # <<>> => Edge(t, q[1])
    <3> SUFFICES ASSUME q # <<>> PROVE Edge(t, q[1])
      OBVIOUS
    <3>1. 1 \in 1 .. Len(q) /\ 1 \in 1 .. Len(p) - 1
      BY <1>2, EmptySeq
    <3> QED
      BY <1>2, <1>4, <3>1 DEF Lead
  <2>4. ASSUME NEW i \in 1 .. Len(q) - 1 PROVE Edge(q[i], q[i + 1])
    <3>1. /\ i + 1 \in 1 .. Len(p) - 1 /\ i \in 1 .. Len(q) /\ i + 1 \in 1 .. Len(q)
      BY <1>2
    <3> QED
      BY <1>2, <1>4, <3>1 DEF Lead
  <2>5. ASSUME NEW i \in 1 .. Len(q)
        PROVE  Module(q[i]) = "function" /\ id[q[i]] \notin V \cup {id[n]} /\ id[q[i]] # id[t]
    <3>1. i + 1 \in 1 .. Len(p) /\ 1 \in 1 .. Len(p) /\ i + 1 # 1 /\ p[i + 1] = q[i]
      BY <1>2
    <3> QED
      BY <1>2, <1>4, <3>1 DEF Lead
  <2>6. ASSUME NEW i \in 1 .. Len(q), NEW j \in 1 .. Len(q), id[q[i]] = id[q[j]] PROVE i = j
    <3>1. /\ i + 1 \in 1 .. Len(p) /\ j + 1 \in 1 .. Len(p) /\ p[i + 1] = q[i] /\ p[j + 1] = q[j]
      BY <1>2
    <3>2. i + 1 = j + 1
      BY <1>4, <2>6, <3>1 DEF Lead
    <3> QED
      BY <3>2
  <2> QED
    BY <2>1, <2>2, <2>3, <2>4, <2>5, <2>6 DEF Lead
<1>5. ASSUME id[n] \notin V, Edge(n, t), Module(t) = "function", Lead(t, V \cup {id[n]}, q)
      PROVE  Lead(n, V, p)
  <2>1. ASSUME NEW i \in 1 .. Len(p) - 1 PROVE Edge(p[i], p[i + 1])
    <3>1. i \in 1 .. Len(q) /\ p[i + 1] = q[i] /\ i \in 1 .. Len(p)
      BY <1>2
    <3>2. CASE i = 1
      <4>1. q # <<>>
        BY <1>2, <3>1, EmptySeq
      <4> QED
        BY <1>2, <1>5, <3>1, <3>2, <4>1 DEF Lead
    <3>3. CASE i # 1
      <4>1. i - 1 \in 1 .. Len(q) - 1 /\ p[i] = q[i - 1] /\ (i - 1) + 1 = i
        BY <1>2, <1>3, <3>1, <3>3
      <4> QED
        BY <1>5, <3>1, <4>1 DEF Lead
    <3> QED
      BY <3>2, <3>3
  <2>2. \A i \in 1 .. Len(p) : Module(p[i]) = "function" /\ id[p[i]] \notin V /\ id[p[i]] # id[n]
    BY <1>2, <1>3, <1>5 DEF Lead
  <2>3. ASSUME NEW i \in 1 .. Len(p), NEW j \in 1 .. Len(p), id[p[i]] = id[p[j]] PROVE i = j
    <3>1. \A k \in 1 .. Len(q) : id[q[k]] # id[t]
      BY <1>5 DEF Lead
    <3>2. CASE i # 1 /\ j # 1
      <4>1. i - 1 \in 1 .. Len(q) /\ j - 1 \in 1 .. Len(q) /\ id[q[i - 1]] = id[q[j - 1]]
        BY <1>3, <2>3, <3>2
      <4>2. i - 1 = j - 1
        BY <1>5, <4>1 DEF Lead
      <4> QED
        BY <1>2, <4>2
    <3> QED
      BY <1>2, <1>3, <2>3, <3>1, <3>2
  <2> QED
    BY <1>2, <1>5, <2>1, <2>2, <2>3 DEF Lead
<1> QED
  BY <1>1, <1>4, <1>5

LEMMA EndOn ==
    ASSUME NEW n, NEW t \in GraphNodes, NEW q \in Seq(GraphNodes)
    PROVE  End(n, <<t>> \o q) = End(t, q)
<1>1. PICK p \in Seq(GraphNodes) : p = <<t>> \o q
  BY FirstAndRest
<1>2. /\ p # <<>> /\ Len(p) = Len(q) + 1 /\ Len(q) \in Nat /\ p[1] = t
      /\ \A i \in 1 .. Len(q) : p[i + 1] = q[i]
  BY <1>1, FirstAndRest
<1>3. CASE q = <<>>
  BY <1>1, <1>2, <1>3 DEF End
<1>4. CASE q # <<>>
  <2>1. Len(q) \in 1 .. Len(q)
    BY <1>4, EmptySeq
  <2> QED
    BY <1>1, <1>2, <1>4, <2>1 DEF End
<1> QED
  BY <1>3, <1>4

\* A path of one node, and a path with one more at its start or its end
Only(t) == <<t>>
From(t, path) == <<t>> \o path
To(path, u) == path \o <<u>>

\* The paths that end with an output such functions feed
Routes(n, V) ==
    UNION {{To(p, u) : u \in {t \in GraphNodes : t \in OutputTargets(End(n, p))}} : p \in Leads(n, V)}

\* What PathsFrom and Throws make of the results f of later calls
Follow(f, n, V) ==
    IF id[n] \in V THEN {}
    ELSE {Only(t) : t \in OutputTargets(n)}
         \cup UNION {{From(t, path) : path \in f[<<t, V \cup {id[n]}>>]} :
                       t \in FunctionTargets(n)}

LEMMA Feeding ==
    ASSUME NEW n
    PROVE  Targets(n) \subseteq GraphNodes /\ \A t : t \in Targets(n) <=> t \in GraphNodes /\ Edge(n, t)
BY DEF Targets

LEMMA RouteHas ==
    ASSUME NEW n, NEW V, NEW path, path \in Routes(n, V)
    PROVE  \E p \in Leads(n, V) : \E u \in GraphNodes : u \in OutputTargets(End(n, p)) /\ path = To(p, u)
<1>1. PICK p \in Leads(n, V) : path \in {To(p, u) : u \in {t \in GraphNodes : t \in OutputTargets(End(n, p))}}
  BY DEF Routes
<1>2. PICK u \in GraphNodes : u \in OutputTargets(End(n, p)) /\ path = To(p, u)
  BY <1>1
<1> QED
  BY <1>1, <1>2

LEMMA IsRoute ==
    ASSUME NEW n, NEW V, NEW path, NEW p \in Leads(n, V), NEW u \in GraphNodes,
           u \in OutputTargets(End(n, p)), path = To(p, u)
    PROVE  path \in Routes(n, V)
<1>1. path \in {To(p, v) : v \in {t \in GraphNodes : t \in OutputTargets(End(n, p))}}
  OBVIOUS
<1> QED
  BY <1>1 DEF Routes

\* ... of which each is an output, or leads on from a function
OneStep(f, n, V, path) ==
    /\ id[n] \notin V
    /\ \E t \in Targets(n) :
         \/ Module(t) \in Outputs /\ path = Only(t)
         \/ Module(t) = "function" /\ \E rest \in f[<<t, V \cup {id[n]}>>] : path = From(t, rest)

RouteStep(n, V, path) ==
    /\ id[n] \notin V
    /\ \E t \in Targets(n) :
         \/ Module(t) \in Outputs /\ path = Only(t)
         \/ Module(t) = "function" /\ \E rest \in Routes(t, V \cup {id[n]}) : path = From(t, rest)

LEMMA FollowIs ==
    ASSUME NEW f, NEW n, NEW V, NEW path
    PROVE  path \in Follow(f, n, V) <=> OneStep(f, n, V, path)
<1>1. ASSUME path \in Follow(f, n, V), ~\E t \in Targets(n) : Module(t) \in Outputs /\ path = Only(t)
      PROVE  \E t \in Targets(n) : /\ Module(t) = "function"
                                  /\ \E rest \in f[<<t, V \cup {id[n]}>>] : path = From(t, rest)
  <2>1. PICK t \in FunctionTargets(n) :
          path \in {From(t, rest) : rest \in f[<<t, V \cup {id[n]}>>]}
    BY <1>1 DEF Follow, FunctionTargets, OutputTargets
  <2> QED
    BY <2>1 DEF FunctionTargets
<1>2. ASSUME id[n] \notin V, NEW t \in Targets(n), Module(t) = "function",
             NEW rest \in f[<<t, V \cup {id[n]}>>], path = From(t, rest)
      PROVE  path \in Follow(f, n, V)
  <2>1. /\ path \in {From(t, r) : r \in f[<<t, V \cup {id[n]}>>]}
        /\ t \in FunctionTargets(n)
    BY <1>2 DEF FunctionTargets
  <2> QED
    BY <1>2, <2>1 DEF Follow, FunctionTargets
<1>3. path \in Follow(f, n, V) => id[n] \notin V
  BY DEF Follow
<1>4. ASSUME id[n] \notin V, NEW t \in Targets(n), Module(t) \in Outputs, path = Only(t)
      PROVE  path \in Follow(f, n, V)
  BY <1>4 DEF Follow, OutputTargets
<1> QED
  BY <1>1, <1>2, <1>3, <1>4 DEF OneStep

LEMMA NoLead ==
    ASSUME NEW n, NEW V
    PROVE  <<>> \in Leads(n, V) <=> id[n] \notin V
<1>1. <<>> \in Seq(GraphNodes) /\ Len(<<>>) = 0
  BY EmptySeq
<1>2. 1 .. 0 = {} /\ 1 .. 0 - 1 = {}
  OBVIOUS
<1> QED
  BY <1>1, <1>2 DEF Leads, Lead

LEMMA RouteFrom ==
    ASSUME IdsOK, NEW n \in GraphNodes, NEW V \in SUBSET Ids, NEW path, path \in Routes(n, V)
    PROVE  RouteStep(n, V, path)
<1>1. PICK p \in Leads(n, V) : \E u \in GraphNodes : u \in OutputTargets(End(n, p)) /\ path = To(p, u)
  BY RouteHas
<1>2. PICK u \in GraphNodes : u \in OutputTargets(End(n, p)) /\ path = To(p, u)
  BY <1>1
<1>3. id[n] \notin V /\ p \in Seq(GraphNodes) /\ <<u>> \in Seq(GraphNodes)
  BY <1>1, <1>2 DEF Leads, Lead
<1>4. CASE p = <<>>
  <2>1. u \in OutputTargets(n) /\ path = Only(u)
    BY <1>2, <1>3, <1>4, ConcatEmptySeq DEF End, To, Only
  <2> QED
    BY <1>3, <2>1 DEF OutputTargets, RouteStep
<1>5. CASE p # <<>>
  <2>1. PICK t \in GraphNodes, q \in Seq(GraphNodes) : p = <<t>> \o q
    BY <1>3, <1>5, SplitFirst
  <2>2. Edge(n, t) /\ Module(t) = "function" /\ Lead(t, V \cup {id[n]}, q)
    BY <1>1, <2>1, LeadOn DEF Leads
  <2>3. q \in Leads(t, V \cup {id[n]}) /\ u \in OutputTargets(End(t, q))
    BY <1>2, <2>1, <2>2, EndOn DEF Leads
  <2>4. PICK rest : rest = To(q, u)
    OBVIOUS
  <2>5. rest \in Routes(t, V \cup {id[n]})
    BY <2>3, <2>4, IsRoute, Zenon
  <2>6. path = From(t, rest)
    <3>1. <<t>> \in Seq(GraphNodes)
      OBVIOUS
    <3> QED
      BY <1>2, <1>3, <2>1, <2>4, <3>1, ConcatAssociative DEF From, To
  <2>7. t \in Targets(n)
    BY <2>2, Feeding
  <2> QED
    BY <1>3, <2>2, <2>5, <2>6, <2>7 DEF RouteStep
<1> QED
  BY <1>4, <1>5

LEMMA RouteTo ==
    ASSUME IdsOK, NEW n \in GraphNodes, NEW V \in SUBSET Ids, id[n] \notin V,
           NEW t, t \in Targets(n), Module(t) = "function",
           NEW rest, rest \in Routes(t, V \cup {id[n]})
    PROVE  From(t, rest) \in Routes(n, V)
<1>1. t \in GraphNodes /\ Edge(n, t)
  BY Feeding
<1>2. PICK W : W = V \cup {id[n]}
  OBVIOUS
<1>3. PICK q \in Leads(t, W) : \E u \in GraphNodes : u \in OutputTargets(End(t, q)) /\ rest = To(q, u)
  BY <1>2, RouteHas
<1>4. PICK u \in GraphNodes : u \in OutputTargets(End(t, q)) /\ rest = To(q, u)
  BY <1>3
<1>5. q \in Seq(GraphNodes) /\ <<u>> \in Seq(GraphNodes) /\ <<t>> \in Seq(GraphNodes)
  BY <1>1, <1>3, <1>4 DEF Leads
<1>6. From(t, rest) = To(<<t>> \o q, u)
  BY <1>4, <1>5, ConcatAssociative DEF From, To
<1>7. <<t>> \o q \in Leads(n, V)
  BY <1>1, <1>2, <1>3, <1>5, LeadOn, FirstAndRest DEF Leads
<1>8. End(n, <<t>> \o q) = End(t, q)
  BY <1>1, <1>5, EndOn
<1> QED
  BY <1>4, <1>6, <1>7, <1>8, IsRoute

LEMMA RouteNow ==
    ASSUME IdsOK, NEW n \in GraphNodes, NEW V \in SUBSET Ids, id[n] \notin V,
           NEW t, t \in Targets(n), Module(t) \in Outputs
    PROVE  Only(t) \in Routes(n, V)
<1>1. <<>> \in Leads(n, V) /\ End(n, <<>>) = n /\ t \in OutputTargets(n) /\ t \in GraphNodes
  BY NoLead, Feeding DEF End, OutputTargets
<1>2. Only(t) = To(<<>>, t)
  <2>1. <<t>> \in Seq(GraphNodes)
    BY <1>1
  <2> QED
    BY <2>1, ConcatEmptySeq DEF To, Only
<1> QED
  BY <1>1, <1>2, IsRoute

LEMMA RoutesFollow ==
    ASSUME IdsOK, NEW n \in GraphNodes, NEW V \in SUBSET Ids, NEW f,
           \A t \in GraphNodes : f[<<t, V \cup {id[n]}>>] = Routes(t, V \cup {id[n]})
    PROVE  Routes(n, V) = Follow(f, n, V)
<1>1. ASSUME NEW path, path \in Routes(n, V) PROVE path \in Follow(f, n, V)
  <2>1. RouteStep(n, V, path)
    BY <1>1, RouteFrom
  <2>2. OneStep(f, n, V, path)
    BY <2>1, Feeding DEF RouteStep, OneStep
  <2> QED
    BY <2>2, FollowIs
<1>2. ASSUME NEW path, path \in Follow(f, n, V) PROVE path \in Routes(n, V)
  <2>1. OneStep(f, n, V, path)
    BY <1>2, FollowIs
  <2> QED
    BY <2>1, Feeding, RouteNow, RouteTo DEF OneStep
<1> QED
  BY <1>1, <1>2

\* The recursion that follows the graph from a node, and every call of it, finds these paths.
LEMMA PathsAreRoutes ==
    ASSUME IdsOK, NEW n \in GraphNodes, NEW V \in SUBSET Ids
    PROVE  PathsFrom[<<n, V>>] = Routes(n, V)
<1> DEFINE R == [c \in Calls |-> Routes(c[1], c[2])]
<1>1. PathsFrom = CHOOSE f : f = [c \in Calls |-> Follow(f, c[1], c[2])]
  BY DEF PathsFrom, Follow, From, Only
<1>2. ASSUME NEW c \in Calls
      PROVE  /\ c = <<c[1], c[2]>> /\ c[1] \in GraphNodes /\ c[2] \in SUBSET Ids
             /\ \A t \in GraphNodes : <<t, c[2] \cup {id[c[1]]}>> \in Calls
  <2>1. c = <<c[1], c[2]>> /\ c[1] \in GraphNodes /\ c[2] \in SUBSET Ids
    BY DEF Calls
  <2>2. id[c[1]] \in Ids
    BY <2>1 DEF IdsOK
  <2> QED
    BY <2>1, <2>2 DEF Calls
<1>3. ASSUME NEW c \in Calls PROVE Routes(c[1], c[2]) = Follow(R, c[1], c[2])
  <2>1. \A t \in GraphNodes : R[<<t, c[2] \cup {id[c[1]]}>>] = Routes(t, c[2] \cup {id[c[1]]})
    BY <1>2
  <2> HIDE DEF R
  <2> QED
    BY <1>2, <2>1, RoutesFollow
<1>4. R = [c \in Calls |-> Follow(R, c[1], c[2])]
  BY <1>3
<1>5. PathsFrom = [c \in Calls |-> Follow(PathsFrom, c[1], c[2])]
  <2> HIDE DEF R
  <2> QED
    BY <1>1, <1>4
<1>6. PICK Bad : Bad = {c \in Calls : PathsFrom[c] # Routes(c[1], c[2])}
  OBVIOUS
<1>7. ASSUME NEW c \in Bad PROVE id[c[1]] \notin c[2] /\ \E t \in GraphNodes : <<t, c[2] \cup {id[c[1]]}>> \in Bad
  <2>1. c \in Calls /\ PathsFrom[c] # Routes(c[1], c[2]) /\ PathsFrom[c] = Follow(PathsFrom, c[1], c[2])
    BY <1>5, <1>6
  <2>2. id[c[1]] \in c[2] => Routes(c[1], c[2]) = {} /\ Follow(PathsFrom, c[1], c[2]) = {}
    <3>1. id[c[1]] \in c[2] => Leads(c[1], c[2]) = {}
      BY DEF Leads, Lead
    <3> QED
      BY <3>1 DEF Follow, Routes
  <2>3. ASSUME \A t \in GraphNodes : <<t, c[2] \cup {id[c[1]]}>> \notin Bad PROVE FALSE
    <3>1. \A t \in GraphNodes : PathsFrom[<<t, c[2] \cup {id[c[1]]}>>] = Routes(t, c[2] \cup {id[c[1]]})
      BY <1>2, <1>6, <2>1, <2>3
    <3> QED
      BY <1>2, <2>1, <3>1, RoutesFollow
  <2> QED
    BY <2>1, <2>2, <2>3
<1>8. Bad = {}
  <2>1. Bad \in SUBSET Calls
    BY <1>6
  <2> QED
    BY <1>7, <2>1, CallsEnd
<1> QED
  BY <1>6, <1>8 DEF Calls

-----------------------------------------------------------------------------
(* When the recursion throws                                               *)

Seen(n, V, p) == V \cup {id[n]} \cup {id[p[i]] : i \in 1 .. Len(p)}

\* A wrong connection, or a function that leads to no output
Fault(n, t, W) ==
    \/ Module(n) = "mqtt-in" /\ Module(t) # "function"
    \/ Module(t) = "mqtt-out" /\ ~node[t].valid
    \/ Module(t) = "function" /\ PathsFrom[<<t, W>>] = {}

Faulty(n, V) ==
    \E p \in Leads(n, V) : \E t \in Targets(End(n, p)) : Fault(End(n, p), t, Seen(n, V, p))

ThrowsNow(f, n, V) ==
    /\ id[n] \notin V
    /\ \E t \in Targets(n) :
         \/ Module(n) = "mqtt-in" /\ Module(t) # "function"
         \/ Module(t) = "mqtt-out" /\ ~node[t].valid
         \/ /\ Module(t) = "function"
            /\ \/ f[<<t, V \cup {id[n]}>>]
               \/ PathsFrom[<<t, V \cup {id[n]}>>] = {}

FaultStep(n, V) ==
    /\ id[n] \notin V
    /\ \E t \in Targets(n) : Fault(n, t, V \cup {id[n]}) \/ (Module(t) = "function" /\ Faulty(t, V \cup {id[n]}))

LEMMA SeenOn ==
    ASSUME NEW n, NEW V, NEW t \in GraphNodes, NEW q \in Seq(GraphNodes)
    PROVE  Seen(n, V, <<t>> \o q) = Seen(t, V \cup {id[n]}, q)
<1>1. PICK p \in Seq(GraphNodes) : p = <<t>> \o q
  BY FirstAndRest
<1>2. /\ Len(p) = Len(q) + 1 /\ Len(q) \in Nat /\ p[1] = t
      /\ \A i \in 1 .. Len(q) : p[i + 1] = q[i]
  BY <1>1, FirstAndRest
<1>3. ASSUME NEW i \in 1 .. Len(p) PROVE id[p[i]] = id[t] \/ \E j \in 1 .. Len(q) : id[p[i]] = id[q[j]]
  <2>1. CASE i = 1
    BY <1>2, <2>1
  <2>2. CASE i # 1
    <3>1. i - 1 \in 1 .. Len(q) /\ (i - 1) + 1 = i
      BY <1>2, <2>2
    <3> QED
      BY <1>2, <3>1
  <2> QED
    BY <2>1, <2>2
<1>4. ASSUME NEW j \in 1 .. Len(q) PROVE \E i \in 1 .. Len(p) : id[p[i]] = id[q[j]]
  <2>1. j + 1 \in 1 .. Len(p)
    BY <1>2
  <2> QED
    BY <1>2, <2>1
<1>5. 1 \in 1 .. Len(p)
  BY <1>2
<1>6. {id[p[i]] : i \in 1 .. Len(p)} = {id[t]} \cup {id[q[j]] : j \in 1 .. Len(q)}
  <2>1. id[t] \in {id[p[i]] : i \in 1 .. Len(p)}
    BY <1>2, <1>5
  <2>2. \A j \in 1 .. Len(q) : id[q[j]] \in {id[p[i]] : i \in 1 .. Len(p)}
    BY <1>4
  <2>3. \A i \in 1 .. Len(p) : id[p[i]] \in {id[t]} \cup {id[q[j]] : j \in 1 .. Len(q)}
    BY <1>3
  <2> QED
    BY <2>1, <2>2, <2>3
<1> QED
  BY <1>1, <1>6 DEF Seen

LEMMA FaultFrom ==
    ASSUME IdsOK, NEW n \in GraphNodes, NEW V \in SUBSET Ids, Faulty(n, V)
    PROVE  FaultStep(n, V)
<1>1. PICK p \in Leads(n, V) : \E t \in Targets(End(n, p)) : Fault(End(n, p), t, Seen(n, V, p))
  BY DEF Faulty
<1>2. PICK u \in Targets(End(n, p)) : Fault(End(n, p), u, Seen(n, V, p))
  BY <1>1
<1>3. id[n] \notin V /\ p \in Seq(GraphNodes)
  BY <1>1 DEF Leads, Lead
<1>4. CASE p = <<>>
  <2>1. End(n, p) = n
    BY <1>4 DEF End
  <2>2. Seen(n, V, p) = V \cup {id[n]}
    <3>1. Len(p) = 0 /\ 1 .. 0 = {}
      BY <1>4, EmptySeq
    <3> QED
      BY <3>1 DEF Seen
  <2> QED
    BY <1>2, <1>3, <2>1, <2>2 DEF FaultStep
<1>5. CASE p # <<>>
  <2>1. PICK t \in GraphNodes, q \in Seq(GraphNodes) : p = <<t>> \o q
    BY <1>3, <1>5, SplitFirst
  <2>2. Edge(n, t) /\ Module(t) = "function" /\ Lead(t, V \cup {id[n]}, q)
    BY <1>1, <2>1, LeadOn DEF Leads
  <2>3. /\ q \in Leads(t, V \cup {id[n]}) /\ End(n, p) = End(t, q)
        /\ Seen(n, V, p) = Seen(t, V \cup {id[n]}, q)
    BY <2>1, <2>2, EndOn, SeenOn DEF Leads
  <2>4. Faulty(t, V \cup {id[n]})
    BY <1>2, <2>3, Zenon DEF Faulty
  <2>5. t \in Targets(n)
    BY <2>2, Feeding
  <2> QED
    BY <1>3, <2>2, <2>4, <2>5 DEF FaultStep
<1> QED
  BY <1>4, <1>5

LEMMA FaultTo ==
    ASSUME IdsOK, NEW n \in GraphNodes, NEW V \in SUBSET Ids, FaultStep(n, V)
    PROVE  Faulty(n, V)
<1>1. id[n] \notin V
  BY DEF FaultStep
<1>2. PICK t \in Targets(n) : Fault(n, t, V \cup {id[n]}) \/ (Module(t) = "function" /\ Faulty(t, V \cup {id[n]}))
  BY DEF FaultStep
<1>3. t \in GraphNodes /\ Edge(n, t)
  BY Feeding
<1>4. CASE Fault(n, t, V \cup {id[n]})
  <2>1. PICK p : p = <<>>
    OBVIOUS
  <2>2. p \in Leads(n, V) /\ End(n, p) = n
    BY <1>1, <2>1, NoLead DEF End
  <2>3. Seen(n, V, p) = V \cup {id[n]}
    <3>1. Len(p) = 0 /\ 1 .. 0 = {}
      BY <2>1, EmptySeq
    <3> QED
      BY <3>1 DEF Seen
  <2>4. t \in Targets(End(n, p)) /\ Fault(End(n, p), t, Seen(n, V, p))
    BY <1>4, <2>2, <2>3
  <2> QED
    BY <2>2, <2>4, Zenon DEF Faulty
<1>5. CASE Module(t) = "function" /\ Faulty(t, V \cup {id[n]})
  <2>1. PICK W : W = V \cup {id[n]}
    OBVIOUS
  <2>2. PICK q \in Leads(t, W) : \E u \in Targets(End(t, q)) : Fault(End(t, q), u, Seen(t, W, q))
    BY <1>5, <2>1 DEF Faulty
  <2>3. q \in Seq(GraphNodes)
    BY DEF Leads
  <2>4. PICK p \in Seq(GraphNodes) : p = <<t>> \o q
    BY <1>3, <2>3, FirstAndRest
  <2>5. p \in Leads(n, V)
    BY <1>1, <1>3, <1>5, <2>1, <2>2, <2>3, <2>4, LeadOn DEF Leads
  <2>6. End(n, p) = End(t, q) /\ Seen(n, V, p) = Seen(t, W, q)
    BY <1>3, <2>1, <2>3, <2>4, EndOn, SeenOn
  <2> QED
    BY <2>2, <2>5, <2>6, Zenon DEF Faulty
<1> QED
  BY <1>2, <1>4, <1>5

\* The recursion throws where its definition says so.
LEMMA ThrowsOn ==
    ASSUME IdsOK, NEW n \in GraphNodes, NEW V \in SUBSET Ids
    PROVE  Throws[<<n, V>>] <=> ThrowsNow(Throws, n, V)
<1> DEFINE R == [c \in Calls |-> Faulty(c[1], c[2])]
<1>1. Throws = CHOOSE f : f = [c \in Calls |-> ThrowsNow(f, c[1], c[2])]
  BY Zenon DEF Throws, ThrowsNow
<1>2. ASSUME NEW c \in Calls
      PROVE  /\ c = <<c[1], c[2]>> /\ c[1] \in GraphNodes /\ c[2] \in SUBSET Ids
             /\ \A t \in GraphNodes : <<t, c[2] \cup {id[c[1]]}>> \in Calls
  <2>1. c = <<c[1], c[2]>> /\ c[1] \in GraphNodes /\ c[2] \in SUBSET Ids
    BY DEF Calls
  <2>2. id[c[1]] \in Ids
    BY <2>1 DEF IdsOK
  <2> QED
    BY <2>1, <2>2 DEF Calls
<1>3. ASSUME NEW c \in Calls PROVE Faulty(c[1], c[2]) = ThrowsNow(R, c[1], c[2])
  <2>1. ASSUME NEW t \in GraphNodes PROVE R[<<t, c[2] \cup {id[c[1]]}>>] = Faulty(t, c[2] \cup {id[c[1]]})
    <3>1. <<t, c[2] \cup {id[c[1]]}>> \in Calls
      BY <1>2
    <3>2. PICK d \in Calls : d = <<t, c[2] \cup {id[c[1]]}>>
      BY <3>1
    <3>3. d[1] = t /\ d[2] = c[2] \cup {id[c[1]]}
      BY <3>2
    <3>4. R[d] = Faulty(d[1], d[2])
      BY Zenon
    <3> QED
      BY <3>2, <3>3, <3>4, Zenon
  <2>2. \A t : t \in Targets(c[1]) => t \in GraphNodes
    BY Feeding
  <2>3. Faulty(c[1], c[2]) <=> FaultStep(c[1], c[2])
    BY <1>2, FaultFrom, FaultTo
  <2> HIDE DEF R
  <2>4. FaultStep(c[1], c[2]) <=> ThrowsNow(R, c[1], c[2])
    BY <2>1, <2>2, Zenon DEF FaultStep, ThrowsNow, Fault
  <2>5. Faulty(c[1], c[2]) \in BOOLEAN /\ ThrowsNow(R, c[1], c[2]) \in BOOLEAN
    BY Zenon DEF Faulty, ThrowsNow
  <2>6. PICK a, b : a = Faulty(c[1], c[2]) /\ b = ThrowsNow(R, c[1], c[2])
    OBVIOUS
  <2>7. a \in BOOLEAN /\ b \in BOOLEAN /\ (a <=> b)
    BY <2>3, <2>4, <2>5, <2>6, Zenon
  <2>8. a = b
    BY <2>7
  <2> QED
    BY <2>6, <2>8, Zenon
<1>4. R = [c \in Calls |-> ThrowsNow(R, c[1], c[2])]
  BY <1>3, Zenon
<1>5. Throws = [c \in Calls |-> ThrowsNow(Throws, c[1], c[2])]
  <2> HIDE DEF R
  <2> QED
    BY <1>1, <1>4, Zenon
<1>6. PICK c \in Calls : c = <<n, V>>
  BY DEF Calls
<1>7. c[1] = n /\ c[2] = V
  BY <1>6
<1>8. Throws[c] = ThrowsNow(Throws, c[1], c[2])
  BY <1>5, Zenon
<1> QED
  BY <1>6, <1>7, <1>8, Zenon

-----------------------------------------------------------------------------
(* The paths, node by node                                                 *)

\* Nodes that follow n over edges: functions, past V, n and each other, and at last an output
Feed(n, V, path) ==
    /\ id[n] \notin V /\ path # <<>> /\ Edge(n, path[1])
    /\ \A i \in 1 .. Len(path) - 1 : Edge(path[i], path[i + 1])
    /\ \A i \in 1 .. Len(path) - 1 : Module(path[i]) = "function" /\ id[path[i]] \notin V /\ id[path[i]] # id[n]
    /\ \A i, j \in 1 .. Len(path) - 1 : id[path[i]] = id[path[j]] => i = j
    /\ Module(path[Len(path)]) \in Outputs

LEMMA LastAndRest ==
    ASSUME NEW p \in Seq(GraphNodes), NEW u \in GraphNodes
    PROVE  /\ To(p, u) \in Seq(GraphNodes) /\ To(p, u) # <<>>
           /\ Len(To(p, u)) = Len(p) + 1 /\ Len(p) \in Nat
           /\ \A i \in 1 .. Len(p) : To(p, u)[i] = p[i]
           /\ To(p, u)[Len(p) + 1] = u
<1>1. To(p, u) = Append(p, u) /\ Len(p) \in Nat
  BY AppendIsConcat, LenProperties DEF To
<1> QED
  BY <1>1, AppendProperties

LEMMA FeedOn ==
    ASSUME IdsOK, NEW n \in GraphNodes, NEW V \in SUBSET Ids,
           NEW p \in Seq(GraphNodes), NEW u \in GraphNodes
    PROVE  Feed(n, V, To(p, u)) <=> Lead(n, V, p) /\ u \in OutputTargets(End(n, p))
<1>1. PICK path \in Seq(GraphNodes) : path = To(p, u)
  BY LastAndRest
<1>2. /\ path # <<>> /\ Len(path) = Len(p) + 1 /\ Len(p) \in Nat
      /\ \A i \in 1 .. Len(p) : path[i] = p[i]
      /\ path[Len(p) + 1] = u
  BY <1>1, LastAndRest
<1>3. u \in OutputTargets(End(n, p)) <=> Edge(End(n, p), u) /\ Module(u) \in Outputs
  BY Feeding DEF OutputTargets
<1>4. CASE p = <<>>
  <2>1. Len(p) = 0
    BY <1>4, EmptySeq
  <2>2. Lead(n, V, p) <=> id[n] \notin V
    BY <1>4, NoLead DEF Leads
  <2>3. End(n, p) = n
    BY <1>4 DEF End
  <2>4. Feed(n, V, path) <=> id[n] \notin V /\ Edge(n, u) /\ Module(u) \in Outputs
    <3>1. Len(path) = 1 /\ path[1] = u /\ 1 .. Len(path) - 1 = {}
      BY <1>2, <2>1
    <3> QED
      BY <1>2, <3>1 DEF Feed
  <2> QED
    BY <1>1, <1>3, <2>2, <2>3, <2>4
<1>5. CASE p # <<>>
  <2>1. 1 \in 1 .. Len(p) /\ Len(p) \in 1 .. Len(p) /\ Len(path) - 1 = Len(p)
    BY <1>2, <1>5, EmptySeq
  <2>2. End(n, p) = p[Len(p)] /\ path[1] = p[1]
    BY <1>2, <1>5, <2>1 DEF End
  <2>3. \A i \in 1 .. Len(p) - 1 : i \in 1 .. Len(p) /\ i + 1 \in 1 .. Len(p)
    BY <1>2
  <2>4. (\A i \in 1 .. Len(p) : Edge(path[i], path[i + 1]))
         <=> (\A i \in 1 .. Len(p) - 1 : Edge(p[i], p[i + 1])) /\ Edge(p[Len(p)], u)
    <3>1. \A i \in 1 .. Len(p) : i = Len(p) \/ i \in 1 .. Len(p) - 1
      BY <1>2
    <3>2. \A i \in 1 .. Len(p) - 1 : path[i] = p[i] /\ path[i + 1] = p[i + 1]
      BY <1>2, <2>3
    <3>3. path[Len(p)] = p[Len(p)] /\ path[Len(p) + 1] = u
      BY <1>2, <2>1
    <3> QED
      BY <2>1, <2>3, <3>1, <3>2, <3>3
  <2>5. (\A i \in 1 .. Len(p) : Module(path[i]) = "function" /\ id[path[i]] \notin V /\ id[path[i]] # id[n])
         <=> (\A i \in 1 .. Len(p) : Module(p[i]) = "function" /\ id[p[i]] \notin V /\ id[p[i]] # id[n])
    BY <1>2
  <2>6. (\A i, j \in 1 .. Len(p) : id[path[i]] = id[path[j]] => i = j)
         <=> (\A i, j \in 1 .. Len(p) : id[p[i]] = id[p[j]] => i = j)
    BY <1>2
  <2>7. path[Len(path)] = u
    BY <1>2
  <2> QED
    BY <1>1, <1>2, <1>3, <1>5, <2>1, <2>2, <2>4, <2>5, <2>6, <2>7 DEF Feed, Lead
<1> QED
  BY <1>4, <1>5

LEMMA RoutesFeed ==
    ASSUME IdsOK, NEW n \in GraphNodes, NEW V \in SUBSET Ids, NEW path
    PROVE  path \in Routes(n, V) <=> path \in Seq(GraphNodes) /\ Feed(n, V, path)
<1>1. ASSUME path \in Routes(n, V) PROVE path \in Seq(GraphNodes) /\ Feed(n, V, path)
  <2>1. PICK p \in Leads(n, V) : \E u \in GraphNodes : u \in OutputTargets(End(n, p)) /\ path = To(p, u)
    BY <1>1, RouteHas
  <2>2. PICK u \in GraphNodes : u \in OutputTargets(End(n, p)) /\ path = To(p, u)
    BY <2>1
  <2> QED
    BY <2>1, <2>2, LastAndRest, FeedOn DEF Leads
<1>2. ASSUME path \in Seq(GraphNodes), Feed(n, V, path) PROVE path \in Routes(n, V)
  <2>1. PICK p \in Seq(GraphNodes), u \in GraphNodes : path = Append(p, u)
    BY <1>2, SequenceEmptyOrAppend DEF Feed
  <2>2. path = To(p, u)
    BY <2>1, AppendIsConcat DEF To
  <2>3. p \in Leads(n, V) /\ u \in OutputTargets(End(n, p))
    BY <1>2, <2>2, FeedOn DEF Leads
  <2> QED
    BY <2>2, <2>3, IsRoute
<1> QED
  BY <1>1, <1>2

\* A path goes on from another
Extends(path, p) == Len(path) > Len(p) /\ \A i \in 1 .. Len(p) : path[i] = p[i]

LEMMA ExtendsOn ==
    ASSUME NEW t \in GraphNodes, NEW p \in Seq(GraphNodes), NEW q \in Seq(GraphNodes), Extends(p, q)
    PROVE  Extends(<<t>> \o p, <<t>> \o q)
<1>1. PICK r, s : r = <<t>> \o p /\ s = <<t>> \o q
  OBVIOUS
<1>2. /\ Len(r) = Len(p) + 1 /\ Len(p) \in Nat /\ r[1] = t /\ \A i \in 1 .. Len(p) : r[i + 1] = p[i]
      /\ Len(s) = Len(q) + 1 /\ Len(q) \in Nat /\ s[1] = t /\ \A i \in 1 .. Len(q) : s[i + 1] = q[i]
  BY <1>1, FirstAndRest
<1>3. ASSUME NEW i \in 1 .. Len(s) PROVE r[i] = s[i]
  <2>1. CASE i = 1
    BY <1>2, <2>1
  <2>2. CASE i # 1
    <3>1. i - 1 \in 1 .. Len(q) /\ i - 1 \in 1 .. Len(p) /\ (i - 1) + 1 = i
      BY <1>2, <2>2 DEF Extends
    <3>2. r[i] = p[i - 1] /\ s[i] = q[i - 1]
      BY <1>2, <3>1
    <3> QED
      BY <3>1, <3>2 DEF Extends
  <2> QED
    BY <2>1, <2>2
<1>4. Len(r) > Len(s)
  BY <1>2 DEF Extends
<1> QED
  BY <1>1, <1>3, <1>4 DEF Extends

LEMMA CallIs ==
    ASSUME NEW c \in Calls
    PROVE  \E m \in GraphNodes, W \in SUBSET Ids : c = <<m, W>>
<1>1. c[1] \in GraphNodes /\ c[2] \in SUBSET Ids /\ c = <<c[1], c[2]>>
  BY DEF Calls
<1> QED
  BY <1>1, Zenon

\* Where the recursion does not throw, no function is a dead end.
LEMMA NoDeadEnd ==
    ASSUME IdsOK, NEW n \in GraphNodes, NEW V \in SUBSET Ids, ~Throws[<<n, V>>],
           NEW p, p \in Leads(n, V), p # <<>>
    PROVE  \E path \in Routes(n, V) : Extends(path, p)
<1> DEFINE Dead(m, W) == \E q \in Leads(m, W) : q # <<>> /\ \A r \in Routes(m, W) : ~Extends(r, q)
<1>1. PICK Bad : Bad = {c \in Calls : ~Throws[c] /\ Dead(c[1], c[2])}
  OBVIOUS
<1>2. ASSUME NEW c \in Bad PROVE id[c[1]] \notin c[2] /\ \E t \in GraphNodes : <<t, c[2] \cup {id[c[1]]}>> \in Bad
  <2>0. c \in Calls
    BY <1>1, <1>2
  <2>1. PICK m \in GraphNodes, W \in SUBSET Ids : c = <<m, W>>
    BY <2>0, CallIs, Zenon
  <2>2. c[1] = m /\ c[2] = W /\ ~Throws[<<m, W>>] /\ Dead(m, W)
    BY <1>1, <2>1
  <2>3. PICK q \in Leads(m, W) : q # <<>> /\ \A r \in Routes(m, W) : ~Extends(r, q)
    BY <2>2
  <2>4. PICK t \in GraphNodes, rest \in Seq(GraphNodes) : q = <<t>> \o rest
    BY <2>3, SplitFirst DEF Leads
  <2>5. id[m] \notin W /\ t \in Targets(m) /\ Module(t) = "function" /\ rest \in Leads(t, W \cup {id[m]})
    BY <2>4, LeadOn, Feeding DEF Leads
  <2>6. PICK X \in SUBSET Ids : X = W \cup {id[m]}
    BY DEF IdsOK
  <2>7. ~ThrowsNow(Throws, m, W)
    BY <2>2, ThrowsOn
  <2>8. ~Throws[<<t, X>>] /\ PathsFrom[<<t, X>>] # {}
    BY <2>5, <2>6, <2>7, Zenon DEF ThrowsNow
  <2>9. ASSUME NEW r \in Routes(t, X) PROVE ~Extends(r, rest)
    <3>1. From(t, r) \in Routes(m, W)
      BY <2>5, <2>6, RouteTo
    <3>2. r \in Seq(GraphNodes)
      BY RoutesFeed
    <3>3. ~Extends(From(t, r), q)
      BY <2>3, <3>1
    <3> QED
      BY <2>4, <3>2, <3>3, ExtendsOn DEF From
  <2>10. rest # <<>>
    <3> SUFFICES ASSUME rest = <<>> PROVE FALSE
      OBVIOUS
    <3>1. PICK r : r \in Routes(t, X)
      BY <2>8, PathsAreRoutes
    <3>2. r \in Seq(GraphNodes) /\ Feed(t, X, r)
      BY <3>1, RoutesFeed
    <3>3. Len(r) > 0 /\ Len(rest) = 0 /\ 1 .. 0 = {}
      BY <3>2, EmptySeq DEF Feed
    <3> QED
      BY <2>9, <3>1, <3>3 DEF Extends
  <2>11. Dead(t, X)
    BY <2>5, <2>6, <2>9, <2>10
  <2>12. <<t, X>> \in Calls /\ <<t, X>>[1] = t /\ <<t, X>>[2] = X
    BY DEF Calls
  <2> HIDE DEF Dead
  <2> QED
    BY <1>1, <2>2, <2>5, <2>6, <2>8, <2>11, <2>12
<1>3. Bad = {}
  <2>1. Bad \in SUBSET Calls
    BY <1>1
  <2> QED
    BY <1>2, <2>1, CallsEnd
<1>4. <<n, V>> \in Calls /\ <<n, V>>[1] = n /\ <<n, V>>[2] = V
  BY DEF Calls
<1>5. ~Dead(n, V)
  <2> HIDE DEF Dead
  <2> QED
    BY <1>1, <1>3, <1>4
<1> QED
  BY <1>5

-----------------------------------------------------------------------------
(* The program, path by path                                               *)

\* An input, functions, an output; each feeds the next, and no id comes twice before the output
Driven(path) ==
    /\ Len(path) >= 2
    /\ Module(path[1]) \in Inputs
    /\ \A i \in 1 .. Len(path) - 1 : Edge(path[i], path[i + 1])
    /\ \A i \in 2 .. Len(path) - 1 : Module(path[i]) = "function"
    /\ \A i, j \in 1 .. Len(path) - 1 : id[path[i]] = id[path[j]] => i = j
    /\ Module(path[Len(path)]) \in Outputs

LEMMA Kinds ==
    "function" \notin Inputs /\ "function" \notin Outputs /\ \A x \in Inputs : x \notin Outputs
BY DEF Inputs, Outputs

LEMMA DrivenOn ==
    ASSUME NEW n \in GraphNodes, NEW p \in Seq(GraphNodes)
    PROVE  Driven(<<n>> \o p) <=> Module(n) \in Inputs /\ Feed(n, {}, p)
<1>1. PICK path \in Seq(GraphNodes) : path = <<n>> \o p
  BY FirstAndRest
<1>2. /\ Len(path) = Len(p) + 1 /\ Len(p) \in Nat /\ path[1] = n
      /\ \A i \in 1 .. Len(p) : path[i + 1] = p[i]
  BY <1>1, FirstAndRest
<1>3. p # <<>> <=> Len(p) >= 1
  BY <1>2, EmptySeq
<1>4. \A i \in 2 .. Len(path) : i - 1 \in 1 .. Len(p) /\ path[i] = p[i - 1]
  <2> SUFFICES ASSUME NEW i \in 2 .. Len(path) PROVE i - 1 \in 1 .. Len(p) /\ path[i] = p[i - 1]
    OBVIOUS
  <2>1. i - 1 \in 1 .. Len(p) /\ (i - 1) + 1 = i
    BY <1>2
  <2> QED
    BY <1>2, <2>1
<1>5. ASSUME Driven(path) PROVE Module(n) \in Inputs /\ Feed(n, {}, p)
  <2>1. Len(p) >= 1 /\ Module(n) \in Inputs
    BY <1>2, <1>5 DEF Driven
  <2>2. Edge(n, p[1])
    <3>1. 1 \in 1 .. Len(path) - 1 /\ path[2] = p[1]
      BY <1>2, <2>1, <1>4
    <3> QED
      BY <1>2, <1>5, <3>1 DEF Driven
  <2>3. ASSUME NEW i \in 1 .. Len(p) - 1
        PROVE  /\ Edge(p[i], p[i + 1]) /\ Module(p[i]) = "function"
               /\ id[p[i]] # id[n]
    <3>1. /\ i + 1 \in 2 .. Len(path) - 1 /\ i + 1 \in 1 .. Len(path) - 1
          /\ i \in 1 .. Len(p) /\ i + 1 \in 1 .. Len(p) /\ 1 \in 1 .. Len(path) - 1 /\ i + 1 # 1
      BY <1>2
    <3>2. path[i + 1] = p[i] /\ path[(i + 1) + 1] = p[i + 1]
      BY <1>2, <3>1
    <3> QED
      BY <1>2, <1>5, <3>1, <3>2 DEF Driven
  <2>4. ASSUME NEW i \in 1 .. Len(p) - 1, NEW j \in 1 .. Len(p) - 1, id[p[i]] = id[p[j]] PROVE i = j
    <3>1. /\ i + 1 \in 1 .. Len(path) - 1 /\ j + 1 \in 1 .. Len(path) - 1
          /\ path[i + 1] = p[i] /\ path[j + 1] = p[j]
      BY <1>2
    <3>2. i + 1 = j + 1
      BY <1>5, <2>4, <3>1 DEF Driven
    <3> QED
      BY <3>2
  <2>5. Module(p[Len(p)]) \in Outputs
    <3>1. path[Len(path)] = p[Len(p)]
      BY <1>2, <2>1
    <3> QED
      BY <1>5, <3>1 DEF Driven
  <2>6. \A i \in 1 .. Len(p) - 1 : i \in 1 .. Len(p)
    BY <1>2
  <2> QED
    BY <1>3, <2>1, <2>2, <2>3, <2>4, <2>5, <2>6 DEF Feed
<1>6. ASSUME Module(n) \in Inputs, Feed(n, {}, p) PROVE Driven(path)
  <2>1. Len(p) >= 1
    BY <1>3, <1>6 DEF Feed
  <2>2. ASSUME NEW i \in 1 .. Len(path) - 1 PROVE Edge(path[i], path[i + 1])
    <3>1. i + 1 \in 2 .. Len(path) /\ path[i + 1] = p[i]
      BY <1>2
    <3>2. CASE i = 1
      BY <1>2, <1>6, <3>1, <3>2 DEF Feed
    <3>3. CASE i # 1
      <4>1. i \in 2 .. Len(path) /\ i - 1 \in 1 .. Len(p) - 1 /\ (i - 1) + 1 = i
        BY <1>2, <3>3
      <4>2. path[i] = p[i - 1]
        BY <1>4, <4>1
      <4> QED
        BY <1>6, <3>1, <4>1, <4>2 DEF Feed
    <3> QED
      BY <3>2, <3>3
  <2>3. ASSUME NEW i \in 2 .. Len(path) - 1 PROVE Module(path[i]) = "function" /\ id[path[i]] # id[n]
    <3>1. i \in 2 .. Len(path) /\ i - 1 \in 1 .. Len(p) - 1
      BY <1>2
    <3> QED
      BY <1>4, <1>6, <3>1 DEF Feed
  <2>4. path[Len(path)] = p[Len(p)] /\ Module(p[Len(p)]) \in Outputs
    <3>1. Len(p) \in 1 .. Len(p)
      BY <1>2, <2>1
    <3> QED
      BY <1>2, <1>6, <3>1 DEF Feed
  <2>5. ASSUME NEW i \in 1 .. Len(path) - 1, NEW j \in 1 .. Len(path) - 1, id[path[i]] = id[path[j]], i < j
        PROVE  FALSE
    <3>1. CASE i = 1
      <4>1. j \in 2 .. Len(path) - 1
        BY <1>2, <2>5, <3>1
      <4> QED
        BY <1>2, <2>3, <2>5, <3>1, <4>1
    <3>2. CASE i # 1
      <4>1. /\ i \in 2 .. Len(path) /\ i - 1 \in 1 .. Len(p) - 1
            /\ j \in 2 .. Len(path) /\ j - 1 \in 1 .. Len(p) - 1
        BY <1>2, <2>5, <3>2
      <4>2. id[p[i - 1]] = id[p[j - 1]]
        BY <1>4, <2>5, <4>1
      <4>3. i - 1 = j - 1
        BY <1>6, <4>1, <4>2 DEF Feed
      <4> QED
        BY <2>5, <4>3
    <3> QED
      BY <3>1, <3>2
  <2>6. \A i, j \in 1 .. Len(path) - 1 : id[path[i]] = id[path[j]] => i = j
    <3> SUFFICES ASSUME NEW i \in 1 .. Len(path) - 1, NEW j \in 1 .. Len(path) - 1,
                        id[path[i]] = id[path[j]], i # j
                 PROVE  FALSE
      OBVIOUS
    <3>1. i < j \/ j < i
      OBVIOUS
    <3> QED
      BY <2>5, <3>1
  <2>7. Len(path) >= 2
    BY <1>2, <2>1
  <2> QED
    BY <1>2, <1>6, <2>2, <2>3, <2>4, <2>6, <2>7 DEF Driven
<1> QED
  BY <1>1, <1>5, <1>6

LEMMA ProgramIsDriven ==
    ASSUME IdsOK, NEW path
    PROVE  path \in Program <=> path \in Seq(GraphNodes) /\ Driven(path)
<1>1. ASSUME NEW n \in GraphNodes PROVE PathsFrom[<<n, {}>>] = Routes(n, {})
  BY PathsAreRoutes
<1>2. ASSUME path \in Program PROVE path \in Seq(GraphNodes) /\ Driven(path)
  <2>1. PICK n \in InputNodes : path \in {From(n, p) : p \in PathsFrom[<<n, {}>>]}
    BY <1>2 DEF Program, From
  <2>2. n \in GraphNodes /\ Module(n) \in Inputs
    BY DEF InputNodes
  <2>3. PICK p \in Routes(n, {}) : path = From(n, p)
    BY <1>1, <2>1, <2>2
  <2>4. p \in Seq(GraphNodes) /\ Feed(n, {}, p)
    BY <2>2, <2>3, RoutesFeed
  <2> QED
    BY <2>2, <2>3, <2>4, DrivenOn, FirstAndRest DEF From
<1>3. ASSUME path \in Seq(GraphNodes), Driven(path) PROVE path \in Program
  <2>1. path # <<>>
    BY <1>3, EmptySeq DEF Driven
  <2>2. PICK n \in GraphNodes, p \in Seq(GraphNodes) : path = <<n>> \o p
    BY <1>3, <2>1, SplitFirst
  <2>3. Module(n) \in Inputs /\ Feed(n, {}, p)
    BY <1>3, <2>2, DrivenOn
  <2>4. p \in Routes(n, {})
    BY <2>3, RoutesFeed
  <2>5. p \in PathsFrom[<<n, {}>>] /\ path = From(n, p)
    BY <1>1, <2>2, <2>4 DEF From
  <2>6. n \in InputNodes
    BY <2>3 DEF InputNodes
  <2>7. path \in {From(n, r) : r \in PathsFrom[<<n, {}>>]}
    BY <2>5
  <2> QED
    BY <2>6, <2>7 DEF Program, From
<1> QED
  BY <1>2, <1>3

\* The paths of the reference
LEMMA SimplePathsAre ==
    ASSUME NEW p
    PROVE  p \in SimplePaths <=> /\ p \in Seq(GraphNodes) /\ Len(p) \in 2 .. Cardinality(GraphNodes)
                                 /\ NoIdTwice(p, Len(p) - 1)
                                 /\ \A i \in 1 .. Len(p) - 1 : Edge(p[i], p[i + 1])
<1>1. Cardinality(GraphNodes) \in Nat
  BY FS_CardinalityType DEF GraphAssumption
<1>2. ASSUME p \in SimplePaths
      PROVE  /\ p \in Seq(GraphNodes) /\ Len(p) \in 2 .. Cardinality(GraphNodes)
             /\ NoIdTwice(p, Len(p) - 1)
             /\ \A i \in 1 .. Len(p) - 1 : Edge(p[i], p[i + 1])
  <2>1. PICK k \in 2 .. Cardinality(GraphNodes) :
          /\ p \in [1 .. k -> GraphNodes]
          /\ NoIdTwice(p, k - 1)
          /\ \A i \in 1 .. k - 1 : Edge(p[i], p[i + 1])
    BY <1>2 DEF SimplePaths
  <2>2. k \in Nat
    BY <1>1
  <2>3. p \in Seq(GraphNodes) /\ Len(p) = k
    BY <2>1, <2>2
  <2> QED
    BY <2>1, <2>2, <2>3
<1>3. ASSUME p \in Seq(GraphNodes), Len(p) \in 2 .. Cardinality(GraphNodes), NoIdTwice(p, Len(p) - 1),
             \A i \in 1 .. Len(p) - 1 : Edge(p[i], p[i + 1])
      PROVE  p \in SimplePaths
  <2>1. PICK k \in 2 .. Cardinality(GraphNodes) : k = Len(p)
    BY <1>3
  <2>2. p \in [1 .. k -> GraphNodes]
    BY <1>3, <2>1, LenProperties
  <2>3. p \in {q \in [1 .. k -> GraphNodes] :
                 NoIdTwice(q, k - 1) /\ \A i \in 1 .. k - 1 : Edge(q[i], q[i + 1])}
    BY <1>3, <2>1, <2>2
  <2> QED
    BY <2>1, <2>3 DEF SimplePaths
<1> QED
  BY <1>2, <1>3

\* The nodes of a path of the program differ, so there are no more of them than in the graph.
LEMMA DrivenIsShort ==
    ASSUME NEW p \in Seq(GraphNodes), Driven(p)
    PROVE  Len(p) \in 2 .. Cardinality(GraphNodes)
<1>1. Cardinality(GraphNodes) \in Nat
  BY FS_CardinalityType DEF GraphAssumption
<1>2. PICK k \in Nat : k = Len(p) /\ p \in [1 .. k -> GraphNodes] /\ k >= 2
  BY LenProperties DEF Driven
<1>3. ASSUME NEW i \in 1 .. k, NEW j \in 1 .. k, p[i] = p[j], i < j PROVE FALSE
  <2>1. CASE j = k
    <3>1. i = 1 \/ i \in 2 .. k - 1
      BY <1>2, <1>3
    <3> QED
      BY <1>2, <1>3, <2>1, <3>1, Kinds DEF Driven
  <2>2. CASE j # k
    <3>1. i \in 1 .. k - 1 /\ j \in 1 .. k - 1
      <4>1. i \in Int /\ j \in Int /\ k \in Int /\ 1 <= i /\ i < j /\ j <= k
        BY <1>2, <1>3
      <4> QED
        BY <2>2, <4>1
    <3>2. i = j
      BY <1>2, <1>3, <3>1 DEF Driven
    <3> QED
      BY <1>3, <3>2
  <2> QED
    BY <2>1, <2>2
<1>4. IsFiniteSet(1 .. k) /\ Cardinality(1 .. k) = k
  <2>1. 1 \in Int /\ k \in Int /\ ~(1 > k) /\ k - 1 + 1 = k
    BY <1>2
  <2>2. IsFiniteSet(1 .. k) /\ Cardinality(1 .. k) = IF 1 > k THEN 0 ELSE k - 1 + 1
    BY <2>1, FS_Interval
  <2> QED
    BY <2>1, <2>2
<1>5. k <= Cardinality(GraphNodes)
  <2> SUFFICES ASSUME Cardinality(GraphNodes) < k PROVE FALSE
    BY <1>1
  <2>1. PICK i \in 1 .. k, j \in 1 .. k : i # j /\ p[i] = p[j]
    BY <1>2, <1>4, FS_PigeonHole DEF GraphAssumption
  <2>2. i < j \/ j < i
    BY <2>1
  <2> QED
    BY <1>3, <2>1, <2>2
<1> QED
  BY <1>1, <1>2, <1>5

-----------------------------------------------------------------------------
(* The program of an accepted graph                                        *)

\* A function that an input feeds is on the way to an output.
LEMMA PathsGoOn ==
    ASSUME IdsOK, Accepted, NEW p, p \in SimplePaths, Module(p[1]) \in Inputs,
           \A i \in 2 .. Len(p) : Module(p[i]) = "function", NoIdTwice(p, Len(p))
    PROVE  \E path \in Program : Len(path) > Len(p) /\ SubSeq(path, 1, Len(p)) = p
<1>1. /\ p \in Seq(GraphNodes) /\ Len(p) >= 2 /\ Len(p) \in Nat
      /\ \A i, j \in 1 .. Len(p) : id[p[i]] = id[p[j]] => i = j
      /\ \A i \in 1 .. Len(p) - 1 : Edge(p[i], p[i + 1])
  BY SimplePathsAre, LenProperties DEF NoIdTwice
<1>2. PICK n \in GraphNodes, q \in Seq(GraphNodes) : p = <<n>> \o q
  <2>1. Len(<<>>) = 0
    BY EmptySeq
  <2>2. p # <<>>
    BY <1>1, <2>1
  <2> QED
    BY <1>1, <2>2, SplitFirst
<1>3. /\ Len(p) = Len(q) + 1 /\ Len(q) \in Nat /\ p[1] = n
      /\ \A i \in 1 .. Len(q) : p[i + 1] = q[i]
  BY <1>2, FirstAndRest
<1>4. q # <<>> /\ Len(q) >= 1
  BY <1>1, <1>3, EmptySeq
<1>5. q \in Leads(n, {})
  <2>1. Edge(n, q[1])
    <3>1. 1 \in 1 .. Len(p) - 1 /\ 1 \in 1 .. Len(q)
      BY <1>3, <1>4
    <3> QED
      BY <1>1, <1>3, <3>1
  <2>2. ASSUME NEW i \in 1 .. Len(q) - 1 PROVE Edge(q[i], q[i + 1])
    <3>1. i + 1 \in 1 .. Len(p) - 1 /\ i \in 1 .. Len(q) /\ i + 1 \in 1 .. Len(q)
      BY <1>3
    <3>2. p[i + 1] = q[i] /\ p[(i + 1) + 1] = q[i + 1]
      BY <1>3, <3>1
    <3> QED
      BY <1>1, <3>1, <3>2
  <2>3. ASSUME NEW i \in 1 .. Len(q) PROVE Module(q[i]) = "function" /\ id[q[i]] # id[n]
    <3>1. i + 1 \in 2 .. Len(p) /\ i + 1 \in 1 .. Len(p) /\ 1 \in 1 .. Len(p) /\ i + 1 # 1
      BY <1>3
    <3> QED
      BY <1>1, <1>3, <3>1
  <2>4. ASSUME NEW i \in 1 .. Len(q), NEW j \in 1 .. Len(q), id[q[i]] = id[q[j]] PROVE i = j
    <3>1. i + 1 \in 1 .. Len(p) /\ j + 1 \in 1 .. Len(p) /\ p[i + 1] = q[i] /\ p[j + 1] = q[j]
      BY <1>3
    <3>2. i + 1 = j + 1
      BY <1>1, <2>4, <3>1
    <3> QED
      BY <3>2
  <2> QED
    BY <2>1, <2>2, <2>3, <2>4 DEF Leads, Lead
<1>6. Module(n) \in Inputs /\ n \in InputNodes
  BY <1>3 DEF InputNodes
<1>7. ~Throws[<<n, {}>>]
  BY <1>6 DEF Accepted, BuildAccepts
<1>8. PICK r \in Routes(n, {}) : Extends(r, q)
  BY <1>4, <1>5, <1>7, NoDeadEnd
<1>9. r \in Seq(GraphNodes) /\ Feed(n, {}, r)
  BY <1>8, RoutesFeed
<1>10. PICK path \in Seq(GraphNodes) : path = <<n>> \o r
  BY <1>9, FirstAndRest
<1>11. path \in Program
  BY <1>6, <1>9, <1>10, DrivenOn, ProgramIsDriven
<1>12. Len(path) > Len(p) /\ \A i \in 1 .. Len(p) : path[i] = p[i]
  BY <1>2, <1>8, <1>9, <1>10, ExtendsOn DEF Extends
<1>13. SubSeq(path, 1, Len(p)) = p
  <2>1. \A i \in 1 .. Len(p) : path[i] \in GraphNodes
    BY <1>1, <1>12, ElementOfSeq
  <2>2. /\ SubSeq(path, 1, Len(p)) \in Seq(GraphNodes)
        /\ Len(SubSeq(path, 1, Len(p))) = IF 1 <= Len(p) THEN Len(p) - 1 + 1 ELSE 0
        /\ \A i \in 1 .. Len(p) - 1 + 1 : SubSeq(path, 1, Len(p))[i] = path[1 + i - 1]
    <3>1. 1 \in Int /\ Len(p) \in Int
      BY <1>1
    <3> QED
      BY <2>1, <3>1, SubSeqProperties
  <2>3. PICK s \in Seq(GraphNodes) : s = SubSeq(path, 1, Len(p))
    BY <2>2
  <2>4. Len(s) = Len(p)
    BY <1>1, <2>2, <2>3
  <2>5. ASSUME NEW i \in 1 .. Len(p) PROVE s[i] = p[i]
    <3>1. i \in 1 .. Len(p) - 1 + 1 /\ 1 + i - 1 = i
      BY <1>1
    <3> QED
      BY <1>12, <2>2, <2>3, <3>1
  <2> QED
    BY <1>1, <2>3, <2>4, <2>5, SeqEqual
<1> QED
  BY <1>11, <1>12, <1>13

LEMMA ProgramIsFeeding ==
    ASSUME IdsOK, NEW p
    PROVE  p \in Program <=> /\ p \in SimplePaths /\ Module(p[1]) \in Inputs
                             /\ \A i \in 2 .. Len(p) - 1 : Module(p[i]) = "function"
                             /\ Module(p[Len(p)]) \in Outputs
<1>1. ASSUME p \in Program
      PROVE  /\ p \in SimplePaths /\ Module(p[1]) \in Inputs
             /\ \A i \in 2 .. Len(p) - 1 : Module(p[i]) = "function"
             /\ Module(p[Len(p)]) \in Outputs
  <2>1. p \in Seq(GraphNodes) /\ Driven(p)
    BY <1>1, ProgramIsDriven
  <2>2. Len(p) \in 2 .. Cardinality(GraphNodes) /\ NoIdTwice(p, Len(p) - 1)
    BY <2>1, DrivenIsShort DEF Driven, NoIdTwice
  <2> QED
    BY <2>1, <2>2, SimplePathsAre DEF Driven
<1>2. ASSUME p \in SimplePaths, Module(p[1]) \in Inputs,
             \A i \in 2 .. Len(p) - 1 : Module(p[i]) = "function",
             Module(p[Len(p)]) \in Outputs
      PROVE  p \in Program
  <2>1. /\ p \in Seq(GraphNodes) /\ Len(p) \in 2 .. Cardinality(GraphNodes) /\ NoIdTwice(p, Len(p) - 1)
        /\ \A i \in 1 .. Len(p) - 1 : Edge(p[i], p[i + 1])
    BY <1>2, SimplePathsAre
  <2>2. Driven(p)
    BY <1>2, <2>1 DEF Driven, NoIdTwice
  <2> QED
    BY <2>1, <2>2, ProgramIsDriven
<1> QED
  BY <1>1, <1>2

LEMMA AllPaths ==
    ASSUME IdsOK
    PROVE  ProgramIsAllPaths
<1> DEFINE Feeds(p, last) == Module(p[1]) \in Inputs /\ \A i \in 2 .. last : Module(p[i]) = "function"
<1> SUFFICES ASSUME Accepted
             PROVE  /\ Program = {p \in SimplePaths : Feeds(p, Len(p) - 1) /\ Module(p[Len(p)]) \in Outputs}
                    /\ \A p \in SimplePaths : Feeds(p, Len(p)) /\ NoIdTwice(p, Len(p)) =>
                         \E path \in Program : Len(path) > Len(p) /\ SubSeq(path, 1, Len(p)) = p
                    /\ Sanitised(Program) \/ TooBig(Program) \/ \E path \in Program : Bridge(path)
  BY Zenon DEF ProgramIsAllPaths
<1>1. Program = {p \in SimplePaths : Feeds(p, Len(p) - 1) /\ Module(p[Len(p)]) \in Outputs}
  BY ProgramIsFeeding, Zenon
<1>2. \A p \in SimplePaths : Feeds(p, Len(p)) /\ NoIdTwice(p, Len(p)) =>
        \E path \in Program : Len(path) > Len(p) /\ SubSeq(path, 1, Len(p)) = p
  BY PathsGoOn, Zenon
<1>3. ASSUME ~TooBig(Program), ~\E path \in Program : Bridge(path) PROVE Sanitised(Program)
  <2>1. ASSUME NEW path \in Program
        PROVE  /\ path # <<>> /\ Module(path[1]) \in Inputs
               /\ Module(path[Len(path)]) \in Outputs
               /\ \A i \in 2 .. Len(path) - 1 : Module(path[i]) = "function"
    <3>1. path \in Seq(GraphNodes) /\ Driven(path)
      BY ProgramIsDriven
    <3>2. path # <<>>
      <4>1. Len(<<>>) = 0
        BY EmptySeq
      <4> QED
        BY <3>1, <4>1 DEF Driven
    <3> QED
      BY <3>1, <3>2 DEF Driven
  <2> QED
    BY <1>3, <2>1, Zenon DEF Sanitised
<1> QED
  BY <1>1, <1>2, <1>3, Zenon

LEMMA IdsStay ==
    GraphSpec => []IdsOK
<1>1. GraphInit => IdsOK
  BY DEF GraphInit, IdsOK
<1>2. IdsOK /\ [GraphNext]_graphVars => IdsOK'
  <2> SUFFICES ASSUME IdsOK, [GraphNext]_graphVars PROVE IdsOK'
    OBVIOUS
  <2>1. CASE GraphNext
    <3>1. id' = id
      BY <2>1 DEF GraphNext, Connect
    <3> QED
      BY <3>1 DEF IdsOK
  <2>2. CASE UNCHANGED graphVars
    BY <2>2 DEF IdsOK, graphVars
  <2> QED
    BY <2>1, <2>2
<1> QED
  BY <1>1, <1>2, PTL DEF GraphSpec

\* What the recursion stores is what the graph means: every path, no dead end, and a program the
\* sanitiser refuses for a bridge or its size only.
THEOREM ProgramsAreAllPaths == GraphSpec => []ProgramIsAllPaths
<1>1. IdsOK => ProgramIsAllPaths
  BY AllPaths
<1> QED
  BY <1>1, IdsStay, PTL

-----------------------------------------------------------------------------
(* Drivers of a pin                                                        *)

LEMMA OneAtMost ==
    ASSUME NEW S, \A x, y \in S : x = y
    PROVE  Cardinality(S) <= 1
<1>1. CASE S = {}
  BY <1>1, FS_EmptySet
<1>2. CASE S # {}
  <2>1. PICK x : x \in S
    BY <1>2
  <2>2. S = {x}
    BY <2>1
  <2> QED
    BY <2>2, FS_Singleton
<1> QED
  BY <1>1, <1>2

\* Two nodes that command the same pin are one.
LEMMA OneNode ==
    ASSUME SetupAccepts, NEW x \in GraphNodes, NEW y \in GraphNodes,
           node[x].module \in {"output", "dac"}, node[y].module \in {"output", "dac"},
           node[x].a = node[y].a
    PROVE  x = y
<1>1. ASSUME NEW n \in GraphNodes, node[n].module \in {"output", "dac"}
      PROVE  \E t \in Taken : t.node = n /\ t.pin = node[n].a
  <2>1. PICK p \in Pins(node[n]) : p.slot = "a" /\ p.pin = node[n].a
    BY <1>1 DEF Pins
  <2>2. PICK t : t = [node |-> n, slot |-> p.slot, pin |-> p.pin, allowed |-> p.allowed]
    OBVIOUS
  <2>3. t \in {[node |-> n, slot |-> r.slot, pin |-> r.pin, allowed |-> r.allowed] : r \in Pins(node[n])}
    BY <2>2
  <2>4. t \in Taken
    BY <2>3 DEF Taken
  <2> QED
    BY <2>1, <2>2, <2>4
<1>2. PICK t \in Taken : t.node = x /\ t.pin = node[x].a
  BY <1>1
<1>3. PICK u \in Taken : u.node = y /\ u.pin = node[y].a
  BY <1>1
<1>4. t = u
  BY <1>2, <1>3 DEF SetupAccepts
<1> QED
  BY <1>2, <1>3, <1>4

\* A node that an edge leads to is the one its id stands for.
LEMMA IdIsNode ==
    ASSUME NEW m \in GraphNodes, NEW n \in GraphNodes, HasId(m), HasId(n), id[m] = id[n]
    PROVE  m = n
<1>1. m \in Nat /\ n \in Nat
  BY DEF GraphAssumption
<1>2. m <= n /\ n <= m
  BY DEF HasId
<1> QED
  BY <1>1, <1>2

\* Paths that end at the same node came the same way: no id has two incoming edges.
LEMMA SameWay ==
    ASSUME ValidStructure(edges), NEW p \in Seq(GraphNodes), NEW q \in Seq(GraphNodes),
           Driven(p), Driven(q), p[Len(p)] = q[Len(q)], Len(p) <= Len(q)
    PROVE  EndsLike(p, q)
<1>1. Len(p) \in Nat /\ Len(q) \in Nat /\ Len(p) >= 2 /\ Len(q) >= 2
  BY LenProperties DEF Driven
<1>2. PICK S : S = {k \in 0 .. Len(p) - 1 : id[p[Len(p) - k]] # id[q[Len(q) - k]]}
  OBVIOUS
<1>3. S \in SUBSET Nat
  BY <1>1, <1>2
<1>4. ASSUME S # {} PROVE FALSE
  <2>1. PICK k \in S : \A j \in S : k <= j
    BY <1>3, <1>4, LeastIndex
  <2>2. k \in 0 .. Len(p) - 1 /\ id[p[Len(p) - k]] # id[q[Len(q) - k]]
    BY <1>2
  <2>3. k # 0
    <3> SUFFICES ASSUME k = 0 PROVE FALSE
      OBVIOUS
    <3>1. Len(p) - k = Len(p) /\ Len(q) - k = Len(q)
      BY <1>1
    <3> QED
      BY <2>2, <3>1
  <2>4. k - 1 \in 0 .. Len(p) - 1 /\ k - 1 \notin S
    BY <1>1, <2>1, <2>2, <2>3
  <2>5. id[p[Len(p) - (k - 1)]] = id[q[Len(q) - (k - 1)]]
    BY <1>2, <2>4
  <2>6. PICK i, j : i = Len(p) - k /\ j = Len(q) - k
    OBVIOUS
  <2>7. /\ i \in 1 .. Len(p) - 1 /\ j \in 1 .. Len(q) - 1
        /\ Len(p) - (k - 1) = i + 1 /\ Len(q) - (k - 1) = j + 1
    <3>1. PICK a \in Nat, b \in Nat : a = Len(p) /\ b = Len(q) /\ a <= b
      BY <1>1
    <3>2. k \in 0 .. a - 1 /\ k # 0 /\ i = a - k /\ j = b - k
      BY <2>2, <2>3, <2>6, <3>1
    <3>3. i \in 1 .. a - 1 /\ j \in 1 .. b - 1 /\ a - (k - 1) = i + 1 /\ b - (k - 1) = j + 1
      BY <3>1, <3>2
    <3> QED
      BY <3>1, <3>3
  <2>8. <<id[p[i]], id[p[i + 1]]>> \in edges /\ <<id[q[j]], id[q[j + 1]]>> \in edges
    BY <2>7 DEF Driven, Edge
  <2>9. <<id[p[i]], id[p[i + 1]]>> = <<id[q[j]], id[q[j + 1]]>>
    <3>1. id[p[i + 1]] = id[q[j + 1]]
      BY <2>5, <2>7
    <3> QED
      BY <2>8, <3>1 DEF ValidStructure
  <2> QED
    BY <2>2, <2>6, <2>9
<1> QED
  BY <1>2, <1>4 DEF EndsLike

\* ... so they are one, unless the first node of the shorter shares its id.
LEMMA OnePath ==
    ASSUME ValidStructure(edges), NEW p \in Seq(GraphNodes), NEW q \in Seq(GraphNodes),
           Driven(p), Driven(q), p[Len(p)] = q[Len(q)], Len(p) <= Len(q), ~SharesId(p[1])
    PROVE  p = q
<1>1. Len(p) \in Nat /\ Len(q) \in Nat /\ Len(p) >= 2 /\ Len(q) >= 2
  BY LenProperties DEF Driven
<1>2. \A k \in 0 .. Len(p) - 1 : id[p[Len(p) - k]] = id[q[Len(q) - k]]
  BY SameWay DEF EndsLike
<1>3. PICK j : j = Len(q) - (Len(p) - 1)
  OBVIOUS
<1>4. j \in 1 .. Len(q) - 1 /\ Len(p) - 1 \in 0 .. Len(p) - 1 /\ Len(p) - (Len(p) - 1) = 1
  BY <1>1, <1>3
<1>5. p[1] \in GraphNodes /\ q[j] \in GraphNodes
  <2>1. 1 \in 1 .. Len(p) /\ j \in 1 .. Len(q)
    BY <1>1, <1>4
  <2> QED
    BY <2>1, ElementOfSeq
<1>6. p[1] = q[j]
  <2>1. id[p[1]] = id[q[j]]
    BY <1>2, <1>3, <1>4
  <2> QED
    BY <1>5, <2>1 DEF SharesId
<1>7. Len(p) = Len(q)
  <2> SUFFICES ASSUME Len(p) < Len(q) PROVE FALSE
    BY <1>1
  <2>1. j \in 2 .. Len(q) - 1
    BY <1>1, <1>3, <1>4
  <2>2. Module(q[j]) = "function" /\ Module(p[1]) \in Inputs
    BY <2>1 DEF Driven
  <2> QED
    BY <1>6, <2>2, Kinds
<1>8. ASSUME NEW i \in 1 .. Len(p) PROVE p[i] = q[i]
  <2>1. CASE i = 1
    <3>1. j = 1
      BY <1>1, <1>3, <1>7
    <3> QED
      BY <1>6, <2>1, <3>1
  <2>2. CASE i # 1
    <3>1. PICK k : k = Len(p) - i
      OBVIOUS
    <3>2. k \in 0 .. Len(p) - 1 /\ Len(p) - k = i /\ Len(q) - k = i
      BY <1>1, <1>7, <3>1
    <3>3. id[p[i]] = id[q[i]]
      BY <1>2, <3>2
    <3>4. PICK l : l = i - 1
      OBVIOUS
    <3>5. l \in 1 .. Len(p) - 1 /\ l \in 1 .. Len(q) - 1 /\ l + 1 = i /\ i \in 1 .. Len(q)
      BY <1>1, <1>7, <2>2, <3>4
    <3>6. HasId(p[i]) /\ HasId(q[i])
      BY <3>5 DEF Driven, Edge
    <3>7. p[i] \in GraphNodes /\ q[i] \in GraphNodes
      BY <3>5, ElementOfSeq
    <3> QED
      BY <3>3, <3>6, <3>7, IdIsNode
  <2> QED
    BY <2>1, <2>2
<1> QED
  BY <1>7, <1>8, SeqEqual

LEMMA OneDriverOf ==
    ASSUME IdsOK
    PROVE  OneDriver
<1> DEFINE Drives(path, pin) == LET last == node[path[Len(path)]] IN
                                last.module \in {"output", "dac"} /\ last.a = pin
<1> SUFFICES ASSUME Accepted, NEW pin \in Valid
             PROVE  /\ Cardinality({t \in Taken : t.pin = pin}) <= 1
                    /\ \A p, q \in {path \in Program : Drives(path, pin)} :
                         p # q /\ Len(p) <= Len(q) => SharesId(p[1]) /\ EndsLike(p, q)
  BY Zenon DEF OneDriver
<1>1. Cardinality({t \in Taken : t.pin = pin}) <= 1
  <2>1. \A t, u \in {v \in Taken : v.pin = pin} : t = u
    BY DEF Accepted, SetupAccepts
  <2> QED
    BY <2>1, OneAtMost
<1>2. ASSUME NEW p \in Program, NEW q \in Program, Drives(p, pin), Drives(q, pin),
             p # q, Len(p) <= Len(q)
      PROVE  SharesId(p[1]) /\ EndsLike(p, q)
  <2>1. p \in Seq(GraphNodes) /\ q \in Seq(GraphNodes) /\ Driven(p) /\ Driven(q)
    BY ProgramIsDriven
  <2>2. Len(p) \in Nat /\ Len(q) \in Nat /\ Len(p) \in 1 .. Len(p) /\ Len(q) \in 1 .. Len(q)
    BY <2>1, LenProperties DEF Driven
  <2>3. p[Len(p)] \in GraphNodes /\ q[Len(q)] \in GraphNodes
    BY <2>1, <2>2, ElementOfSeq
  <2>4. p[Len(p)] = q[Len(q)]
    BY <1>2, <2>3, OneNode DEF Accepted
  <2> QED
    BY <1>2, <2>1, <2>4, SameWay, OnePath DEF Accepted
<1> HIDE DEF Drives
<1> QED
  BY <1>1, <1>2

\* Two drivers of one pin never get as far as the device, setup and structure refuse them,
\* except where nodes share an id: then the paths to the pin are those of its one chain of edges.
THEOREM PinsHaveOneDriver == GraphSpec => []OneDriver
<1>1. IdsOK => OneDriver
  BY OneDriverOf
<1> QED
  BY <1>1, IdsStay, PTL

HIDE GraphAssumption

-----------------------------------------------------------------------------
(* Supported operators                                                     *)

USE ConditionAssumption

LEMMA FiniteIndices ==
    ASSUME NEW n \in Nat, NEW S \in SUBSET (1 .. n)
    PROVE  IsFiniteSet(S)
<1>1. IsFiniteSet(1 .. n)
  BY FS_Interval, 1 \in Int, n \in Int
<1> QED
  BY <1>1, FS_Subset

\* In a finite set of indices, those up to one index are fewer than those up to a later one.
LEMMA RanksDiffer ==
    ASSUME NEW n \in Nat, NEW S \in SUBSET (1 .. n), NEW i \in S, NEW j \in S, i < j
    PROVE  Cardinality({k \in S : k <= i}) # Cardinality({k \in S : k <= j})
<1> DEFINE A == {k \in S : k <= i}  B == {k \in S : k <= j}
<1>1. IsFiniteSet(S)
  BY FiniteIndices
<1>2. i \in Int /\ j \in Int /\ \A k \in S : k \in Int
  OBVIOUS
<1>3. B \in SUBSET S /\ A \in SUBSET B /\ j \in B /\ j \notin A
  <2>1. \A k \in S : k <= i => k <= j
    BY <1>2
  <2>2. j <= j /\ ~(j <= i)
    BY <1>2
  <2> QED
    BY <2>1, <2>2
<1> HIDE DEF A, B
<1>4. IsFiniteSet(B)
  BY <1>1, <1>3, FS_Subset
<1>5. Cardinality(A) # Cardinality(B)
  BY <1>3, <1>4, FS_Subset
<1> QED
  BY <1>5 DEF A, B

\* A rank is the number of some index up to the size of the set.
LEMMA RanksBounded ==
    ASSUME NEW n \in Nat, NEW S \in SUBSET (1 .. n), NEW i \in S
    PROVE  /\ Cardinality(S) \in Nat
           /\ Cardinality({k \in S : k <= i}) \in 1 .. Cardinality(S)
<1> DEFINE A == {k \in S : k <= i}
<1>1. IsFiniteSet(S) /\ A \in SUBSET S /\ i \in A
  <2>1. i <= i
    OBVIOUS
  <2>2. A \in SUBSET S /\ i \in A
    BY <2>1
  <2> QED
    BY <2>2, FiniteIndices
<1> HIDE DEF A
<1>2. /\ IsFiniteSet(A) /\ Cardinality(A) <= Cardinality(S)
      /\ Cardinality(S) \in Nat /\ Cardinality(A) \in Nat
  BY <1>1, FS_Subset, FS_CardinalityType
<1>3. Cardinality(A) # 0
  BY <1>1, <1>2, FS_EmptySet
<1> QED
  BY <1>2, <1>3 DEF A

\* The normalised list has every known operator of the list.
LEMMA SupportedKeeps ==
    ASSUME NEW n \in Nat, NEW list, DOMAIN list = 1 .. n,
           NEW i \in 1 .. n, list[i] \in Operators
    PROVE  \E k \in DOMAIN Supported(list) : Supported(list)[k] = list[i]
<1> DEFINE firsts == {h \in DOMAIN list :
                        list[h] \in Operators /\ \A j \in 1 .. h - 1 : list[j] # list[h]}
           rank(h) == Cardinality({j \in firsts : j <= h})
           same == {h \in 1 .. n : list[h] = list[i]}
<1>1. PICK m \in same : \A h \in same : m <= h
  <2>1. same \in SUBSET Nat /\ i \in same
    OBVIOUS
  <2> HIDE DEF same
  <2> QED
    BY <2>1, LeastIndex
<1>2. m \in firsts /\ list[m] = list[i] /\ firsts \in SUBSET (1 .. n)
  BY <1>1
<1>3. Supported(list) = [k \in 1 .. Cardinality(firsts) |-> list[CHOOSE h \in firsts : rank(h) = k]]
  BY <1>2 DEF Supported
<1> HIDE DEF firsts
<1>4. rank(m) \in 1 .. Cardinality(firsts)
  BY <1>2, RanksBounded
<1>5. \A h \in firsts : rank(h) = rank(m) => h = m
  <2> SUFFICES ASSUME NEW h \in firsts, rank(h) = rank(m), h # m PROVE FALSE
    OBVIOUS
  <2>1. h < m \/ m < h
    BY <1>2
  <2> QED
    BY <1>2, <2>1, RanksDiffer
<1>6. (CHOOSE h \in firsts : rank(h) = rank(m)) = m
  BY <1>2, <1>5
<1> HIDE DEF rank
<1>7. rank(m) \in DOMAIN Supported(list) /\ Supported(list)[rank(m)] = list[m]
  BY <1>3, <1>4, <1>6
<1> QED
  BY <1>2, <1>7

\* The normalised list is indexed from one.
LEMMA SupportedIsList ==
    ASSUME NEW n \in Nat, NEW list, DOMAIN list = 1 .. n
    PROVE  \E m \in Nat : DOMAIN Supported(list) = 1 .. m
<1> DEFINE firsts == {h \in DOMAIN list :
                        list[h] \in Operators /\ \A j \in 1 .. h - 1 : list[j] # list[h]}
           rank(h) == Cardinality({j \in firsts : j <= h})
<1>1. CASE firsts = {}
  <2>1. DOMAIN Supported(list) = 1 .. 5
    BY <1>1 DEF Supported, AnySimple
  <2> QED
    BY <2>1
<1>2. CASE firsts # {}
  <2>1. firsts \in SUBSET (1 .. n)
    OBVIOUS
  <2>2. Supported(list) = [k \in 1 .. Cardinality(firsts) |-> list[CHOOSE h \in firsts : rank(h) = k]]
    BY <1>2 DEF Supported
  <2> HIDE DEF firsts, rank
  <2>3. Cardinality(firsts) \in Nat
    BY <2>1, FiniteIndices, FS_CardinalityType
  <2> QED
    BY <2>2, <2>3
<1> QED
  BY <1>1, <1>2

\* Normalising a normalised list keeps the operators a policy may have.
LEMMA SupportedAgain ==
    ASSUME NEW list \in Seq(STRING), NEW o \in Operators, o \in ToSet(Supported(list))
    PROVE  o \in ToSet(Supported(Supported(list)))
<1>1. Len(list) \in Nat /\ DOMAIN list = 1 .. Len(list)
  OBVIOUS
<1>2. PICK m \in Nat : DOMAIN Supported(list) = 1 .. m
  BY <1>1, SupportedIsList
<1>3. PICK i \in 1 .. m : Supported(list)[i] = o
  BY <1>2 DEF ToSet
<1>4. \E k \in DOMAIN Supported(Supported(list)) : Supported(Supported(list))[k] = o
  BY <1>2, <1>3, SupportedKeeps
<1> QED
  BY <1>4 DEF ToSet

-----------------------------------------------------------------------------
(* Accepted policies                                                       *)

\* The stored policy is one that was accepted, with its list normalised.
StoredAccepted ==
    stored = <<>> \/ \E p \in PolicyInputs :
        Accepts(p) /\ stored = <<[p EXCEPT !.supported = Supported(p.supported)]>>

\* A valid condition is met by some reading and not by every one.
LEMMA ConditionDecides ==
    ASSUME NEW c \in Conditions, ValidCondition(c)
    PROVE  {Matches(c, v) : v \in Readings} = BOOLEAN
<1>1. \A v \in Readings : Matches(c, v) \in BOOLEAN
  BY DEF Matches
<1>2. /\ c.threshold \in Thresholds \cup {NoNumber}
      /\ c.min \in Thresholds \cup {NoNumber} /\ c.max \in Thresholds \cup {NoNumber}
  BY DEF Conditions, Numbers
<1>3. (\E v \in Readings : Matches(c, v)) /\ (\E v \in Readings : ~Matches(c, v))
  <2>1. CASE c.operator \in Simple
    <3>1. /\ c.threshold \in Thresholds /\ c.min = NoNumber
      BY <1>2, <2>1 DEF ValidCondition, Simple, RangeOps
    <3>2. PICK t \in Thresholds : t = c.threshold
      BY <3>1
    <3>3. t \in Int /\ t - 1 \in Readings /\ t \in Readings /\ t + 1 \in Readings /\ t # NoNumber
      BY <3>2
    <3>4. \A v \in Int : Matches(c, v) <=>
            \/ c.operator = ">" /\ v > t
            \/ c.operator = "<" /\ v < t
            \/ c.operator = ">=" /\ v >= t
            \/ c.operator = "<=" /\ v <= t
            \/ c.operator = "=" /\ v = t
      BY <3>1, <3>2, <3>3 DEF Matches
    <3> QED
      BY <2>1, <3>3, <3>4 DEF Simple
  <2>2. CASE c.operator \in RangeOps
    <3>1. /\ c.threshold = NoNumber /\ c.min \in Thresholds /\ c.max \in Thresholds /\ c.min < c.max
      BY <1>2, <2>2 DEF ValidCondition, Simple, RangeOps
    <3>2. PICK t \in Thresholds, u \in Thresholds : t = c.min /\ u = c.max
      BY <3>1
    <3>3. t \in Int /\ u \in Int /\ t < u /\ t - 1 \in Readings /\ t \in Readings
      BY <3>1, <3>2
    <3>4. \A v \in Int : Matches(c, v) <=>
            \/ c.operator = "between" /\ v >= t /\ v <= u
            \/ c.operator = "outside" /\ (v < t \/ v > u)
      BY <3>1, <3>2, <3>3 DEF Matches
    <3> QED
      BY <2>2, <3>3, <3>4 DEF RangeOps
  <2> QED
    BY <2>1, <2>2 DEF ValidCondition
<1> QED
  BY <1>1, <1>3

\* An accepted policy keeps its condition through storing and normalising again.
LEMMA AcceptedDefaults ==
    ASSUME NEW p \in PolicyInputs, Accepts(p),
           NEW s, s = [p EXCEPT !.supported = Supported(p.supported)]
    PROVE  /\ Defaults(s) = [operator |-> s.operator, threshold |-> s.threshold, min |-> s.min,
                             max |-> s.max]
           /\ ValidDefaults(s) /\ ValidCondition(Defaults(s)) /\ Defaults(s) \in Conditions
<1>1. /\ s.operator = p.operator /\ s.threshold = p.threshold /\ s.min = p.min /\ s.max = p.max
      /\ s.supported = Supported(p.supported) /\ p.supported \in Seq(STRING)
      /\ p.threshold \in Numbers /\ p.min \in Numbers /\ p.max \in Numbers
  BY DEF PolicyInputs
<1> DEFINE c == [operator |-> p.operator, threshold |-> p.threshold, min |-> p.min, max |-> p.max]
<1>2. ValidCondition(c) /\ p.operator \in ToSet(Supported(p.supported))
  BY DEF Accepts
<1>3. /\ p.operator \in Operators
      /\ p.operator \in RangeOps => p.threshold = NoNumber
      /\ p.operator \notin RangeOps => p.min = NoNumber /\ p.max = NoNumber
  BY <1>2 DEF ValidCondition, Operators, Simple, RangeOps
<1>4. s.operator \in ToSet(Supported(s.supported))
  BY <1>1, <1>2, <1>3, SupportedAgain
<1>5. Defaults(s) = c
  BY <1>1, <1>3, <1>4 DEF Defaults
<1>6. c \in Conditions
  BY <1>1, <1>3 DEF Conditions
<1>7. ValidDefaults(s)
  BY <1>2, <1>5 DEF ValidDefaults, ValidCondition
<1> QED
  BY <1>1, <1>2, <1>5, <1>6, <1>7

\* Whatever list of operators and numbers an administrator sends: a policy that was accepted
\* gives the rules made from it the condition that was checked, valid and met by some
\* readings and not by others.
THEOREM AcceptedPoliciesMakeRules == ConditionSpec => []AcceptedPolicyMakesRule
<1>1. ConditionInit => StoredAccepted
  BY DEF ConditionInit, StoredAccepted
<1>2. StoredAccepted /\ [ConditionNext]_stored => StoredAccepted'
  BY DEF ConditionNext, UpsertPolicy, StoredAccepted
<1>3. StoredAccepted => AcceptedPolicyMakesRule
  <2> SUFFICES ASSUME StoredAccepted, stored # <<>>
               PROVE  LET p == stored[1]  c == Defaults(p) IN
                      /\ ValidDefaults(p) /\ ValidCondition(c)
                      /\ c = [operator |-> p.operator, threshold |-> p.threshold, min |-> p.min,
                              max |-> p.max]
                      /\ {Matches(c, v) : v \in Readings} = BOOLEAN
    BY DEF AcceptedPolicyMakesRule
  <2>1. PICK p \in PolicyInputs :
          Accepts(p) /\ stored = <<[p EXCEPT !.supported = Supported(p.supported)]>>
    BY DEF StoredAccepted
  <2>2. PICK s : s = [p EXCEPT !.supported = Supported(p.supported)]
    OBVIOUS
  <2>3. stored[1] = s
    BY <2>1, <2>2
  <2> QED
    BY <2>1, <2>2, <2>3, AcceptedDefaults, ConditionDecides
<1> QED
  BY <1>1, <1>2, <1>3, PTL DEF ConditionSpec

HIDE ConditionAssumption

-----------------------------------------------------------------------------
(* Registrations of tokens and the pushes beside them                      *)

USE TargetsAssumption

\* A request that looks for or writes a token has the user, the phone and the token.
Registering(q) ==
    q.user \in Users /\ q.phone \in Phones /\ q.fcm \in Tokens

Requests ==
    [at : {"idle", "find", "write"}, user : Users \cup {"none"},
     phone : Phones \cup {"none"}, fcm : Tokens \cup {NoToken}, seen : Docs,
     alone : BOOLEAN]

TargetsOK ==
    /\ token \in [Users \X Phones -> Docs]
    /\ treq \in [TargetRequests -> Requests]
    /\ \A r \in TargetRequests : treq[r].at \in {"find", "write"} => Registering(treq[r])

\* A registration that is alone has no other request and no push beside it, has taken its
\* token from every other phone, and writes upon the document it read.
AloneOK ==
    \A r \in TargetRequests : treq[r].alone /\ treq[r].at \in {"find", "write"} =>
        /\ \A p \in TargetRequests \ {r} : treq[p].at = "idle"
        /\ push = NoPush
        /\ \A up \in Users \X Phones :
             up # <<treq[r].user, treq[r].phone>> => token[up].fcm # treq[r].fcm
        /\ treq[r].at = "write" => treq[r].seen = token[<<treq[r].user, treq[r].phone>>]

TargetsInv == TargetsOK /\ AloneOK

LEMMA DocShapes ==
    /\ NoDoc \in Docs /\ NoDoc.fcm = NoToken /\ NoDoc.active = FALSE
    /\ \A d \in Docs : d.fcm \in Tokens \cup {NoToken} /\ d.active \in BOOLEAN
<1>1. NoDoc \in Docs /\ NoDoc.fcm = NoToken /\ NoDoc.active = FALSE
  BY DEF NoDoc, Docs
<1>2. ASSUME NEW d \in Docs PROVE d.fcm \in Tokens \cup {NoToken} /\ d.active \in BOOLEAN
  BY <1>1 DEF Docs
<1> QED
  BY <1>1, <1>2

LEMMA NewDocs ==
    ASSUME NEW t \in Tokens, NEW a \in BOOLEAN
    PROVE  /\ [fcm |-> t, active |-> a] \in Docs
           /\ [fcm |-> t, active |-> a].fcm = t /\ [fcm |-> t, active |-> a].active = a
BY Zenon DEF Docs

LEMMA WaitingIs == Waiting \in Requests /\ Waiting.at = "idle"
<1> DEFINE yes == TRUE
<1>1. yes \in BOOLEAN
  OBVIOUS
<1> HIDE DEF yes
<1>2. [at |-> "idle", user |-> "none", phone |-> "none", fcm |-> NoToken, seen |-> NoDoc,
       alone |-> yes] \in Requests
  BY <1>1, DocShapes DEF Requests
<1> QED
  BY <1>2 DEF Waiting, yes

LEMMA AloneSet ==
    ASSUME NEW q \in Requests, NEW a \in BOOLEAN
    PROVE  /\ [q EXCEPT !.alone = a] \in Requests /\ [q EXCEPT !.alone = a].alone = a
           /\ [q EXCEPT !.alone = a].at = q.at /\ [q EXCEPT !.alone = a].user = q.user
           /\ [q EXCEPT !.alone = a].phone = q.phone /\ [q EXCEPT !.alone = a].fcm = q.fcm
           /\ [q EXCEPT !.alone = a].seen = q.seen
BY Zenon DEF Requests

\* A request and what a step that only touches `alone` leaves of it.
Same(q, p) ==
    q.at = p.at /\ q.user = p.user /\ q.phone = p.phone /\ q.fcm = p.fcm /\ q.seen = p.seen

\* A request begins: it is alone if nothing is under way, and nothing else is from now on.
LEMMA Beginning ==
    ASSUME TargetsOK, NEW r \in TargetRequests, NEW q \in Requests, q.at # "idle", Begin(r, q)
    PROVE  /\ treq' \in [TargetRequests -> Requests]
           /\ Same(treq'[r], q)
           /\ treq'[r].alone => push = NoPush /\ \A p \in TargetRequests \ {r} : treq[p].at = "idle"
           /\ \A p \in TargetRequests \ {r} :
                Same(treq'[p], treq[p]) /\ (treq[p].at # "idle" => ~treq'[p].alone)
<1> DEFINE others == {p \in TargetRequests \ {r} : treq[p].at # "idle"}
           a == others = {} /\ push = NoPush
           no == FALSE
<1>1. treq' = [p \in TargetRequests |->
                 IF p = r THEN [q EXCEPT !.alone = a]
                 ELSE IF p \in others THEN [treq[p] EXCEPT !.alone = no] ELSE treq[p]]
  BY DEF Begin
<1>2. a \in BOOLEAN /\ no \in BOOLEAN
  OBVIOUS
<1>3. /\ a => push = NoPush /\ \A p \in TargetRequests \ {r} : treq[p].at = "idle"
      /\ \A p \in TargetRequests \ {r} : treq[p].at # "idle" <=> p \in others
      /\ ~no
  OBVIOUS
<1>4. \A p \in TargetRequests : treq[p] \in Requests
  BY DEF TargetsOK
<1> HIDE DEF others, a, no
<1>5. treq'[r] = [q EXCEPT !.alone = a]
  BY <1>1
<1>6. treq'[r] \in Requests /\ Same(treq'[r], q) /\ treq'[r].alone = a
  BY <1>2, <1>5, AloneSet DEF Same
<1>7. ASSUME NEW p \in TargetRequests \ {r}
      PROVE  treq'[p] \in Requests /\ Same(treq'[p], treq[p]) /\ (treq[p].at # "idle" => ~treq'[p].alone)
  <2>1. CASE p \in others
    <3>1. treq'[p] = [treq[p] EXCEPT !.alone = no] /\ treq[p] \in Requests
      BY <1>1, <1>4, <2>1
    <3>2. treq'[p] \in Requests /\ Same(treq'[p], treq[p]) /\ treq'[p].alone = no
      BY <1>2, <3>1, AloneSet DEF Same
    <3> QED
      BY <1>3, <3>2
  <2>2. CASE p \notin others
    <3>1. treq'[p] = treq[p] /\ treq[p] \in Requests /\ treq[p].at = "idle"
      BY <1>1, <1>3, <1>4, <2>2
    <3> QED
      BY <3>1 DEF Same
  <2> QED
    BY <2>1, <2>2
<1>8. treq' \in [TargetRequests -> Requests]
  BY <1>1, <1>6, <1>7
<1> QED
  BY <1>3, <1>6, <1>7, <1>8

\* Nothing under way is alone any more.
LEMMA Interrupted ==
    ASSUME TargetsOK, treq' = [r \in TargetRequests |-> [treq[r] EXCEPT !.alone = treq[r].at = "idle"]]
    PROVE  /\ treq' \in [TargetRequests -> Requests]
           /\ \A r \in TargetRequests :
                Same(treq'[r], treq[r]) /\ (treq[r].at # "idle" => ~treq'[r].alone)
<1>1. ASSUME NEW r \in TargetRequests
      PROVE  /\ treq'[r] \in Requests
             /\ Same(treq'[r], treq[r]) /\ (treq[r].at # "idle" => ~treq'[r].alone)
  <2> DEFINE a == treq[r].at = "idle"
  <2>1. treq'[r] = [treq[r] EXCEPT !.alone = a] /\ treq[r] \in Requests
    BY DEF TargetsOK
  <2>2. a \in BOOLEAN /\ (treq[r].at # "idle" => ~a)
    OBVIOUS
  <2> HIDE DEF a
  <2>3. PICK q \in Requests : q = treq[r]
    BY <2>1
  <2>4. PICK p : p = [q EXCEPT !.alone = a]
    OBVIOUS
  <2>5. p \in Requests /\ p.alone = a /\ Same(p, q)
    BY <2>2, <2>4, AloneSet DEF Same
  <2> QED
    BY <2>1, <2>2, <2>3, <2>4, <2>5, Zenon
<1> QED
  BY <1>1

\* A request ends.
LEMMA Ending ==
    ASSUME TargetsOK, NEW r \in TargetRequests, Done(r)
    PROVE  /\ treq' \in [TargetRequests -> Requests] /\ treq'[r].at = "idle"
           /\ \A p \in TargetRequests \ {r} : treq'[p] = treq[p]
BY WaitingIs DEF Done, TargetsOK

\* A step after which nothing that is registering is alone keeps the invariant.
LEMMA NobodyAlone ==
    ASSUME \A r \in TargetRequests : treq'[r].at \in {"find", "write"} => ~treq'[r].alone
    PROVE  AloneOK'
BY DEF AloneOK

-----------------------------------------------------------------------------
(* Steps                                                                   *)

LEMMA RegisterKeeps ==
    ASSUME TargetsInv, NEW r \in TargetRequests, NEW u \in Users, NEW p \in Phones, NEW t \in Tokens,
           RegisterToken(r, u, p, t)
    PROVE  TargetsInv'
<1> DEFINE q == [Waiting EXCEPT !.at = "find", !.user = u, !.phone = p, !.fcm = t]
<1>1. /\ q \in Requests /\ q.at = "find" /\ q.user = u /\ q.phone = p /\ q.fcm = t
      /\ Begin(r, q) /\ UNCHANGED push /\ TargetsOK
  BY WaitingIs DEF Requests, RegisterToken, TargetsInv
<1> HIDE DEF q
<1>2. /\ treq' \in [TargetRequests -> Requests] /\ Same(treq'[r], q)
      /\ treq'[r].alone => push = NoPush /\ \A o \in TargetRequests \ {r} : treq[o].at = "idle"
      /\ \A o \in TargetRequests \ {r} :
            Same(treq'[o], treq[o]) /\ (treq[o].at # "idle" => ~treq'[o].alone)
  BY <1>1, Beginning
<1>3. token' = [up \in Users \X Phones |->
                  IF up # <<u, p>> /\ token[up].fcm = t THEN NoDoc ELSE token[up]]
  BY DEF RegisterToken
<1>4. /\ token' \in [Users \X Phones -> Docs]
      /\ \A up \in Users \X Phones : up # <<u, p>> => token'[up].fcm # t
  BY <1>1, <1>3, DocShapes DEF TargetsOK
<1>5. TargetsOK'
  BY <1>1, <1>2, <1>4 DEF TargetsOK, Registering, Same
<1>6. ASSUME NEW o \in TargetRequests, treq'[o].alone, treq'[o].at \in {"find", "write"}
      PROVE  /\ \A x \in TargetRequests \ {o} : treq'[x].at = "idle"
             /\ push' = NoPush
             /\ \A up \in Users \X Phones :
                  up # <<treq'[o].user, treq'[o].phone>> => token'[up].fcm # treq'[o].fcm
             /\ treq'[o].at = "write" => treq'[o].seen = token'[<<treq'[o].user, treq'[o].phone>>]
  <2>1. o = r
    BY <1>2, <1>6 DEF Same
  <2> QED
    BY <1>1, <1>2, <1>4, <1>6, <2>1 DEF Same
<1>7. AloneOK'
  BY <1>6 DEF AloneOK
<1> QED
  BY <1>5, <1>7 DEF TargetsInv

LEMMA FindKeeps ==
    ASSUME TargetsInv, NEW r \in TargetRequests, FindToken(r)
    PROVE  TargetsInv'
<1>1. TargetsOK /\ AloneOK /\ treq[r].at = "find" /\ Registering(treq[r]) /\ treq[r] \in Requests
  BY DEF TargetsInv, TargetsOK, FindToken
<1>2. PICK s : s = token[<<treq[r].user, treq[r].phone>>]
  OBVIOUS
<1>3. s \in Docs
  BY <1>1, <1>2 DEF TargetsOK, Registering
<1> DEFINE q == [treq[r] EXCEPT !.at = "write", !.seen = s]
<1>4. /\ q \in Requests /\ q.at = "write" /\ q.seen = s /\ q.user = treq[r].user
      /\ q.phone = treq[r].phone /\ q.fcm = treq[r].fcm /\ q.alone = treq[r].alone
  BY <1>1, <1>3, Zenon DEF Requests
<1>5. treq' = [treq EXCEPT ![r] = q] /\ UNCHANGED <<token, push>>
  BY <1>1, <1>2 DEF FindToken, TargetsOK
<1> HIDE DEF q
<1>6. treq' \in [TargetRequests -> Requests] /\ treq'[r] = q
      /\ \A p \in TargetRequests \ {r} : treq'[p] = treq[p]
  BY <1>1, <1>4, <1>5 DEF TargetsOK
<1>7. TargetsOK'
  BY <1>1, <1>4, <1>5, <1>6 DEF TargetsOK, Registering
<1>8. ASSUME NEW o \in TargetRequests, treq'[o].alone, treq'[o].at \in {"find", "write"}
      PROVE  /\ \A x \in TargetRequests \ {o} : treq'[x].at = "idle"
             /\ push' = NoPush
             /\ \A up \in Users \X Phones :
                  up # <<treq'[o].user, treq'[o].phone>> => token'[up].fcm # treq'[o].fcm
             /\ treq'[o].at = "write" => treq'[o].seen = token'[<<treq'[o].user, treq'[o].phone>>]
  <2>1. o = r
    BY <1>1, <1>6, <1>8 DEF AloneOK
  <2> QED
    BY <1>1, <1>2, <1>4, <1>5, <1>6, <1>8, <2>1 DEF AloneOK
<1>9. AloneOK'
  BY <1>8 DEF AloneOK
<1> QED
  BY <1>7, <1>9 DEF TargetsInv

\* Writing a token ends the request; alone, it leaves the token to its phone.
LEMMA WriteKeeps ==
    ASSUME TargetsInv, NEW r \in TargetRequests, WriteToken(r)
    PROVE  /\ TargetsInv'
           /\ treq[r].alone =>
                \A up \in Users \X Phones :
                  IF up = <<treq[r].user, treq[r].phone>>
                  THEN token'[up] = [fcm |-> treq[r].fcm, active |-> TRUE]
                  ELSE token'[up].fcm # treq[r].fcm
<1> DEFINE q == treq[r]
           at == <<q.user, q.phone>>
           fcm == IF q.seen.fcm # q.fcm THEN q.fcm ELSE token[at].fcm
           active == IF q.seen.active THEN token[at].active ELSE TRUE
           new == [fcm |-> fcm, active |-> active]
           taken == \E other \in (Users \X Phones) \ {at} : token[other].fcm = new.fcm
<1>1. TargetsOK /\ AloneOK /\ q.at = "write" /\ Registering(q) /\ q \in Requests
  BY DEF TargetsInv, TargetsOK, WriteToken
<1>2. /\ at \in Users \X Phones /\ token[at] \in Docs /\ q.seen \in Docs
      /\ token[at].fcm \in Tokens \cup {NoToken} /\ token[at].active \in BOOLEAN
      /\ q.seen.fcm \in Tokens \cup {NoToken} /\ q.seen.active \in BOOLEAN
  BY <1>1, DocShapes DEF TargetsOK, Registering, Requests
<1>3. /\ token' = IF taken \/ (token[at] = NoDoc) # (q.seen = NoDoc) THEN token
                  ELSE [token EXCEPT ![at] = new]
      /\ Done(r) /\ UNCHANGED push
  BY DEF WriteToken
<1>4. token' \in [Users \X Phones -> Docs]
  <2>1. CASE taken \/ (token[at] = NoDoc) # (q.seen = NoDoc)
    BY <1>1, <1>3, <2>1 DEF TargetsOK
  <2>2. CASE ~(taken \/ (token[at] = NoDoc) # (q.seen = NoDoc))
    <3>1. new \in Docs
      <4>1. CASE token[at] = NoDoc
        <5>1. q.seen = NoDoc
          BY <2>2, <4>1
        <5>2. fcm = q.fcm /\ active = TRUE
          BY <1>1, <5>1, DocShapes DEF Registering
        <5> QED
          BY <1>1, <5>2, NewDocs DEF Registering
      <4>2. CASE token[at] # NoDoc
        <5>1. token[at].fcm \in Tokens
          BY <1>2, <4>2 DEF Docs
        <5>2. fcm \in Tokens /\ active \in BOOLEAN
          BY <1>1, <1>2, <5>1 DEF Registering
        <5> HIDE DEF fcm, active
        <5> QED
          BY <5>2, NewDocs
      <4> QED
        BY <4>1, <4>2
    <3>2. token' = [token EXCEPT ![at] = new]
      BY <1>3, <2>2
    <3> HIDE DEF new
    <3> QED
      BY <1>1, <1>2, <3>1, <3>2 DEF TargetsOK
  <2> QED
    BY <2>1, <2>2
<1>5. /\ treq' \in [TargetRequests -> Requests] /\ treq'[r].at = "idle"
      /\ \A p \in TargetRequests \ {r} : treq'[p] = treq[p]
  BY <1>1, <1>3, Ending
<1>6. TargetsOK'
  BY <1>1, <1>3, <1>4, <1>5 DEF TargetsOK, Registering
<1>7. AloneOK'
  BY <1>1, <1>5, NobodyAlone DEF AloneOK
<1>8. ASSUME q.alone, NEW up \in Users \X Phones
      PROVE  IF up = at THEN token'[up] = [fcm |-> q.fcm, active |-> TRUE]
             ELSE token'[up].fcm # q.fcm
  <2>1. /\ \A other \in (Users \X Phones) \ {at} : token[other].fcm # q.fcm
        /\ q.seen = token[at]
    BY <1>1, <1>8 DEF AloneOK
  <2>2. fcm = q.fcm /\ active = TRUE
    BY <1>2, <2>1
  <2>3. new = [fcm |-> q.fcm, active |-> TRUE]
    BY <2>2
  <2>4. ~taken
    BY <2>1, <2>2
  <2>5. token' = [token EXCEPT ![at] = new]
    BY <1>3, <2>1, <2>4
  <2> HIDE DEF new, taken, fcm, active
  <2>6. CASE up = at
    BY <1>1, <1>2, <2>3, <2>5, <2>6 DEF TargetsOK
  <2>7. CASE up # at
    BY <1>1, <1>2, <2>1, <2>5, <2>7 DEF TargetsOK
  <2> QED
    BY <2>6, <2>7
<1> QED
  BY <1>6, <1>7, <1>8 DEF TargetsInv

\* A token is removed, or a push begins: nothing under way is alone any more.
LEMMA InterruptKeeps ==
    ASSUME TargetsInv, NEW u \in Users, SendPush(u) \/ \E p \in Phones : UnregisterToken(u, p)
    PROVE  TargetsInv'
<1>1. /\ treq' = [r \in TargetRequests |-> [treq[r] EXCEPT !.alone = treq[r].at = "idle"]]
      /\ TargetsOK
  BY DEF SendPush, UnregisterToken, TargetsInv
<1>2. /\ treq' \in [TargetRequests -> Requests]
      /\ \A r \in TargetRequests : Same(treq'[r], treq[r]) /\ (treq[r].at # "idle" => ~treq'[r].alone)
  BY <1>1, Interrupted
<1>3. token' \in [Users \X Phones -> Docs]
  BY <1>1, DocShapes DEF SendPush, UnregisterToken, TargetsOK
<1>4. TargetsOK'
  BY <1>1, <1>2, <1>3 DEF TargetsOK, Registering, Same
<1>5. AloneOK'
  BY <1>2, NobodyAlone DEF Same
<1> QED
  BY <1>4, <1>5 DEF TargetsInv

\* A push that ends marks dead tokens; none was registering alone while it was under way.
LEMMA InvalidateKeeps ==
    ASSUME TargetsInv, NEW dead \in SUBSET Tokens, InvalidateTokens(dead)
    PROVE  TargetsInv'
<1>1. TargetsOK /\ AloneOK /\ UNCHANGED treq /\ push # NoPush
  BY DEF InvalidateTokens, TargetsInv
<1>2. token' \in [Users \X Phones -> Docs]
  <2>1. token' = [up \in Users \X Phones |->
                    IF token[up].fcm \in dead THEN [token[up] EXCEPT !.active = FALSE] ELSE token[up]]
    BY DEF InvalidateTokens
  <2>2. ASSUME NEW up \in Users \X Phones, token[up].fcm \in dead
        PROVE  [token[up] EXCEPT !.active = FALSE] \in Docs
    <3> DEFINE no == FALSE
    <3>1. no \in BOOLEAN /\ token[up] \in Docs /\ token[up] # NoDoc
      BY <1>1, <2>2, DocShapes DEF TargetsOK
    <3> HIDE DEF no
    <3>2. token[up] \in [fcm : Tokens, active : BOOLEAN]
      BY <3>1 DEF Docs
    <3>3. [token[up] EXCEPT !.active = no] \in Docs
      BY <3>1, <3>2, Zenon DEF Docs
    <3> QED
      BY <3>3 DEF no
  <2> QED
    BY <1>1, <2>1, <2>2 DEF TargetsOK
<1>3. TargetsOK'
  BY <1>1, <1>2 DEF TargetsOK, Registering
<1>4. AloneOK'
  BY <1>1 DEF AloneOK
<1> QED
  BY <1>3, <1>4 DEF TargetsInv

LEMMA TargetsStart == TargetInit => TargetsInv
<1> SUFFICES ASSUME TargetInit PROVE TargetsInv
  OBVIOUS
<1> QED
  BY WaitingIs, DocShapes DEF TargetInit, TargetsInv, TargetsOK, AloneOK

LEMMA TargetsStep == TargetsInv /\ [TargetNext]_targetVars => TargetsInv'
<1> SUFFICES ASSUME TargetsInv, [TargetNext]_targetVars PROVE TargetsInv'
  OBVIOUS
<1>1. CASE UNCHANGED targetVars
  BY <1>1 DEF targetVars, TargetsInv, TargetsOK, AloneOK, Registering
<1> QED
  BY <1>1, RegisterKeeps, FindKeeps, WriteKeeps, InterruptKeeps, InvalidateKeeps DEF TargetNext

\* However registrations, logouts and pushes interleave: a registration with nothing beside it
\* gives the token to its phone, active, and leaves it to no other.
THEOREM AloneRegistrationsTake == TargetSpec => AloneRegistrationTakes
<1> DEFINE Takes ==
      \A r \in TargetRequests :
        treq[r].at = "write" /\ treq[r].alone /\ treq'[r].at = "idle" =>
          \A up \in Users \X Phones :
            IF up = <<treq[r].user, treq[r].phone>>
            THEN token'[up] = [fcm |-> treq[r].fcm, active |-> TRUE]
            ELSE token'[up].fcm # treq[r].fcm
<1>1. TargetsInv /\ [TargetNext]_targetVars => [Takes]_targetVars
  <2> SUFFICES ASSUME TargetsInv, TargetNext, NEW r \in TargetRequests,
                      treq[r].at = "write", treq[r].alone, treq'[r].at = "idle"
               PROVE  \A up \in Users \X Phones :
                        IF up = <<treq[r].user, treq[r].phone>>
                        THEN token'[up] = [fcm |-> treq[r].fcm, active |-> TRUE]
                        ELSE token'[up].fcm # treq[r].fcm
    OBVIOUS
  <2>1. WriteToken(r)
    <3>1. TargetsOK
      BY DEF TargetsInv
    <3>2. ASSUME NEW p \in TargetRequests, NEW q \in Requests, q.at # "idle", Begin(p, q) PROVE FALSE
      <4>1. Same(treq'[p], q) /\ treq[p].at = "idle" /\ (p # r => Same(treq'[r], treq[r]))
        BY <3>1, <3>2, Beginning DEF Begin
      <4> QED
        BY <3>2, <4>1 DEF Same
    <3>3. \A p \in TargetRequests, u \in Users, o \in Phones, t \in Tokens :
            ~RegisterToken(p, u, o, t)
      BY <3>2, WaitingIs DEF RegisterToken, Requests
    <3>4. \A u \in Users : ~SendPush(u) /\ \A p \in Phones : ~UnregisterToken(u, p)
      BY <3>1, Interrupted DEF SendPush, UnregisterToken, Same
    <3>5. \A p \in TargetRequests : ~FindToken(p) /\ (WriteToken(p) => p = r)
      BY <3>1, Ending DEF FindToken, WriteToken, TargetsOK
    <3> QED
      BY <3>3, <3>4, <3>5 DEF TargetNext, InvalidateTokens
  <2> QED
    BY <2>1, WriteKeeps
<1> QED
  BY <1>1, TargetsStart, TargetsStep, PTL DEF TargetSpec, AloneRegistrationTakes

HIDE TargetsAssumption

-----------------------------------------------------------------------------
(* The owner's preference                                                  *)

PrefTypeOK ==
    /\ flowState \in {"kept", "deleted", "clean"}
    /\ preference \in {"none", "on", "off"}
    /\ prequest \in [PrefRequests -> PrefRequest]
    /\ sensed \in [PrefReadings -> PrefReading]
    /\ optedOut \in BOOLEAN

\* While the opt-out holds no request enables, and the document says off unless the flow goes.
OptOutStored ==
    optedOut =>
        /\ \A r \in PrefRequests : ~Enabling(r)
        /\ preference = "off" \/ flowState # "kept"

\* A request to disable that is alone runs beside no request to enable; if it read off, it
\* need not write.
AloneOffOK ==
    \A r \in PrefRequests : prequest[r].alone /\ prequest[r].at # "idle" =>
        /\ prequest[r].value = "off"
        /\ \A p \in PrefRequests : ~Enabling(p)
        /\ prequest[r].at = "save" /\ prequest[r].seen = "off" =>
             preference = "off" \/ flowState # "kept"

\* A reading that began under an opt-out passes the preference only once the flow is deleted.
LateOK ==
    \A m \in PrefReadings : sensed[m].late =>
        /\ optedOut
        /\ sensed[m].at \in {"rules", "match"} => flowState # "kept"
        /\ sensed[m].at # "fired"

PrefInv == PrefTypeOK /\ OptOutStored /\ AloneOffOK /\ LateOK

LEMMA AtRest ==
    /\ NoRequest \in PrefRequest /\ NoRequest.at = "idle"
    /\ NoReading \in PrefReading /\ NoReading.at = "idle" /\ ~NoReading.late
BY DEF PrefRequest, PrefReading, NoRequest, NoReading

LEMMA PrefStarts == PrefInit => PrefInv
<1> SUFFICES ASSUME PrefInit PROVE PrefInv
  OBVIOUS
<1>1. /\ PrefTypeOK /\ optedOut = FALSE
      /\ \A r \in PrefRequests : prequest[r].at = "idle"
      /\ \A m \in PrefReadings : ~sensed[m].late
  BY AtRest DEF PrefInit, PrefTypeOK
<1> QED
  BY <1>1 DEF PrefInv, OptOutStored, AloneOffOK, LateOK

\* The flow's default, its rules and its deletion.
LEMMA FlowStepKeeps ==
    ASSUME PrefInv, CreateDefaultPreference \/ ChangeRules \/ DeleteFlowDoc
    PROVE  PrefInv'
BY DEF PrefInv, PrefTypeOK, OptOutStored, AloneOffOK, LateOK, Enabling, CreateDefaultPreference,
       ChangeRules, DeleteFlowDoc

LEMMA CleanUpKeeps == ASSUME PrefInv, CleanUpPreference PROVE PrefInv'
<1>1. /\ PrefTypeOK /\ OptOutStored /\ AloneOffOK /\ LateOK
      /\ flowState' = "clean" /\ preference' = "none" /\ UNCHANGED <<sensed, optedOut>>
  BY DEF PrefInv, CleanUpPreference
<1>2. ASSUME NEW r \in PrefRequests
      PROVE  /\ prequest'[r] \in PrefRequest /\ prequest'[r].at = prequest[r].at
             /\ prequest'[r].value = prequest[r].value /\ prequest'[r].alone = prequest[r].alone
  BY <1>1 DEF PrefTypeOK, PrefRequest, CleanUpPreference
<1>3. prequest' \in [PrefRequests -> PrefRequest]
  BY <1>2 DEF CleanUpPreference
<1> QED
  BY <1>1, <1>2, <1>3 DEF PrefInv, PrefTypeOK, OptOutStored, AloneOffOK, LateOK, Enabling

LEMMA AskOffKeeps == ASSUME PrefInv, NEW r \in PrefRequests, AskOff(r) PROVE PrefInv'
<1> DEFINE a == ~\E p \in PrefRequests : Enabling(p)
           q == [NoRequest EXCEPT !.at = "find", !.alone = a]
<1>1. /\ PrefTypeOK /\ OptOutStored /\ AloneOffOK /\ LateOK /\ prequest[r].at = "idle"
      /\ prequest' = [prequest EXCEPT ![r] = q]
      /\ UNCHANGED <<flowState, preference, sensed, optedOut>>
  BY DEF PrefInv, AskOff
<1>2. a \in BOOLEAN /\ (a => \A p \in PrefRequests : ~Enabling(p))
  OBVIOUS
<1> HIDE DEF a
<1>3. PICK n \in PrefRequest : n = NoRequest /\ n.value = "off"
  BY AtRest DEF NoRequest
<1>4. q \in PrefRequest /\ q.at = "find" /\ q.value = "off" /\ q.alone = a
  BY <1>2, <1>3, Zenon DEF PrefRequest
<1> HIDE DEF q
<1>5. /\ prequest' \in [PrefRequests -> PrefRequest] /\ prequest'[r] = q
      /\ \A p \in PrefRequests \ {r} : prequest'[p] = prequest[p]
  BY <1>1, <1>4 DEF PrefTypeOK
<1>6. \A p \in PrefRequests : Enabling(p)' => Enabling(p)
  BY <1>1, <1>4, <1>5 DEF Enabling
<1> QED
  BY <1>1, <1>2, <1>4, <1>5, <1>6 DEF PrefInv, PrefTypeOK, OptOutStored, AloneOffOK, LateOK

LEMMA AskOnKeeps == ASSUME PrefInv, NEW r \in PrefRequests, AskOn(r) PROVE PrefInv'
<1> DEFINE no == FALSE
<1>1. /\ PrefTypeOK /\ optedOut' = FALSE /\ UNCHANGED <<flowState, preference>>
      /\ prequest' = [p \in PrefRequests |->
                        IF p = r THEN [NoRequest EXCEPT !.at = "rules", !.value = "on"]
                        ELSE [prequest[p] EXCEPT !.alone = no]]
      /\ sensed' = [m \in PrefReadings |-> [sensed[m] EXCEPT !.late = no]]
  BY DEF PrefInv, AskOn
<1>2. no \in BOOLEAN /\ ~no
  OBVIOUS
<1> HIDE DEF no
<1>3. ASSUME NEW q \in PrefRequest
      PROVE  [q EXCEPT !.alone = no] \in PrefRequest /\ [q EXCEPT !.alone = no].alone = no
  BY <1>2, Zenon DEF PrefRequest
<1>4. ASSUME NEW m \in PrefReadings PROVE sensed'[m] \in PrefReading /\ ~sensed'[m].late
  <2>1. sensed[m] \in PrefReading /\ sensed'[m] = [sensed[m] EXCEPT !.late = no]
    BY <1>1 DEF PrefTypeOK
  <2>2. [sensed[m] EXCEPT !.late = no] \in PrefReading /\ [sensed[m] EXCEPT !.late = no].late = no
    BY <1>2, <2>1, Zenon DEF PrefReading
  <2> QED
    BY <1>2, <2>1, <2>2
<1>5. ASSUME NEW p \in PrefRequests PROVE prequest'[p] \in PrefRequest /\ ~prequest'[p].alone
  <2>1. CASE p = r
    BY <1>1, <2>1 DEF NoRequest, PrefRequest
  <2>2. CASE p # r
    <3>1. prequest[p] \in PrefRequest /\ prequest'[p] = [prequest[p] EXCEPT !.alone = no]
      BY <1>1, <2>2 DEF PrefTypeOK
    <3> QED
      BY <1>2, <1>3, <3>1
  <2> QED
    BY <2>1, <2>2
<1>6. prequest' \in [PrefRequests -> PrefRequest] /\ sensed' \in [PrefReadings -> PrefReading]
  BY <1>1, <1>4, <1>5
<1> QED
  BY <1>1, <1>4, <1>5, <1>6 DEF PrefInv, PrefTypeOK, OptOutStored, AloneOffOK, LateOK

\* A request that goes on keeps what it asks; one that is refused is gone.
LEMMA RequestStepKeeps ==
    ASSUME PrefInv, NEW r \in PrefRequests, CheckRules(r) \/ FindPreference(r)
    PROVE  PrefInv'
<1>1. /\ PrefTypeOK /\ OptOutStored /\ AloneOffOK /\ LateOK
      /\ UNCHANGED <<flowState, preference, sensed, optedOut>>
      /\ prequest[r] \in PrefRequest /\ prequest[r].at # "idle"
  BY DEF PrefInv, PrefTypeOK, CheckRules, FindPreference
<1>2. PICK q : q = prequest'[r]
  OBVIOUS
<1>3. /\ q \in PrefRequest
      /\ q.at # "idle" => q.value = prequest[r].value /\ q.alone = prequest[r].alone
      /\ q.at = "save" => q.seen = preference
      /\ prequest' = [prequest EXCEPT ![r] = q]
  <2>1. CASE CheckRules(r) /\ hasRules
    BY <1>1, <1>2, <2>1, Zenon DEF CheckRules, PrefTypeOK, PrefRequest
  <2>2. CASE CheckRules(r) /\ ~hasRules
    BY <1>1, <1>2, <2>2 DEF CheckRules, PrefTypeOK, PrefRequest, NoRequest
  <2>3. CASE FindPreference(r)
    BY <1>1, <1>2, <2>3 DEF FindPreference, PrefTypeOK, PrefRequest
  <2> QED
    BY <2>1, <2>2, <2>3
<1>4. /\ prequest' \in [PrefRequests -> PrefRequest] /\ prequest'[r] = q
      /\ \A p \in PrefRequests \ {r} : prequest'[p] = prequest[p]
  BY <1>1, <1>3 DEF PrefTypeOK
<1>5. \A p \in PrefRequests : Enabling(p)' => Enabling(p)
  BY <1>1, <1>3, <1>4 DEF Enabling
<1> QED
  BY <1>1, <1>3, <1>4, <1>5 DEF PrefInv, PrefTypeOK, OptOutStored, AloneOffOK, LateOK

LEMMA SavePreferenceKeeps == ASSUME PrefInv, NEW r \in PrefRequests, SavePreference(r) PROVE PrefInv'
<1> DEFINE q == prequest[r]
           fails == q.seen = "gone" \/ (q.seen = "none" /\ preference # "none")
<1>1. /\ PrefTypeOK /\ OptOutStored /\ AloneOffOK /\ LateOK /\ q.at = "save" /\ q \in PrefRequest
      /\ preference' = IF fails \/ q.seen = q.value THEN preference ELSE q.value
      /\ optedOut' = (optedOut \/ (~fails /\ q.value = "off" /\ q.alone))
      /\ prequest' = [prequest EXCEPT ![r] = NoRequest]
      /\ UNCHANGED <<flowState, sensed>>
  BY DEF PrefInv, PrefTypeOK, SavePreference
<1>2. q.value \in {"on", "off"} /\ (q.value = "on" => Enabling(r))
  BY <1>1 DEF PrefRequest, Enabling
<1> HIDE DEF fails
<1>3. /\ prequest' \in [PrefRequests -> PrefRequest] /\ prequest'[r].at = "idle"
      /\ \A p \in PrefRequests \ {r} : prequest'[p] = prequest[p]
  BY <1>1, AtRest DEF PrefTypeOK
<1>4. PrefTypeOK'
  <2>1. preference' \in {"none", "on", "off"} /\ optedOut' \in BOOLEAN
    BY <1>1, <1>2 DEF PrefTypeOK
  <2> QED
    BY <1>1, <1>3, <2>1 DEF PrefTypeOK
<1>5. \A p \in PrefRequests : Enabling(p)' => Enabling(p)
  BY <1>3 DEF Enabling
<1>6. OptOutStored'
  <2>1. CASE optedOut
    BY <1>1, <1>2, <1>5, <2>1 DEF OptOutStored
  <2>2. CASE ~fails /\ q.value = "off" /\ q.alone
    <3>1. /\ \A p \in PrefRequests : ~Enabling(p)
          /\ q.seen = "off" => preference = "off" \/ flowState # "kept"
      BY <1>1, <2>2 DEF AloneOffOK
    <3>2. preference' = "off" \/ flowState' # "kept"
      BY <1>1, <2>2, <3>1
    <3> QED
      BY <1>5, <3>1, <3>2 DEF OptOutStored
  <2> QED
    BY <1>1, <2>1, <2>2 DEF OptOutStored
<1>7. AloneOffOK'
  <2> SUFFICES ASSUME NEW p \in PrefRequests, prequest'[p].alone, prequest'[p].at # "idle"
               PROVE  /\ prequest'[p].value = "off"
                      /\ \A o \in PrefRequests : ~Enabling(o)'
                      /\ prequest'[p].at = "save" /\ prequest'[p].seen = "off" =>
                           preference' = "off" \/ flowState' # "kept"
    BY DEF AloneOffOK
  <2>1. p # r /\ prequest'[p] = prequest[p]
    BY <1>3
  <2>2. /\ prequest[p].value = "off" /\ \A o \in PrefRequests : ~Enabling(o)
        /\ prequest[p].at = "save" /\ prequest[p].seen = "off" =>
             preference = "off" \/ flowState # "kept"
    BY <1>1, <2>1 DEF AloneOffOK
  <2> QED
    BY <1>1, <1>2, <1>5, <2>1, <2>2
<1>8. LateOK'
  BY <1>1 DEF LateOK
<1> QED
  BY <1>4, <1>6, <1>7, <1>8 DEF PrefInv

\* A reading goes on: it is as late as it began.
LEMMA ReadingKeeps ==
    ASSUME PrefInv, NEW m \in PrefReadings,
           \/ ReadOwner(m) \/ ReadPreference(m) \/ ReadRules(m) \/ FireRule(m) \/ NextRule(m)
    PROVE  PrefInv'
<1>1. /\ PrefTypeOK /\ OptOutStored /\ AloneOffOK /\ LateOK
      /\ UNCHANGED <<flowState, preference, prequest, optedOut>>
      /\ sensed[m] \in PrefReading
  BY DEF PrefInv, PrefTypeOK, ReadOwner, ReadPreference, ReadRules, FireRule, NextRule
<1>2. PICK n : n = sensed'[m]
  OBVIOUS
<1>3. /\ n \in PrefReading /\ sensed' = [sensed EXCEPT ![m] = n]
      /\ n.late => /\ optedOut /\ n.at # "fired"
                   /\ n.at \in {"rules", "match"} => flowState # "kept"
  <2>1. CASE ReadOwner(m)
    <3>1. PICK late \in BOOLEAN : late = optedOut
      BY <1>1 DEF PrefTypeOK
    <3>2. [at |-> "owner", late |-> late] \in PrefReading
      BY Zenon DEF PrefReading
    <3>3. n = [at |-> "owner", late |-> late]
      BY <1>1, <1>2, <2>1, <3>1 DEF ReadOwner, PrefTypeOK
    <3>4. n \in PrefReading /\ n.at = "owner" /\ n.late = late
      BY <3>2, <3>3, Zenon
    <3>5. sensed' = [sensed EXCEPT ![m] = n]
      BY <2>1, <3>1, <3>3 DEF ReadOwner
    <3> QED
      BY <3>1, <3>4, <3>5
  <2>2. CASE ReadPreference(m)
    <3>1. CASE preference = "off"
      BY <1>1, <1>2, <2>2, <3>1 DEF ReadPreference, PrefTypeOK, PrefReading, NoReading
    <3>2. CASE preference # "off"
      BY <1>1, <1>2, <2>2, <3>2 DEF ReadPreference, PrefTypeOK, PrefReading, LateOK, OptOutStored
    <3> QED
      BY <3>1, <3>2
  <2>3. CASE ReadRules(m)
    <3>1. CASE hasRules
      BY <1>1, <1>2, <2>3, <3>1 DEF ReadRules, PrefTypeOK, PrefReading, LateOK
    <3>2. CASE ~hasRules
      BY <1>1, <1>2, <2>3, <3>2 DEF ReadRules, PrefTypeOK, PrefReading, NoReading
    <3> QED
      BY <3>1, <3>2
  <2>4. CASE FireRule(m)
    BY <1>1, <1>2, <2>4 DEF FireRule, PrefTypeOK, PrefReading, LateOK
  <2>5. CASE NextRule(m)
    <3>1. PICK s : s = sensed[m]
      OBVIOUS
    <3>2. s \in PrefReading /\ (s.late => optedOut /\ (s.at # "fired") /\ (s.at = "match" => flowState # "kept"))
      BY <1>1, <3>1 DEF LateOK
    <3>3. CASE sensed' = [sensed EXCEPT ![m].at = "match"]
      <4>1. n = [s EXCEPT !.at = "match"] /\ sensed' = [sensed EXCEPT ![m] = n]
        BY <1>1, <1>2, <3>1, <3>3 DEF PrefTypeOK
      <4>2. n \in PrefReading /\ n.at = "match" /\ n.late = s.late
        BY <3>2, <4>1, Zenon DEF PrefReading
      <4>3. s.at \in {"match", "fired"}
        BY <2>5, <3>1 DEF NextRule
      <4> QED
        BY <3>2, <4>1, <4>2, <4>3
    <3>4. CASE sensed' = [sensed EXCEPT ![m] = NoReading]
      BY <1>1, <1>2, <3>4, AtRest DEF PrefTypeOK
    <3> QED
      BY <2>5, <3>3, <3>4 DEF NextRule
  <2> QED
    BY <2>1, <2>2, <2>3, <2>4, <2>5
<1>4. /\ sensed' \in [PrefReadings -> PrefReading] /\ sensed'[m] = n
      /\ \A o \in PrefReadings \ {m} : sensed'[o] = sensed[o]
  BY <1>1, <1>3 DEF PrefTypeOK
<1> QED
  BY <1>1, <1>3, <1>4 DEF PrefInv, PrefTypeOK, OptOutStored, AloneOffOK, LateOK, Enabling

LEMMA PrefSteps == PrefInv /\ [PrefNext]_prefVars => PrefInv'
<1> SUFFICES ASSUME PrefInv, [PrefNext]_prefVars PROVE PrefInv'
  OBVIOUS
<1>1. CASE UNCHANGED prefVars
  BY <1>1 DEF prefVars, PrefInv, PrefTypeOK, OptOutStored, AloneOffOK, LateOK, Enabling
<1> QED
  BY <1>1, FlowStepKeeps, CleanUpKeeps, AskOffKeeps, AskOnKeeps, RequestStepKeeps,
     SavePreferenceKeeps, ReadingKeeps DEF PrefNext

\* However requests of the owner, the creation and the deletion of the flow and readings
\* interleave: a reading that begins after the owner was told that notifications are off, with
\* no request to enable beside or since, fires nothing.
THEOREM OptOutsSilence == PrefSpec => []OptedOutIsSilent
<1>1. PrefInv => OptedOutIsSilent
  BY DEF PrefInv, LateOK, OptedOutIsSilent
<1> QED
  BY <1>1, PrefStarts, PrefSteps, PTL DEF PrefSpec

=================================================================================
