------------------------------ MODULE RuntimeValues ------------------------------
(* The number a device's message commands an output with: the payload is      *)
(* normalised to a byte, changed on its way through functions and bridges to  *)
(* other flows, and coerced to the range of the output.                       *)
(*                                                                            *)
(* A payload is a JSON object with the fields sensors and bridges use.  Of    *)
(* the functions of a path only "return msg;" is modelled, the code of an     *)
(* empty function node; numbers are integers.                                 *)
EXTENDS Integers, Sequences, SequencesExt, FiniteSets

CONSTANTS
    SentNumbers,         \* numbers in payloads
    MaxFields        \* bound: fields of a payload

ASSUME ValuesAssumption == SentNumbers \subseteq Int /\ MaxFields \in Nat

VARIABLE payload     \* the payload a device sent

Fields == {"result", "value", "digital", "motion", "analog", "raw", "percent",
           "temperature", "humidity", "distance_cm"}

Absent == [type |-> "absent", is |-> 0]
None == [type |-> "null", is |-> 0]
Number(v) == [type |-> "number", is |-> v]
Booleans == {[type |-> "boolean", is |-> v] : v \in {0, 1}}
Values(f) == {Absent} \cup {Number(v) : v \in SentNumbers}
             \cup IF f \in {"result", "digital", "motion"} THEN Booleans ELSE {}

Least(a, b) == IF a < b THEN a ELSE b
Between(low, v, high) == Least(high, IF v < low THEN low ELSE v)

\* Math.round of a ratio: halves go up
Rounded(a, b) == (2 * a + b) \div (2 * b)

\* clampToByte, mapAnalogToByte, mapPercentToByte, byteToAnalogRaw
Clamp(v) == Between(0, v, 255)
FromAnalog(v) == Rounded(Between(0, v, 4095) * 255, 4095)
FromPercent(v) == Rounded(Between(0, v, 100) * 255, 100)
ToAnalog(v) == Rounded(Clamp(v) * 4095, 255)

\* What the conversions make of a field's value
Byte(f, x) ==
    CASE x.type = "boolean" -> x.is
      [] f \in {"raw", "analog"} -> FromAnalog(x.is)
      [] f = "percent" -> FromPercent(x.is)
      [] OTHER -> Clamp(x.is)

\* extractNumericInputValue: the first of these fields of that type.  A digital value is 0 or 1.
NormalOrder ==
    << <<"result", "number">>, <<"value", "number">>, <<"digital", "number">>,
       <<"motion", "number">>, <<"result", "boolean">>, <<"motion", "boolean">>,
       <<"digital", "boolean">>, <<"analog", "number">>, <<"raw", "number">>,
       <<"percent", "number">>, <<"temperature", "number">>, <<"humidity", "number">>,
       <<"distance_cm", "number">> >>

Normalised(p) ==
    LET found == {i \in DOMAIN NormalOrder : p[NormalOrder[i][1]].type = NormalOrder[i][2]}
        f == NormalOrder[Min(found)][1] IN
    IF found = {} THEN None
    ELSE Number(IF f \notin {"digital", "motion"} THEN Byte(f, p[f]) ELSE IF p[f].is = 0 THEN 0 ELSE 1)

\* buildFunctionInitialPayload: result and raw are filled in
FunctionPayload(p) ==
    LET n == Normalised(p) IN
    [p EXCEPT !["result"] = IF n # None /\ @.type # "number" THEN n ELSE @,
              !["raw"] = CASE @.type = "number" -> @
                           [] @.type # "number" /\ p["analog"].type = "number" -> p["analog"]
                           [] OTHER -> IF n = None THEN @ ELSE Number(ToAnalog(n.is))]

\* What the first of these fields with a value is worth
FirstOf(p, order) ==
    LET found == {i \in DOMAIN order : p[order[i]].type \in {"number", "boolean"}}
        f == order[Min(found)] IN
    IF found = {} THEN None ELSE Number(Byte(f, p[f]))

\* MUTANT: raw comes before result.
RawFirst(p) ==
    FirstOf(p, <<"value", "raw", "result", "analog", "percent", "temperature", "humidity",
                 "distance_cm">>)

\* coerceRuntimeOutputValue of an object
CoerceObject(p) ==
    FirstOf(p, <<"value", "result", "raw", "analog", "percent", "temperature", "humidity",
                 "distance_cm">>)

\* coerceRuntimeOutputValue of a number, as a path without functions has it
CoerceNumber(n) == IF n = None THEN None ELSE Number(Clamp(n.is))

\* coerceServoOutputValue: a byte without functions, an angle after them; objects have none
ServoAngle(n, functions) ==
    IF n = None THEN None
    ELSE Number(Between(0, IF functions THEN n.is ELSE Rounded(n.is * 180, 255), 180))

\* The command of an output of the same flow, directly and behind an empty function
Direct(p) == CoerceNumber(Normalised(p))
ViaFunction(p) == CoerceObject(FunctionPayload(p))

\* buildForwardPayload: a path without functions forwards what the device sent.  The other
\* flow begins with a function.
ViaBridge(p) == ViaFunction(p)
ViaFunctionAndBridge(p) == ViaFunction(FunctionPayload(p))

\* extractAlertReadings: a function of reading keys.  (0 stands for no reading.)
AlertReadings(p) ==
    LET n == Normalised(p) IN
    [f \in Fields |->
       CASE p[f].type = "number" -> <<p[f].is>>
         [] p[f].type = "boolean" -> <<p[f].is>>
         [] OTHER -> IF f \in {"value", "result"} /\ n # None THEN <<n.is>> ELSE <<>>]

-------------------------------------------------------------------------------
NoFields == [f \in Fields |-> Absent]

ValuesInit == payload = NoFields

AddField(f, x) ==
    /\ Cardinality({g \in Fields : payload[g] # Absent}) < MaxFields
    /\ payload[f] = Absent /\ x # Absent
    /\ payload' = [payload EXCEPT ![f] = x]

ValuesNext == \E f \in Fields : \E x \in Values(f) : AddField(f, x)

ValuesSpec == ValuesInit /\ [][ValuesNext]_payload

\* A value keeps its meaning on every way the runtime sends it: directly, through an empty
\* function, over a bridge, and both, an output is commanded with the same byte
\* (mqtt.handlers.ts:1354-1387, 1551-1609).  Excepted are payloads with a result and a value:
\* the conversions prefer one each (925-953, 1570).  A servo gets an angle, and the alert
\* rules judge the normalised value where the payload names none.
ValueSurvives ==
    LET p == payload
        n == Direct(p) IN
    /\ p["result"].type # "number" \/ p["value"] = Absent =>
         \A way \in {ViaFunction(p), ViaBridge(p), ViaFunctionAndBridge(p)} : way = n
    /\ n = None \/ n.is \in 0 .. 255
    /\ LET angle == ServoAngle(n, FALSE) IN n # None => angle.is \in 0 .. 180
    /\ n # None /\ p["result"] = Absent => AlertReadings(p)["result"] = <<n.is>>
==================================================================================
