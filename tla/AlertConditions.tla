---------------------------- MODULE AlertConditions ----------------------------
(* Conditions of alert rules, and the defaults of alert policies: what an     *)
(* administrator's policy is normalised to, what the service accepts, and the *)
(* condition a rule made from the stored policy gets.                         *)
EXTENDS Integers, Sequences, SequencesExt, FiniteSets

CONSTANTS
    Thresholds,         \* numbers in conditions
    Readings,           \* numbers a sensor may send
    OperatorLists,      \* supportedOperators an administrator may send
    NoNumber            \* null

ASSUME ConditionAssumption ==
    /\ Thresholds \subseteq Int /\ NoNumber \notin Int
    /\ Readings \subseteq Int /\ \A t \in Thresholds : {t - 1, t, t + 1} \subseteq Readings
    /\ OperatorLists \subseteq Seq(STRING)

VARIABLE stored         \* the policy in the database; <<>>: none yet

Simple == {">", "<", ">=", "<=", "="}
RangeOps == {"between", "outside"}
Operators == Simple \cup RangeOps
AnySimple == <<">", "<", ">=", "<=", "=">>

Numbers == Thresholds \cup {NoNumber}
Conditions == [operator : Operators \cup {"!="}, threshold : Numbers, min : Numbers, max : Numbers]

\* validateRuleCondition; numbers are finite
ValidCondition(c) ==
    \/ /\ c.operator \in Simple
       /\ c.threshold # NoNumber /\ c.min = NoNumber /\ c.max = NoNumber
    \/ /\ c.operator \in RangeOps
       /\ c.threshold = NoNumber /\ c.min # NoNumber /\ c.max # NoNumber
       /\ c.min < c.max

\* matchesOperator
Matches(c, v) ==
    \/ /\ c.threshold # NoNumber
       /\ \/ c.operator = ">" /\ v > c.threshold
          \/ c.operator = "<" /\ v < c.threshold
          \/ c.operator = ">=" /\ v >= c.threshold
          \/ c.operator = "<=" /\ v <= c.threshold
          \/ c.operator = "=" /\ v = c.threshold
    \/ /\ c.min # NoNumber /\ c.max # NoNumber
       /\ \/ c.operator = "between" /\ v >= c.min /\ v <= c.max
          \/ c.operator = "outside" /\ (v < c.min \/ v > c.max)

\* normalizeSupportedOperators: known operators, once each; none: the simple ones
Supported(list) ==
    LET firsts == {i \in DOMAIN list : list[i] \in Operators /\ \A j \in 1 .. i - 1 : list[j] # list[i]}
        rank(i) == Cardinality({j \in firsts : j <= i}) IN
    IF firsts = {} THEN AnySimple
    ELSE [k \in 1 .. Cardinality(firsts) |-> list[CHOOSE i \in firsts : rank(i) = k]]

\* pickDefaultOperator: the first simple operator, else the first
PickDefaultOperator(list) ==
    LET simple == SelectSeq(Supported(list), LAMBDA o : o \in Simple) IN
    IF simple # <<>> THEN Head(simple) ELSE Head(Supported(list))

\* MUTANT: the operator is always the list's default.
DefaultsOfList(p) ==
    LET op == PickDefaultOperator(p.supported)
        range == op \in RangeOps IN
    [operator |-> op,
     threshold |-> IF range THEN NoNumber ELSE p.threshold,
     min |-> IF range THEN p.min ELSE NoNumber,
     max |-> IF range THEN p.max ELSE NoNumber]

\* normalizeDefaultOperator and normalizeConditionByOperator
Defaults(p) ==
    LET op == IF p.operator \in ToSet(Supported(p.supported)) THEN p.operator
              ELSE PickDefaultOperator(p.supported)
        range == op \in RangeOps IN
    [operator |-> op,
     threshold |-> IF range THEN NoNumber ELSE p.threshold,
     min |-> IF range THEN p.min ELSE NoNumber,
     max |-> IF range THEN p.max ELSE NoNumber]

\* resolvePolicyDefaults: whether a rule made from the policy may be enabled
ValidDefaults(p) ==
    LET c == Defaults(p) IN
    \/ c.operator \in Simple /\ c.threshold # NoNumber
    \/ c.operator \in RangeOps /\ c.min # NoNumber /\ c.max # NoNumber /\ c.min < c.max

\* validatePolicyDefaultCondition: an operator the policy supports, a valid condition
Accepts(p) ==
    /\ p.operator \in ToSet(Supported(p.supported))
    /\ ValidCondition([operator |-> p.operator, threshold |-> p.threshold,
                       min |-> p.min, max |-> p.max])

PolicyInputs == [operator : Operators \cup {"!="}, supported : OperatorLists,
                 threshold : Numbers, min : Numbers, max : Numbers]

ConditionInit == stored = <<>>

\* upsertAlertPolicies with one policy
UpsertPolicy(p) ==
    /\ stored = <<>>
    /\ Accepts(p)
    /\ stored' = <<[p EXCEPT !.supported = Supported(p.supported)]>>

ConditionNext == \E p \in PolicyInputs : UpsertPolicy(p)

ConditionSpec == ConditionInit /\ [][ConditionNext]_stored

\* A policy the service accepted gives every rule made from it the condition that was
\* checked, so the rule is valid and may be enabled (notifications.service.ts:1402-1412
\* makes the rule without checking it again), and the condition can open an incident and
\* can fail to: some reading matches it and some reading does not.
AcceptedPolicyMakesRule ==
    stored # <<>> =>
      LET p == stored[1]
          c == Defaults(p) IN
      /\ ValidDefaults(p) /\ ValidCondition(c)
      /\ c = [operator |-> p.operator, threshold |-> p.threshold, min |-> p.min, max |-> p.max]
      /\ {Matches(c, v) : v \in Readings} = BOOLEAN

================================================================================
