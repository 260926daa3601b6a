-------------------------------- MODULE AlertGate --------------------------------
(***************************************************************************)
(* The two gates an alert passes, over unbounded time: the trigger gate of *)
(* the rule and, behind it, the cool-off window of the open incident. One  *)
(* rule, whose readings are processed one after the other (AlertPipeline   *)
(* has the interleavings). Times are ages: a trigger entry was set at time *)
(* 0 of `age`, the last notification was sent at time 0 of `since`; both   *)
(* stop growing where no condition of the code tells larger ones apart.    *)
(***************************************************************************)
EXTENDS TriggerGate

CONSTANT CoolOff   \* baseCooldown

ASSUME CoolOffAssumption == CoolOff \in Nat \ {0}

VARIABLES
    gas,       \* the rule belongs to the MQ2 gas sensor
    trigger,   \* the rule's entry in the cache
    age,       \* time since the entry was set
    open,      \* there is an open incident
    acked,     \* the user acknowledged it
    since,     \* time since its last notification
    streak,    \* time since a reading was last normal, or missing for a period
    reported   \* the sensor reported in this period

vars == <<gas, trigger, age, open, acked, since, streak, reported>>

\* The longest delay the trigger gate can ask for.
MaxDelay == IF gas /\ MaxBackoff > RuleCooldown THEN MaxBackoff ELSE RuleCooldown

\* The cool-off window of the incident.
Window == IF acked THEN 3 * CoolOff ELSE CoolOff

Horizon == 3 * CoolOff + RuleCooldown + MaxBackoff
Older(t) == Lesser(t + 1, Horizon)

Init ==
    /\ gas \in BOOLEAN
    /\ trigger = NoTrigger /\ age = 0
    /\ open = FALSE /\ acked = FALSE /\ since = 0
    /\ streak = 0 /\ reported = FALSE

-----------------------------------------------------------------------------

\* fireAlertFromRule: a new incident is announced at once, an open one after its
\* cool-off window.
FireAlertFromRule ==
    IF ~open
    THEN open' = TRUE /\ acked' = FALSE /\ since' = 0
    ELSE since' = (IF since < Window THEN since ELSE 0) /\ UNCHANGED <<open, acked>>

\* MUTANT: a reading the gate blocks starts its delay anew.
HazardousReadingSlides ==
    /\ reported' = TRUE
    /\ trigger' = Arm(gas, 0, NextDelay(gas, trigger), 0)
    /\ age' = 0
    /\ IF Blocks(trigger, age)
       THEN UNCHANGED <<open, acked, since>>
       ELSE FireAlertFromRule
    /\ UNCHANGED <<gas, streak>>

HazardousReading ==
    /\ reported' = TRUE
    /\ IF Blocks(trigger, age)
       THEN UNCHANGED <<trigger, age, open, acked, since>>
       ELSE /\ trigger' = Arm(gas, 0, NextDelay(gas, trigger), 0)
            /\ age' = 0
            /\ FireAlertFromRule
    /\ UNCHANGED <<gas, streak>>

NormalReading ==
    /\ reported' = TRUE
    /\ trigger' = NoTrigger /\ age' = 0
    /\ streak' = 0
    /\ UNCHANGED <<gas, open, acked, since>>

\* The internal endpoint does not ask the trigger gate.
TriggerAlert ==
    /\ FireAlertFromRule
    /\ UNCHANGED <<gas, trigger, age, streak, reported>>

TriggerResolved ==
    /\ open
    /\ open' = FALSE /\ acked' = FALSE /\ since' = 0
    /\ UNCHANGED <<gas, trigger, age, streak, reported>>

MarkNotificationHandled ==
    /\ open
    /\ acked' = TRUE
    /\ UNCHANGED <<gas, trigger, age, open, since, streak, reported>>

\* The next period. The sensor may have reported in this one or been offline.
Tick ==
    /\ reported' = FALSE
    /\ trigger' = Expire(trigger, age + 1)
    /\ age' = (IF trigger'.armed THEN age + 1 ELSE 0)
    /\ since' = (IF open THEN Older(since) ELSE 0)
    /\ streak' = (IF reported THEN Older(streak) ELSE 0)
    /\ UNCHANGED <<gas, open, acked>>

Next ==
    \/ HazardousReading
    \/ NormalReading
    \/ TriggerAlert
    \/ TriggerResolved
    \/ MarkNotificationHandled
    \/ Tick

\* Time goes on.
Spec == Init /\ [][Next]_vars /\ WF_vars(Tick)

-----------------------------------------------------------------------------

\* The two gates in a row never silence a hazard for longer than both ask for
\* (shouldTriggerRule arms its entry also for readings the incident then
\* suppresses): while the sensor keeps reporting the hazard, the last notification of
\* an open incident is at most a cool-off window and one trigger delay old.
BoundedSilence ==
    (open /\ streak >= Window + MaxDelay) => since <= Window + MaxDelay - 1

\* A hazard that persists is announced again and again: as long as the incident
\* is open and the sensor reports nothing else, a notification always comes.
Renotified ==
    []<>(since = 0 \/ streak = 0 \/ ~open)

\* docs/notifications-system.md: after the cool-off expires, the next hazardous
\* reading sends a notification at once.
ImmediateAfterCoolOff ==
    [][(open /\ since >= Window /\ HazardousReading) => since' = 0]_vars
================================================================================
