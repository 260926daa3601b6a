----------------------------- MODULE AlertGate_proofs -----------------------------
(***************************************************************************)
(* Theorems about AlertGate, for any cooldown, maximum of the backoff and  *)
(* cool-off, over unbounded time.                                          *)
(***************************************************************************)
EXTENDS AlertGate, TLAPS

USE GateAssumption, CoolOffAssumption

\* The trigger entry blocks readings of this period.
Blocked == trigger.armed /\ age < trigger.delay

Sane ==
    /\ age \in Nat /\ since \in Nat /\ streak \in Nat
    /\ trigger.last = 0 /\ trigger.delay \in Nat
    /\ trigger.armed => 1 <= trigger.delay /\ trigger.delay <= MaxDelay

\* An entry was armed while the window had not passed, or by the reading that sent a
\* notification: the notification is older than the entry by less than a window.
ArmedInWindow == open /\ trigger.armed => since + 1 <= Window + age

\* In a period that begins with both gates open, a hazardous reading sends a notification:
\* a sensor that reported, and sent none, reported a normal reading.
OpenGatesSend == open /\ since >= Window /\ ~Blocked /\ reported => streak = 0

SilenceEnds == open /\ since >= Window + MaxDelay => streak <= 1

GateInv == Sane /\ ArmedInWindow /\ OpenGatesSend /\ SilenceEnds

-----------------------------------------------------------------------------
(* The gates' numbers                                                      *)

LEMMA Numbers ==
    /\ Window \in Nat /\ Window >= 1
    /\ MaxDelay \in Nat /\ MaxDelay >= 1 /\ RuleCooldown <= MaxDelay
    /\ gas => MaxBackoff <= MaxDelay
    /\ Horizon \in Nat /\ Window + MaxDelay <= Horizon
BY DEF Window, MaxDelay, Horizon

LEMMA Unarmed == ~NoTrigger.armed /\ NoTrigger.last = 0 /\ NoTrigger.delay = 0
BY DEF NoTrigger

\* The entry a reading arms.
LEMMA Armed ==
    ASSUME Sane
    PROVE  LET t == Arm(gas, 0, NextDelay(gas, trigger), 0) IN
           /\ t.armed /\ t.last = 0 /\ t.delay \in Nat
           /\ 1 <= t.delay /\ t.delay <= MaxDelay
<1>1. PICK n : n = NextDelay(gas, trigger)
  OBVIOUS
<1>2. n \in Nat /\ 1 <= n /\ n <= MaxDelay
  <2>1. CASE gas /\ trigger.armed
    <3>1. n = IF 2 * trigger.delay <= MaxBackoff THEN 2 * trigger.delay ELSE MaxBackoff
      BY <1>1, <2>1 DEF NextDelay, Lesser
    <3>2. trigger.delay \in Nat /\ 1 <= trigger.delay /\ MaxBackoff <= MaxDelay
      BY <2>1, Numbers DEF Sane
    <3> QED
      BY <3>1, <3>2, Numbers
  <2>2. CASE ~(gas /\ trigger.armed)
    BY <1>1, <2>2, Numbers DEF NextDelay
  <2> QED
    BY <2>1, <2>2
<1>3. PICK e : e = IF gas THEN MaxBackoff ELSE RuleCooldown
  OBVIOUS
<1>4. Arm(gas, 0, NextDelay(gas, trigger), 0) =
        [armed |-> TRUE, last |-> 0, delay |-> n, expires |-> 0 + e]
  BY <1>1, <1>3 DEF Arm
<1> QED
  BY <1>2, <1>4

\* A notification that is sent is new; otherwise nothing of the incident changes.
LEMMA Firing ==
    ASSUME Sane, FireAlertFromRule
    PROVE  /\ open' /\ since' \in Nat
           /\ \/ since' = 0
              \/ /\ open /\ since < Window /\ since' = since /\ acked' = acked
<1>1. CASE ~open
  BY <1>1 DEF FireAlertFromRule
<1>2. CASE open
  <2>1. since' = (IF since < Window THEN since ELSE 0) /\ UNCHANGED <<open, acked>>
    BY <1>2 DEF FireAlertFromRule
  <2> QED
    BY <1>2, <2>1 DEF Sane
<1> QED
  BY <1>1, <1>2

-----------------------------------------------------------------------------
(* The invariant                                                           *)

LEMMA GateInit == Init => GateInv
<1> SUFFICES ASSUME Init PROVE GateInv
  OBVIOUS
<1>1. ~open /\ ~trigger.armed /\ trigger.last = 0 /\ trigger.delay = 0
  BY Unarmed DEF Init
<1>2. age = 0 /\ since = 0 /\ streak = 0
  BY DEF Init
<1> QED
  BY <1>1, <1>2 DEF GateInv, Sane, ArmedInWindow, OpenGatesSend, SilenceEnds

LEMMA HazardousKeeps ==
    ASSUME GateInv, HazardousReading
    PROVE  GateInv'
<1>0. gas' = gas /\ streak' = streak /\ MaxDelay' = MaxDelay
  BY DEF HazardousReading, MaxDelay
<1>1. CASE Blocks(trigger, age)
  <2>1. UNCHANGED <<trigger, age, open, acked, since, streak, gas>> /\ Blocked
    BY <1>1 DEF HazardousReading, Blocks, Blocked, GateInv, Sane
  <2>2. Blocked' /\ Window' = Window
    BY <2>1 DEF Blocked, Window
  <2> QED
    BY <1>0, <2>1, <2>2 DEF GateInv, Sane, ArmedInWindow, OpenGatesSend, SilenceEnds
<1>2. CASE ~Blocks(trigger, age)
  <2>1. /\ trigger' = Arm(gas, 0, NextDelay(gas, trigger), 0) /\ age' = 0
        /\ FireAlertFromRule
    BY <1>2 DEF HazardousReading
  <2>2. /\ trigger'.armed /\ trigger'.last = 0 /\ trigger'.delay \in Nat
        /\ 1 <= trigger'.delay /\ trigger'.delay <= MaxDelay
    BY <2>1, Armed DEF GateInv
  <2>3. since' \in Nat /\ Window' \in Nat /\ Window' >= 1 /\ since' < Window'
    <3>1. Window' \in Nat /\ Window' >= 1
      BY DEF Window
    <3>2. CASE since' = 0
      BY <3>1, <3>2
    <3>3. CASE open /\ since < Window /\ since' = since /\ acked' = acked
      <4>1. Window' = Window
        BY <3>3 DEF Window
      <4> QED
        BY <3>1, <3>3, <4>1 DEF GateInv, Sane
    <3> QED
      BY <2>1, <3>2, <3>3, Firing DEF GateInv
  <2>4. Sane'
    BY <1>0, <2>1, <2>2, <2>3 DEF GateInv, Sane
  <2>5. ArmedInWindow'
    <3>1. PICK s, w, a : s = since' /\ w = Window' /\ a = age'
      OBVIOUS
    <3>2. s \in Nat /\ w \in Nat /\ s < w /\ a = 0
      BY <2>1, <2>3, <3>1
    <3>3. s + 1 <= w + a
      BY <3>2
    <3> QED
      BY <3>1, <3>3 DEF ArmedInWindow
  <2>6. ~(since' >= Window') /\ ~(since' >= Window' + MaxDelay')
    <3>1. PICK s, w, d : s = since' /\ w = Window' /\ d = MaxDelay'
      OBVIOUS
    <3>2. s \in Nat /\ w \in Nat /\ s < w /\ d \in Nat
      BY <1>0, <2>3, <3>1, Numbers
    <3>3. ~(s >= w) /\ ~(s >= w + d)
      BY <3>2
    <3> QED
      BY <3>1, <3>3
  <2>7. OpenGatesSend'
    BY <2>6 DEF OpenGatesSend
  <2>8. SilenceEnds'
    BY <2>6 DEF SilenceEnds
  <2> QED
    BY <2>4, <2>5, <2>7, <2>8 DEF GateInv
<1> QED
  BY <1>1, <1>2

LEMMA NormalKeeps ==
    ASSUME GateInv, NormalReading
    PROVE  GateInv'
<1>1. /\ ~trigger'.armed /\ trigger'.last = 0 /\ trigger'.delay = 0
      /\ age' = 0 /\ streak' = 0 /\ UNCHANGED <<gas, open, acked, since>>
  BY Unarmed DEF NormalReading
<1> QED
  BY <1>1 DEF GateInv, Sane, ArmedInWindow, OpenGatesSend, SilenceEnds

\* Steps of the incident alone.
LEMMA IncidentKeeps ==
    ASSUME GateInv, TriggerAlert \/ TriggerResolved \/ MarkNotificationHandled
    PROVE  GateInv'
<1>1. UNCHANGED <<gas, trigger, age, streak, reported>>
  BY DEF TriggerAlert, TriggerResolved, MarkNotificationHandled
<1>2. MaxDelay' = MaxDelay /\ (Blocked' <=> Blocked) /\ Window' \in Nat /\ Window' >= 1
  BY <1>1 DEF MaxDelay, Blocked, Window
<1>3. /\ since' \in Nat
      /\ open' => since' = 0 \/ (open /\ since' = since /\ Window' >= Window)
  <2>1. CASE TriggerAlert
    <3>1. /\ since' \in Nat
          /\ \/ since' = 0
             \/ open /\ since' = since /\ acked' = acked
      BY <2>1, Firing DEF TriggerAlert, GateInv
    <3> QED
      BY <3>1, Numbers DEF Window
  <2>2. CASE TriggerResolved
    BY <2>2 DEF TriggerResolved
  <2>3. CASE MarkNotificationHandled
    <3>1. open /\ since' = since /\ acked'
      BY <2>3 DEF MarkNotificationHandled
    <3>2. Window' >= Window
      BY <3>1 DEF Window
    <3> QED
      BY <3>1, <3>2 DEF GateInv, Sane
  <2> QED
    BY <2>1, <2>2, <2>3
<1>4. Sane'
  BY <1>1, <1>2, <1>3 DEF GateInv, Sane
<1>5. ArmedInWindow'
  <2> SUFFICES ASSUME open', trigger'.armed PROVE since' + 1 <= Window' + age'
    BY DEF ArmedInWindow
  <2>1. trigger.armed /\ age' = age /\ age \in Nat /\ since \in Nat
    BY <1>1 DEF GateInv, Sane
  <2>2. PICK w, a : w = Window' /\ a = age
    OBVIOUS
  <2>3. w \in Nat /\ w >= 1 /\ a \in Nat
    BY <1>2, <2>1, <2>2
  <2>4. CASE since' = 0
    <3>1. 0 + 1 <= w + a
      BY <2>3
    <3> QED
      BY <2>1, <2>4, <2>2, <3>1
  <2>5. CASE open /\ since' = since /\ Window' >= Window
    <3>1. PICK s, v : s = since /\ v = Window
      OBVIOUS
    <3>2. s \in Nat /\ v \in Nat /\ w >= v /\ s + 1 <= v + a
      BY <2>1, <2>5, <2>2, <3>1, Numbers DEF GateInv, ArmedInWindow
    <3>3. s + 1 <= w + a
      BY <2>3, <3>2
    <3> QED
      BY <2>1, <2>5, <2>2, <3>1, <3>3
  <2> QED
    BY <1>3, <2>4, <2>5
<1>6. OpenGatesSend'
  BY <1>1, <1>2, <1>3, Numbers DEF GateInv, Sane, OpenGatesSend
<1>7. SilenceEnds'
  <2> SUFFICES ASSUME open', since' >= Window' + MaxDelay' PROVE streak' <= 1
    BY DEF SilenceEnds
  <2>1. since' # 0
    BY <1>2, Numbers
  <2>2. open /\ since' = since /\ Window' >= Window
    BY <1>3, <2>1
  <2>3. since >= Window + MaxDelay
    <3>1. PICK s, v, w, d : s = since /\ v = Window /\ w = Window' /\ d = MaxDelay
      OBVIOUS
    <3>2. s \in Nat /\ v \in Nat /\ w \in Nat /\ d \in Nat /\ w >= v /\ s >= w + d
      BY <1>2, <2>2, <3>1, Numbers DEF GateInv, Sane
    <3>3. s >= v + d
      BY <3>2
    <3> QED
      BY <3>1, <3>3
  <2> QED
    BY <1>1, <2>2, <2>3 DEF GateInv, SilenceEnds
<1> QED
  BY <1>4, <1>5, <1>6, <1>7 DEF GateInv

LEMMA TickKeeps ==
    ASSUME GateInv, Tick
    PROVE  GateInv'
<1>1. UNCHANGED <<gas, open, acked>> /\ ~reported'
  BY DEF Tick
<1>2. MaxDelay' = MaxDelay /\ Window' = Window
  BY <1>1 DEF MaxDelay, Window
<1>3. /\ trigger' = trigger \/ ~trigger'.armed
      /\ trigger'.last = 0 /\ trigger'.delay \in Nat
      /\ trigger'.armed => 1 <= trigger'.delay /\ trigger'.delay <= MaxDelay
      /\ trigger'.armed => age' = age + 1
      /\ age' \in Nat
  BY Unarmed DEF Tick, Expire, GateInv, Sane
<1>4. /\ since' \in Nat /\ since' <= since + 1
      /\ streak' \in Nat /\ streak' <= streak + 1 /\ (~reported => streak' = 0)
  BY Numbers DEF Tick, Older, Lesser, GateInv, Sane
<1>5. Sane'
  BY <1>2, <1>3, <1>4 DEF Sane
<1>6. ArmedInWindow'
  <2> SUFFICES ASSUME open', trigger'.armed PROVE since' + 1 <= Window' + age'
    BY DEF ArmedInWindow
  <2>1. open /\ trigger.armed /\ age' = age + 1 /\ since + 1 <= Window + age
    BY <1>1, <1>3 DEF GateInv, ArmedInWindow
  <2>2. PICK s, t, w, a : s = since /\ t = since' /\ w = Window /\ a = age
    OBVIOUS
  <2>3. s \in Nat /\ t \in Nat /\ w \in Nat /\ a \in Nat /\ t <= s + 1 /\ s + 1 <= w + a
    BY <1>4, <2>1, <2>2, Numbers DEF GateInv, Sane
  <2>4. t + 1 <= w + (a + 1)
    BY <2>3
  <2> QED
    BY <1>2, <2>1, <2>2, <2>4
<1>7. OpenGatesSend'
  BY <1>1 DEF OpenGatesSend
<1>8. SilenceEnds'
  <2> SUFFICES ASSUME open', since' >= Window' + MaxDelay' PROVE streak' <= 1
    BY DEF SilenceEnds
  <2>1. open /\ since + 1 >= Window + MaxDelay
    BY <1>1, <1>2, <1>4, Numbers DEF GateInv, Sane
  <2>2. ~Blocked
    BY <2>1, Numbers DEF Blocked, GateInv, Sane, ArmedInWindow
  <2>3. since >= Window
    BY <2>1, Numbers DEF GateInv, Sane
  <2>4. reported => streak = 0
    BY <2>1, <2>2, <2>3 DEF GateInv, OpenGatesSend
  <2> QED
    BY <1>4, <2>4 DEF GateInv, Sane
<1> QED
  BY <1>5, <1>6, <1>7, <1>8 DEF GateInv

LEMMA GateStep == GateInv /\ [Next]_vars => GateInv'
<1>1. ASSUME GateInv, UNCHANGED vars PROVE GateInv'
  BY <1>1 DEF vars, GateInv, Sane, ArmedInWindow, OpenGatesSend, SilenceEnds, Blocked, Window,
              MaxDelay
<1> QED
  BY <1>1, HazardousKeeps, NormalKeeps, IncidentKeeps, TickKeeps DEF Next

\* Whatever readings, alerts, resolutions and acknowledgements come in whatever order: while
\* a sensor keeps reporting a hazard, the last notification of its open incident is less
\* than a cool-off window and one trigger delay old.
THEOREM SilenceBounded == Spec => []BoundedSilence
<1>1. GateInv => BoundedSilence
  BY Numbers DEF GateInv, Sane, SilenceEnds, BoundedSilence
<1> QED
  BY <1>1, GateInit, GateStep, PTL DEF Spec

================================================================================
