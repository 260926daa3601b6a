------------------------------ MODULE TriggerGate ------------------------------
(***************************************************************************)
(* The per-rule trigger state of NotificationsService: the cache entry     *)
(* that decides whether a matched reading may go on to the incident.       *)
(* Ordinary rules have a fixed cooldown; rules of the MQ2 gas sensor back  *)
(* off, doubling their delay up to a maximum. The entry lives in the       *)
(* in-memory cache with a time to live, so there are two clocks: `at`, the *)
(* occurredAt of the reading, and `clock`, the cache's own time.           *)
(***************************************************************************)
EXTENDS Naturals

CONSTANTS
    RuleCooldown,  \* ALERT_RULE_COOLDOWN_MS
    MaxBackoff     \* ALERT_RULE_MAX_BACKOFF_MS

\* readPositiveConfigNumber only lets positive integers through.
ASSUME GateAssumption ==
    /\ RuleCooldown \in Nat \ {0}
    /\ MaxBackoff \in Nat \ {0}

Lesser(a, b) == IF a <= b THEN a ELSE b

\* A delay is the cooldown or, once a gas rule backs off, at most MaxBackoff.
Delays == 0 .. (RuleCooldown + MaxBackoff)

Trigger == [armed : BOOLEAN, last : Nat, delay : Delays, expires : Nat]

NoTrigger == [armed |-> FALSE, last |-> 0, delay |-> 0, expires |-> 0]

\* The reading comes within the delay the entry asks for.
Blocks(entry, at) == entry.armed /\ at < entry.last + entry.delay

\* MUTANT: the doubled delay is not capped.
UncappedDelay(gas, entry) ==
    IF gas /\ entry.armed THEN 2 * entry.delay ELSE RuleCooldown

\* The delay the entry will ask for after it lets a reading through. A gas rule
\* doubles the delay of the entry it finds and starts over when it finds none.
NextDelay(gas, entry) ==
    IF gas /\ entry.armed THEN Lesser(2 * entry.delay, MaxBackoff) ELSE RuleCooldown

\* cacheManager.set: the entry written for a reading of time `at`.
Arm(gas, at, delay, clock) ==
    [armed   |-> TRUE,
     last    |-> at,
     delay   |-> delay,
     expires |-> clock + (IF gas THEN MaxBackoff ELSE RuleCooldown)]

\* What the cache still returns at time `clock`: an entry past its time to live
\* is gone.
Expire(entry, clock) == IF entry.armed /\ clock > entry.expires THEN NoTrigger ELSE entry
================================================================================
