----------------------------- MODULE FlowPreference -----------------------------
(* Whether the owner of a flow wants its alerts: the preference document, the *)
(* requests that change it, the creation and the deletion of the flow beside  *)
(* them, and the readings that ask for it before they fire.  What a reading   *)
(* does when it fires is in AlertPipeline, how rules change in AlertRules.    *)
EXTENDS Naturals

CONSTANTS
    PrefRequests,     \* updateNotificationPreferences in progress at a time
    PrefReadings      \* readings, and internal triggers, in progress at a time

VARIABLES
    flowState,    \* "kept"; "deleted"; "clean": its notification data is deleted too
    defaulted,    \* create() has asked for the default preference
    hasRules,     \* the flow has an alert rule
    preference,   \* notificationsEnabled: "on" or "off"; "none": no document
    prequest,     \* prequest[r]: a request and where it stands
    sensed,       \* sensed[m]: a reading and where it stands
    optedOut      \* the last answer to the owner said off, and no request to enable came since

prefVars == <<flowState, defaulted, hasRules, preference, prequest, sensed, optedOut>>

\* seen is the document a request found, "gone" if it was deleted since; alone, that no
\* request to enable ran beside it
PrefRequest == [at : {"idle", "rules", "find", "save"}, value : {"on", "off"},
                seen : {"none", "on", "off", "gone"}, alone : BOOLEAN]
NoRequest == [at |-> "idle", value |-> "off", seen |-> "none", alone |-> FALSE]

\* late: the owner had opted out when the reading began
PrefReading == [at : {"idle", "owner", "rules", "match", "fired"}, late : BOOLEAN]
NoReading == [at |-> "idle", late |-> FALSE]

PrefInit ==
    /\ flowState = "kept" /\ defaulted = FALSE /\ hasRules = FALSE
    /\ preference = "none"
    /\ prequest = [r \in PrefRequests |-> NoRequest]
    /\ sensed = [m \in PrefReadings |-> NoReading]
    /\ optedOut = FALSE

-------------------------------------------------------------------------------
(* The flow                                                                    *)

\* MUTANT: the default replaces what is there.
DefaultReplaces ==
    /\ ~defaulted /\ defaulted' = TRUE
    /\ preference' = "on"
    /\ UNCHANGED <<flowState, hasRules, prequest, sensed, optedOut>>

\* createDefaultNotificationPreference, once the new flow is saved: only if there is none
CreateDefaultPreference ==
    /\ ~defaulted /\ defaulted' = TRUE
    /\ preference' = IF preference = "none" THEN "on" ELSE preference
    /\ UNCHANGED <<flowState, hasRules, prequest, sensed, optedOut>>

ChangeRules ==
    /\ hasRules' = ~hasRules
    /\ UNCHANGED <<flowState, defaulted, preference, prequest, sensed, optedOut>>

\* FlowsService.delete deletes the flow ...
DeleteFlowDoc ==
    /\ flowState = "kept" /\ flowState' = "deleted"
    /\ UNCHANGED <<defaulted, hasRules, preference, prequest, sensed, optedOut>>

\* ... and later its preference, in no order with its rules
CleanUpPreference ==
    /\ flowState = "deleted" /\ flowState' = "clean"
    /\ preference' = "none"
    /\ prequest' = [r \in PrefRequests |->
                      IF prequest[r].seen \in {"on", "off"} THEN [prequest[r] EXCEPT !.seen = "gone"]
                      ELSE prequest[r]]
    /\ UNCHANGED <<defaulted, hasRules, sensed, optedOut>>

-------------------------------------------------------------------------------
(* updateNotificationPreferences                                               *)

Enabling(r) == prequest[r].at # "idle" /\ prequest[r].value = "on"

\* assertUserCanAccessFlow
AskOff(r) ==
    /\ prequest[r].at = "idle" /\ flowState = "kept"
    /\ prequest' = [prequest EXCEPT ![r] =
                      [NoRequest EXCEPT !.at = "find", !.alone = ~\E p \in PrefRequests : Enabling(p)]]
    /\ UNCHANGED <<flowState, defaulted, hasRules, preference, sensed, optedOut>>

AskOn(r) ==
    /\ prequest[r].at = "idle" /\ flowState = "kept"
    /\ prequest' = [p \in PrefRequests |->
                      IF p = r THEN [NoRequest EXCEPT !.at = "rules", !.value = "on"]
                      ELSE [prequest[p] EXCEPT !.alone = FALSE]]
    /\ optedOut' = FALSE
    /\ sensed' = [m \in PrefReadings |-> [sensed[m] EXCEPT !.late = FALSE]]
    /\ UNCHANGED <<flowState, defaulted, hasRules, preference>>

\* A flow without rules is refused
CheckRules(r) ==
    /\ prequest[r].at = "rules"
    /\ prequest' = [prequest EXCEPT ![r] =
                      IF hasRules THEN [prequest[r] EXCEPT !.at = "find"] ELSE NoRequest]
    /\ UNCHANGED <<flowState, defaulted, hasRules, preference, sensed, optedOut>>

FindPreference(r) ==
    /\ prequest[r].at = "find"
    /\ prequest' = [prequest EXCEPT ![r].at = "save", ![r].seen = preference]
    /\ UNCHANGED <<flowState, defaulted, hasRules, preference, sensed, optedOut>>

\* A new document fails on the unique index if there is one by now, one that was deleted cannot
\* be saved, and one that was read is written only if its value changes.
SavePreference(r) ==
    /\ prequest[r].at = "save"
    /\ LET q == prequest[r]
           fails == q.seen = "gone" \/ (q.seen = "none" /\ preference # "none") IN
       /\ preference' = IF fails \/ q.seen = q.value THEN preference ELSE q.value
       /\ optedOut' = (optedOut \/ (~fails /\ q.value = "off" /\ q.alone))
    /\ prequest' = [prequest EXCEPT ![r] = NoRequest]
    /\ UNCHANGED <<flowState, defaulted, hasRules, sensed>>

-------------------------------------------------------------------------------
(* processSensorReading                                                        *)

ReadOwner(m) ==
    /\ sensed[m].at = "idle" /\ flowState = "kept"
    /\ sensed' = [sensed EXCEPT ![m] = [at |-> "owner", late |-> optedOut]]
    /\ UNCHANGED <<flowState, defaulted, hasRules, preference, prequest, optedOut>>

\* A flow without a preference is opted in.
ReadPreference(m) ==
    /\ sensed[m].at = "owner"
    /\ sensed' = [sensed EXCEPT ![m] =
                    IF preference = "off" THEN NoReading ELSE [sensed[m] EXCEPT !.at = "rules"]]
    /\ UNCHANGED <<flowState, defaulted, hasRules, preference, prequest, optedOut>>

ReadRules(m) ==
    /\ sensed[m].at = "rules"
    /\ sensed' = [sensed EXCEPT ![m] =
                    IF hasRules THEN [sensed[m] EXCEPT !.at = "match"] ELSE NoReading]
    /\ UNCHANGED <<flowState, defaulted, hasRules, preference, prequest, optedOut>>

\* MUTANT: the firing takes the owner the reading found.
FireUnlooked(m) ==
    /\ sensed[m].at = "match"
    /\ sensed' = [sensed EXCEPT ![m].at = "fired"]
    /\ UNCHANGED <<flowState, defaulted, hasRules, preference, prequest, optedOut>>

\* fireAlertFromRule looks for the owner again: a flow that is gone fires nothing
FireRule(m) ==
    /\ sensed[m].at = "match" /\ flowState = "kept"
    /\ sensed' = [sensed EXCEPT ![m].at = "fired"]
    /\ UNCHANGED <<flowState, defaulted, hasRules, preference, prequest, optedOut>>

\* The next rule, or the end of the reading
NextRule(m) ==
    /\ sensed[m].at \in {"match", "fired"}
    /\ \/ sensed' = [sensed EXCEPT ![m].at = "match"]
       \/ sensed' = [sensed EXCEPT ![m] = NoReading]
    /\ UNCHANGED <<flowState, defaulted, hasRules, preference, prequest, optedOut>>

PrefNext ==
    \/ CreateDefaultPreference \/ ChangeRules \/ DeleteFlowDoc \/ CleanUpPreference
    \/ \E r \in PrefRequests :
         AskOff(r) \/ AskOn(r) \/ CheckRules(r) \/ FindPreference(r) \/ SavePreference(r)
    \/ \E m \in PrefReadings :
         ReadOwner(m) \/ ReadPreference(m) \/ ReadRules(m) \/ FireRule(m) \/ NextRule(m)

PrefSpec == PrefInit /\ [][PrefNext]_prefVars

\* Once an owner was told that notifications are off, with no request to enable beside it or
\* since, no reading that begins fires (notifications.service.ts:1285): not while the new flow's
\* default is created, nor while the flow is deleted and a missing document reads as opted in.
OptedOutIsSilent == \A m \in PrefReadings : sensed[m].at = "fired" => ~sensed[m].late
================================================================================
