------------------------------ MODULE AlertPipeline ------------------------------
(***************************************************************************)
(* The alert pipeline of NotificationsService: sensor readings, internal   *)
(* triggers, resolutions and the user's answers, all of them async         *)
(* handlers of one Node.js process that interleave at their awaits.        *)
(*                                                                         *)
(*   firer     processSensorReading, or triggerAlertFromInternal for an    *)
(*             alert: gate, incident, notification, push                   *)
(*   resolver  triggerAlertFromInternal for a 'resolved' event             *)
(*   handler   markNotificationHandled                                     *)
(*                                                                         *)
(* Any of their calls to the database or to the messaging service may      *)
(* throw, which ends the handler where it is, as a restart ends them all.  *)
(*                                                                         *)
(* One flow of one owner with notifications enabled; its enabled rules are *)
(* fixed. A document's save() writes the fields the handler changed and no *)
(* other (Mongoose), so a stale copy is harmful only in those fields.      *)
(***************************************************************************)
EXTENDS TriggerGate, FiniteSets

CONSTANTS
    Rules, GasRules,   \* enabled alert rules; those of the MQ2 gas sensor
    Devices,           \* ids an incident may carry: devices, and the flow's own id
    Firers, Resolvers, Handlers,  \* handlers in flight at once
    CoolOff,           \* baseCooldown, 5 minutes
    Bodies,            \* occurredAt values an internal caller may send
    Delivered,         \* notifications whose receipt the phones report
    MaxTime, MaxIncidents, MaxNotices, MaxRestarts  \* bounds

ASSUME PipelineAssumption ==
    /\ Rules # {} /\ Devices # {} /\ GasRules \subseteq Rules /\ IsFiniteSet(Resolvers)
    /\ CoolOff \in Nat \ {0}
    /\ Bodies \subseteq Nat /\ Delivered \subseteq Nat
    /\ {MaxTime, MaxIncidents, MaxNotices, MaxRestarts} \subseteq Nat

VARIABLES
    clock,          \* the cache's and the server's time
    owned,          \* the flow is there: getFlowOwnerId finds its owner
    flowDevice,     \* the id getFlowNotificationDeviceId returns
    trigger,        \* the cached trigger state of each rule
    incident,       \* the incidents collection, by creation order
    incidentCount,
    notice,         \* the notifications collection, by creation order
    noticeCount,
    firer, resolver, handler,  \* where each handler is, and its local variables
    restarts,       \* restarts of the process so far
    failed, cutOff, unfinished  \* history: what failed calls and restarts left undone

world == <<clock, owned, flowDevice, restarts>>
store == <<incident, incidentCount, notice, noticeCount>>
tasks == <<firer, resolver, handler>>
aux == <<failed, cutOff, unfinished>>
vars == <<world, trigger, store, tasks, aux>>

IncidentIds == 1 .. MaxIncidents
NoticeIds == 1 .. MaxNotices
NoId == 0
AnyRule == CHOOSE r \in Rules : TRUE
AnyDevice == CHOOSE d \in Devices : TRUE

\* opened: opened_at; last: last_notification_sent_at; acked: user_acknowledged_at
\* is set; state: "open" while closed_at is null.
Incident == [state : {"none", "open", "closed"}, rule : Rules, device : Devices,
             opened : Nat, last : Nat, acked : BOOLEAN]

NoIncident == [state |-> "none", rule |-> AnyRule, device |-> AnyDevice,
               opened |-> 0, last |-> 0, acked |-> FALSE]

Notice == [type : {"none", "alert", "resolved"}, incident : IncidentIds \cup {NoId},
           sent : Nat, received : BOOLEAN, handled : BOOLEAN]

NoNotice == [type |-> "none", incident |-> NoId, sent |-> 0,
             received |-> FALSE, handled |-> FALSE]

\* todo: rules of the reading still to evaluate; hazard: those whose condition
\* matched; at: occurredAt; found: the incident the lookup returned.
Firer == [pc : {"idle", "loop", "set", "device", "find", "write", "notify", "push"},
          todo : SUBSET Rules, hazard : SUBSET Rules, rule : Rules, at : Nat,
          delay : Delays, device : Devices, found : IncidentIds \cup {NoId}]

IdleFirer == [pc |-> "idle", todo |-> {}, hazard |-> {}, rule |-> AnyRule, at |-> 0,
              delay |-> 0, device |-> AnyDevice, found |-> NoId]

Resolver == [pc : {"idle", "device", "find", "save", "notify"}, rule : Rules,
             at : Nat, device : Devices, found : IncidentIds \cup {NoId}]

IdleResolver == [pc |-> "idle", rule |-> AnyRule, at |-> 0,
                 device |-> AnyDevice, found |-> NoId]

IdleHandler == [pc |-> "idle", notice |-> NoId]

Handler == {IdleHandler} \cup [pc : {"ack", "rest"}, notice : NoticeIds]

\* failed: rules a firing of which failed, since their gate was armed, before it
\* had an incident; cutOff: notifications of incidents that were owed to the user
\* when their handler was ended; unfinished: incidents whose handling was.
HistoryOK ==
    /\ failed \subseteq Rules
    /\ cutOff \subseteq {"alert", "resolved"} \X (IncidentIds \cup {NoId})
    /\ unfinished \subseteq IncidentIds \cup {NoId}

WorldOK ==
    /\ clock \in Nat /\ owned \in BOOLEAN /\ flowDevice \in Devices /\ restarts \in Nat
    /\ trigger \in [Rules -> Trigger]

TasksOK ==
    /\ firer \in [Firers -> Firer]
    /\ resolver \in [Resolvers -> Resolver]
    /\ handler \in [Handlers -> Handler]

StoreOK ==
    /\ incident \in [IncidentIds -> Incident] /\ incidentCount \in 0 .. MaxIncidents
    /\ notice \in [NoticeIds -> Notice] /\ noticeCount \in 0 .. MaxNotices

\* The collections are filled from the front.
Filled ==
    /\ \A i \in IncidentIds : incident[i].state = "none" <=> i > incidentCount
    /\ \A n \in NoticeIds : notice[n].type = "none" <=> n > noticeCount

\* What the handlers and notifications refer to exists.
Located ==
    /\ \A f \in Firers : firer[f].found <= incidentCount
    /\ \A s \in Resolvers : resolver[s].found <= incidentCount
    /\ \A n \in NoticeIds : notice[n].incident <= incidentCount
    /\ \A h \in Handlers : handler[h].notice <= noticeCount

StateOK == WorldOK /\ TasksOK /\ StoreOK /\ Filled /\ Located

TypeOK == StateOK /\ HistoryOK

Init ==
    /\ clock = 0 /\ owned = TRUE /\ flowDevice \in Devices /\ restarts = 0
    /\ failed = {} /\ cutOff = {} /\ unfinished = {}
    /\ trigger = [r \in Rules |-> NoTrigger]
    /\ incident = [i \in IncidentIds |-> NoIncident] /\ incidentCount = 0
    /\ notice = [n \in NoticeIds |-> NoNotice] /\ noticeCount = 0
    /\ firer = [f \in Firers |-> IdleFirer]
    /\ resolver = [s \in Resolvers |-> IdleResolver]
    /\ handler = [h \in Handlers |-> IdleHandler]

-----------------------------------------------------------------------------
(* The collections                                                         *)

IsOpen(i) == incident[i].state = "open"

\* Newest first: opened_at, then _id.
Newer(i, j) ==
    \/ incident[i].opened > incident[j].opened
    \/ incident[i].opened = incident[j].opened /\ i >= j

\* MUTANT: the lookup does not look at closed_at.
OpenOrClosed(r, d) ==
    {i \in IncidentIds : /\ incident[i].state # "none"
                         /\ incident[i].rule = r /\ incident[i].device = d}

\* The documents findOpenIncident's filter matches. The rule stands for the
\* user, flow, node, module and reading key, which never change for it.
OpenIncidents(r, d) ==
    {i \in IncidentIds : IsOpen(i) /\ incident[i].rule = r /\ incident[i].device = d}

\* What findOpenIncident returns.
FoundFor(r, d, i) ==
    IF OpenIncidents(r, d) = {}
    THEN i = NoId
    ELSE i \in OpenIncidents(r, d) /\ \A j \in OpenIncidents(r, d) : Newer(i, j)

\* MUTANT: the window is counted from the opening of the incident.
SuppressedSinceOpening(i, at) == at < incident[i].opened + CoolOff

\* shouldSendIncidentNotification refuses: `at` lies within the cool-off window
\* of the incident, three times as long once the user acknowledged it.
Suppressed(i, at) ==
    at < incident[i].last + (IF incident[i].acked THEN 3 * CoolOff ELSE CoolOff)

\* incidentModel.create
CreateIncident(r, d, at) ==
    /\ incidentCount < MaxIncidents
    /\ incidentCount' = incidentCount + 1
    /\ incident' = [incident EXCEPT ![incidentCount + 1] =
            [state |-> "open", rule |-> r, device |-> d,
             opened |-> at, last |-> at, acked |-> FALSE]]

\* notificationModel.create
CreateNotice(type, i, at) ==
    /\ noticeCount < MaxNotices
    /\ noticeCount' = noticeCount + 1
    /\ notice' = [notice EXCEPT ![noticeCount + 1] =
            [type |-> type, incident |-> i, sent |-> at,
             received |-> FALSE, handled |-> FALSE]]
    /\ UNCHANGED <<incident, incidentCount>>

-----------------------------------------------------------------------------
(* Firers: processSensorReading and fireAlertFromRule                      *)

\* The loop over the rules goes on with those in `rest`, or the call returns.
NextRule(f, rest) ==
    firer' = [firer EXCEPT ![f] =
        IF rest = {} THEN IdleFirer
        ELSE [IdleFirer EXCEPT !.pc = "loop", !.todo = rest,
                               !.hazard = @ \cup (firer[f].hazard \cap rest),
                               !.at = firer[f].at]]

\* A reading with a value for the rules `carried`; `hazard` are those it matches.
ProcessSensorReading(f, carried, hazard) ==
    /\ firer[f].pc = "idle"
    /\ owned /\ carried # {}
    /\ firer' = [firer EXCEPT ![f] =
            [IdleFirer EXCEPT !.pc = "loop", !.todo = carried, !.hazard = hazard, !.at = clock]]
    /\ UNCHANGED <<world, trigger, store, resolver, handler, aux>>

\* An alert of the internal endpoint skips the trigger gate and may carry any time.
TriggerAlert(f, r, at) ==
    /\ firer[f].pc = "idle" /\ owned
    /\ firer' = [firer EXCEPT ![f] =
            [IdleFirer EXCEPT !.pc = "device", !.rule = r, !.at = at]]
    /\ UNCHANGED <<world, trigger, store, resolver, handler, aux>>

\* A reading that does not match only forgets the rule's trigger state.
ResetRuleTriggerState(f, r) ==
    /\ firer[f].pc = "loop" /\ r \in firer[f].todo \ firer[f].hazard
    /\ trigger' = [trigger EXCEPT ![r] = NoTrigger]
    /\ NextRule(f, firer[f].todo \ {r})
    /\ UNCHANGED <<world, store, resolver, handler, aux>>

\* shouldTriggerRule up to the cache read.
ReadTrigger(f, r) ==
    /\ firer[f].pc = "loop" /\ r \in firer[f].todo \cap firer[f].hazard
    /\ IF Blocks(trigger[r], firer[f].at)
       THEN NextRule(f, firer[f].todo \ {r})
       ELSE firer' = [firer EXCEPT ![f] = [@ EXCEPT
                !.pc = "set", !.rule = r,
                !.todo = firer[f].todo \ {r}, !.hazard = firer[f].hazard \ {r},
                !.delay = NextDelay(r \in GasRules, trigger[r])]]
    /\ UNCHANGED <<world, trigger, store, resolver, handler, aux>>

\* The gate is armed before the incident is looked at.
SetTrigger(f) ==
    LET r == firer[f].rule IN
    /\ firer[f].pc = "set"
    /\ trigger' = [trigger EXCEPT ![r] = Arm(r \in GasRules, firer[f].at, firer[f].delay, clock)]
    /\ firer' = [firer EXCEPT ![f] = [@ EXCEPT !.pc = "device", !.delay = 0]]
    /\ failed' = failed \ {r}
    /\ UNCHANGED <<world, store, resolver, handler, cutOff, unfinished>>

\* getFlowOwnerId finds no flow: the rule counts as suppressed.
FlowNotFound(f) ==
    /\ firer[f].pc = "device" /\ ~owned
    /\ NextRule(f, firer[f].todo)
    /\ UNCHANGED <<world, trigger, store, resolver, handler, aux>>

\* The owner, then the linked device. A deletion between the two awaits has
\* unlinked the flow before it removes it, so the device is the one just before.
GetFlowNotificationDeviceId(f) ==
    /\ firer[f].pc = "device" /\ owned
    /\ firer' = [firer EXCEPT ![f] = [@ EXCEPT !.pc = "find", !.device = flowDevice]]
    /\ UNCHANGED <<world, trigger, store, resolver, handler, aux>>

FindOpenIncident(f) ==
    /\ firer[f].pc = "find"
    /\ \E i \in IncidentIds \cup {NoId} :
        /\ FoundFor(firer[f].rule, firer[f].device, i)
        /\ IF i # NoId /\ Suppressed(i, firer[f].at)
           THEN NextRule(f, firer[f].todo)
           ELSE firer' = [firer EXCEPT ![f] = [@ EXCEPT !.pc = "write", !.found = i]]
    /\ UNCHANGED <<world, trigger, store, resolver, handler, aux>>

\* MUTANT: the new incident gets the device the flow has by now.
OpenIncidentForCurrentDevice(f) ==
    /\ firer[f].pc = "write" /\ firer[f].found = NoId
    /\ CreateIncident(firer[f].rule, flowDevice, firer[f].at)
    /\ firer' = [firer EXCEPT ![f] =
            [@ EXCEPT !.pc = "notify", !.found = incidentCount + 1, !.device = AnyDevice]]
    /\ UNCHANGED <<world, trigger, notice, noticeCount, resolver, handler, aux>>

OpenNewIncident(f) ==
    /\ firer[f].pc = "write" /\ firer[f].found = NoId
    /\ CreateIncident(firer[f].rule, firer[f].device, firer[f].at)
    /\ firer' = [firer EXCEPT ![f] =
            [@ EXCEPT !.pc = "notify", !.found = incidentCount + 1, !.device = AnyDevice]]
    /\ UNCHANGED <<world, trigger, notice, noticeCount, resolver, handler, aux>>

\* MUTANT: save() writes the whole document the lookup returned, closed_at with it.
WriteBackWholeIncident(f) ==
    /\ firer[f].pc = "write" /\ firer[f].found # NoId
    /\ incident' = [incident EXCEPT ![firer[f].found] =
            [@ EXCEPT !.last = firer[f].at, !.state = "open"]]
    /\ firer' = [firer EXCEPT ![f] = [@ EXCEPT !.pc = "notify", !.device = AnyDevice]]
    /\ UNCHANGED <<world, trigger, incidentCount, notice, noticeCount, resolver, handler, aux>>

\* It writes last_notification_sent_at, whatever happened to the incident since
\* the lookup.
UpdateIncidentForAlert(f) ==
    /\ firer[f].pc = "write" /\ firer[f].found # NoId
    /\ incident' = [incident EXCEPT ![firer[f].found] = [@ EXCEPT !.last = firer[f].at]]
    /\ firer' = [firer EXCEPT ![f] = [@ EXCEPT !.pc = "notify", !.device = AnyDevice]]
    /\ UNCHANGED <<world, trigger, incidentCount, notice, noticeCount, resolver, handler, aux>>

CreateAlert(f) ==
    /\ firer[f].pc = "notify"
    /\ CreateNotice("alert", firer[f].found, firer[f].at)
    /\ firer' = [firer EXCEPT ![f] = [@ EXCEPT !.pc = "push"]]
    /\ UNCHANGED <<world, trigger, resolver, handler, aux>>

\* sendAlertToFlowOwner returns: sent, or nobody to send to.
SendAlert(f) ==
    /\ firer[f].pc = "push"
    /\ NextRule(f, firer[f].todo)
    /\ UNCHANGED <<world, trigger, store, resolver, handler, aux>>

\* The notification a handler at "notify" owes, if any.
OwedAlert(f) == IF firer[f].pc = "notify" THEN {<<"alert", firer[f].found>>} ELSE {}

\* A call to the database or the messaging service throws, before or after it
\* had its effect: the loop over the remaining rules is left with it, what was
\* written stays.
FirerThrows(f) ==
    /\ firer[f].pc \in {"device", "find", "write", "notify", "push"}
    /\ NextRule(f, {})
    /\ failed' = failed \cup
            (IF firer[f].pc \in {"device", "find", "write"} THEN {firer[f].rule} ELSE {})
    /\ cutOff' = cutOff \cup OwedAlert(f)
    /\ UNCHANGED <<world, trigger, store, resolver, handler, unfinished>>

-----------------------------------------------------------------------------
(* Resolvers: resolveIncidentFromRule                                      *)

TriggerResolved(s, r, at) ==
    /\ resolver[s].pc = "idle" /\ owned
    /\ resolver' = [resolver EXCEPT ![s] =
            [IdleResolver EXCEPT !.pc = "device", !.rule = r, !.at = at]]
    /\ UNCHANGED <<world, trigger, store, firer, handler, aux>>

ResolverFindsNoFlow(s) ==
    /\ resolver[s].pc = "device" /\ ~owned
    /\ resolver' = [resolver EXCEPT ![s] = IdleResolver]
    /\ UNCHANGED <<world, trigger, store, firer, handler, aux>>

ResolverReadsDevice(s) ==
    /\ resolver[s].pc = "device" /\ owned
    /\ resolver' = [resolver EXCEPT ![s] = [@ EXCEPT !.pc = "find", !.device = flowDevice]]
    /\ UNCHANGED <<world, trigger, store, firer, handler, aux>>

ResolverFindsIncident(s) ==
    /\ resolver[s].pc = "find"
    /\ \E i \in IncidentIds \cup {NoId} :
        /\ FoundFor(resolver[s].rule, resolver[s].device, i)
        /\ resolver' = [resolver EXCEPT ![s] =
                IF i = NoId THEN IdleResolver ELSE [@ EXCEPT !.pc = "save", !.found = i]]
    /\ UNCHANGED <<world, trigger, store, firer, handler, aux>>

\* MUTANT: the resolution ends with the save.
CloseIncidentSilently(s) ==
    /\ resolver[s].pc = "save"
    /\ incident' = [incident EXCEPT ![resolver[s].found] =
            [@ EXCEPT !.state = "closed", !.last = resolver[s].at]]
    /\ resolver' = [resolver EXCEPT ![s] = IdleResolver]
    /\ UNCHANGED <<world, trigger, incidentCount, notice, noticeCount, firer, handler, aux>>

CloseIncident(s) ==
    /\ resolver[s].pc = "save"
    /\ incident' = [incident EXCEPT ![resolver[s].found] =
            [@ EXCEPT !.state = "closed", !.last = resolver[s].at]]
    /\ resolver' = [resolver EXCEPT ![s] = [@ EXCEPT !.pc = "notify", !.device = AnyDevice]]
    /\ UNCHANGED <<world, trigger, incidentCount, notice, noticeCount, firer, handler, aux>>

\* The push that follows changes nothing here, whether it throws or not.
CreateResolved(s) ==
    /\ resolver[s].pc = "notify"
    /\ CreateNotice("resolved", resolver[s].found, resolver[s].at)
    /\ resolver' = [resolver EXCEPT ![s] = IdleResolver]
    /\ UNCHANGED <<world, trigger, firer, handler, aux>>

OwedResolution(s) ==
    IF resolver[s].pc = "notify" THEN {<<"resolved", resolver[s].found>>} ELSE {}

\* A call throws: an incident that was closed stays closed.
ResolverThrows(s) ==
    /\ resolver[s].pc # "idle"
    /\ resolver' = [resolver EXCEPT ![s] = IdleResolver]
    /\ cutOff' = cutOff \cup OwedResolution(s)
    /\ UNCHANGED <<world, trigger, store, firer, handler, failed, unfinished>>

-----------------------------------------------------------------------------
(* The user: markNotificationHandled and recordNotificationReceipts        *)

\* A receipt may come at any time, more than once, and after the handling.
RecordNotificationReceipt(n) ==
    /\ notice[n].type # "none"
    /\ notice' = [notice EXCEPT ![n] = [@ EXCEPT !.received = TRUE]]
    /\ UNCHANGED <<world, trigger, incident, incidentCount, noticeCount, tasks, aux>>

\* MUTANT: it does not look whether the notification exists.
MarkAnyHandled(h, n) ==
    /\ handler[h].pc = "idle"
    /\ notice' = [notice EXCEPT ![n] = [@ EXCEPT !.handled = TRUE, !.received = TRUE]]
    /\ handler' = [handler EXCEPT ![h] = [pc |-> "ack", notice |-> n]]
    /\ UNCHANGED <<world, trigger, incident, incidentCount, noticeCount, firer, resolver, aux>>

\* Handling a notification, for the first time or again, counts as its receipt.
MarkNotificationHandled(h, n) ==
    /\ handler[h].pc = "idle"
    /\ notice[n].type # "none"
    /\ notice' = [notice EXCEPT ![n] = [@ EXCEPT !.handled = TRUE, !.received = TRUE]]
    /\ handler' = [handler EXCEPT ![h] = [pc |-> "ack", notice |-> n]]
    /\ UNCHANGED <<world, trigger, incident, incidentCount, noticeCount, firer, resolver, aux>>

\* The incident, open or closed, is acknowledged.
AcknowledgeIncident(h) ==
    /\ handler[h].pc = "ack"
    /\ incident' = [incident EXCEPT ![notice[handler[h].notice].incident] =
            [@ EXCEPT !.acked = TRUE]]
    /\ handler' = [handler EXCEPT ![h] = [@ EXCEPT !.pc = "rest"]]
    /\ UNCHANGED <<world, trigger, incidentCount, notice, noticeCount, firer, resolver, aux>>

\* The other pending notifications of the incident a notification belongs to.
PendingWith(n) ==
    {m \in NoticeIds : /\ notice[m].type # "none"
                       /\ notice[m].incident = notice[n].incident
                       /\ ~notice[m].handled}

\* MUTANT: only notifications already received are handled with the chosen one.
HandleReceivedOnes(h) ==
    /\ handler[h].pc = "rest"
    /\ notice' = [m \in NoticeIds |->
                    IF m \in PendingWith(handler[h].notice) /\ notice[m].received
                    THEN [notice[m] EXCEPT !.handled = TRUE, !.received = TRUE]
                    ELSE notice[m]]
    /\ handler' = [handler EXCEPT ![h] = IdleHandler]
    /\ UNCHANGED <<world, trigger, incident, incidentCount, noticeCount, firer, resolver, aux>>

\* updateMany handles all of them.
HandleOthers(h) ==
    /\ handler[h].pc = "rest"
    /\ notice' = [m \in NoticeIds |->
                    IF m \in PendingWith(handler[h].notice)
                    THEN [notice[m] EXCEPT !.handled = TRUE, !.received = TRUE]
                    ELSE notice[m]]
    /\ handler' = [handler EXCEPT ![h] = IdleHandler]
    /\ unfinished' = unfinished \ {notice[handler[h].notice].incident}
    /\ UNCHANGED <<world, trigger, incident, incidentCount, noticeCount, firer, resolver,
                   failed, cutOff>>

\* The incidents whose handling ends with handler h, if it ends where it is.
Interrupted(h) ==
    IF handler[h].pc = "idle" THEN {} ELSE {notice[handler[h].notice].incident}

\* A call throws: the notification stays handled, the others may stay pending.
HandlerThrows(h) ==
    /\ handler[h].pc # "idle"
    /\ handler' = [handler EXCEPT ![h] = IdleHandler]
    /\ unfinished' = unfinished \cup Interrupted(h)
    /\ UNCHANGED <<world, trigger, store, firer, resolver, failed, cutOff>>

-----------------------------------------------------------------------------
(* The environment                                                         *)

Tick ==
    /\ clock < MaxTime
    /\ clock' = clock + 1
    /\ trigger' = [r \in Rules |-> Expire(trigger[r], clock + 1)]
    /\ UNCHANGED <<owned, flowDevice, restarts, store, tasks, aux>>

\* The flow is linked to another device, or to none.
RelinkFlow(d) ==
    /\ owned /\ d # flowDevice
    /\ flowDevice' = d
    /\ UNCHANGED <<clock, owned, restarts, trigger, store, tasks, aux>>

\* The flow is deleted. The removal of its rules and notifications is left out:
\* nothing is said of what a deleted flow's collections hold.
DeleteFlow ==
    /\ owned
    /\ owned' = FALSE
    /\ UNCHANGED <<clock, flowDevice, restarts, trigger, store, tasks, aux>>

\* What is owed and half done when all handlers end where they are.
RecordInterrupted ==
    /\ cutOff' = cutOff \cup (UNION {OwedAlert(f) : f \in Firers})
                         \cup (UNION {OwedResolution(s) : s \in Resolvers})
    /\ unfinished' = unfinished \cup (UNION {Interrupted(h) : h \in Handlers})
    /\ failed' = failed

\* MUTANT: the cache outlives the process.
RestartKeepsCache ==
    /\ restarts < MaxRestarts
    /\ restarts' = restarts + 1
    /\ firer' = [f \in Firers |-> IdleFirer]
    /\ resolver' = [s \in Resolvers |-> IdleResolver]
    /\ handler' = [h \in Handlers |-> IdleHandler]
    /\ RecordInterrupted
    /\ UNCHANGED <<clock, owned, flowDevice, trigger, store>>

\* The process stops: handlers in flight end where they are, the in-memory
\* cache is lost, the collections stay.
Restart ==
    /\ restarts < MaxRestarts
    /\ restarts' = restarts + 1
    /\ trigger' = [r \in Rules |-> NoTrigger]
    /\ firer' = [f \in Firers |-> IdleFirer]
    /\ resolver' = [s \in Resolvers |-> IdleResolver]
    /\ handler' = [h \in Handlers |-> IdleHandler]
    /\ RecordInterrupted
    /\ UNCHANGED <<clock, owned, flowDevice, store>>

FirerStep(f) ==
    \/ \E carried \in SUBSET Rules : \E hazard \in SUBSET carried :
            ProcessSensorReading(f, carried, hazard)
    \/ \E r \in Rules, at \in Bodies : TriggerAlert(f, r, at)
    \/ \E r \in Rules : ResetRuleTriggerState(f, r) \/ ReadTrigger(f, r)
    \/ SetTrigger(f)
    \/ FlowNotFound(f)
    \/ GetFlowNotificationDeviceId(f)
    \/ FindOpenIncident(f)
    \/ OpenNewIncident(f)
    \/ UpdateIncidentForAlert(f)
    \/ CreateAlert(f)
    \/ SendAlert(f)
    \/ FirerThrows(f)

ResolverStep(s) ==
    \/ \E r \in Rules, at \in Bodies : TriggerResolved(s, r, at)
    \/ ResolverFindsNoFlow(s)
    \/ ResolverReadsDevice(s)
    \/ ResolverFindsIncident(s)
    \/ CloseIncident(s)
    \/ CreateResolved(s)
    \/ ResolverThrows(s)

HandlerStep(h) ==
    \/ \E n \in NoticeIds : MarkNotificationHandled(h, n)
    \/ AcknowledgeIncident(h)
    \/ HandleOthers(h)
    \/ HandlerThrows(h)

Next ==
    \/ \E f \in Firers : FirerStep(f)
    \/ \E s \in Resolvers : ResolverStep(s)
    \/ \E h \in Handlers : HandlerStep(h)
    \/ \E n \in NoticeIds \cap Delivered : RecordNotificationReceipt(n)
    \/ Tick
    \/ \E d \in Devices : RelinkFlow(d)
    \/ DeleteFlow
    \/ Restart

Spec == Init /\ [][Next]_vars

-----------------------------------------------------------------------------
(* Properties                                                              *)

\* A firing for a rule and device that already have an open incident joins it
\* (findOpenIncident, fireAlertFromRule), so they never have two. It holds as
\* long as at most one firing is in flight, whatever resolvers, handlers,
\* relinked devices and restarts do meanwhile.
OneOpenIncident ==
    \A i, j \in IncidentIds :
        (/\ IsOpen(i) /\ IsOpen(j)
         /\ incident[i].rule = incident[j].rule
         /\ incident[i].device = incident[j].device) => i = j

\* Two alert notifications of one incident are at least the base cool-off apart
\* (shouldSendIncidentNotification), also when resolutions overwrite
\* last_notification_sent_at, callers send times of their own and the process
\* restarts; with at most one firing in flight.
CoolOffSpacing ==
    \A m, n \in NoticeIds :
        (/\ m # n /\ notice[m].type = "alert" /\ notice[n].type = "alert"
         /\ notice[m].incident = notice[n].incident)
        => \/ notice[m].sent + CoolOff <= notice[n].sent
           \/ notice[n].sent + CoolOff <= notice[m].sent

\* Handling one notification handles all that are pending for its incident
\* (markNotificationHandled): when no handler is under way, a pending notification
\* is newer than every handled one of its incident, unless a failed call or a
\* restart ended the handling half way and nobody handled the incident since.
NoOlderPending ==
    (\A h \in Handlers : handler[h].pc = "idle")
    => \A m, n \in NoticeIds :
        (/\ m < n /\ notice[n].handled /\ notice[m].type # "none"
         /\ notice[m].incident = notice[n].incident)
        => notice[m].handled \/ notice[n].incident \in unfinished

\* The gate mutes no rule without an incident to show for it (shouldTriggerRule
\* runs before the lookup), except after a failure: while the flow exists, an armed
\* trigger means that an incident of the rule exists, that a firing of it is still
\* on its way to one, or that a firing of it failed since the trigger was armed. A
\* restart loses the cache together with the firing.
GateHasIncident ==
    owned => \A r \in Rules : trigger[r].armed =>
        \/ \E i \in IncidentIds : incident[i].state # "none" /\ incident[i].rule = r
        \/ \E f \in Firers : firer[f].rule = r /\ firer[f].pc \in {"device", "find", "write"}
        \/ r \in failed

\* Every incident reaches the user (fireAlertFromRule, resolveIncidentFromRule):
\* one in the collection has an alert notification and a closed one also its
\* resolution, unless the handler that owes that very notification is still on
\* its way or was ended by a failed call or a restart before it stored it.
IncidentAnnounced ==
    \A i \in IncidentIds :
        /\ incident[i].state # "none" =>
            \/ \E n \in NoticeIds : notice[n].type = "alert" /\ notice[n].incident = i
            \/ \E f \in Firers : firer[f].pc = "notify" /\ firer[f].found = i
            \/ <<"alert", i>> \in cutOff
        /\ incident[i].state = "closed" =>
            \/ \E n \in NoticeIds : notice[n].type = "resolved" /\ notice[n].incident = i
            \/ \E s \in Resolvers : resolver[s].pc = "notify" /\ resolver[s].found = i
            \/ <<"resolved", i>> \in cutOff

\* The resolutions announced of an incident.
ResolutionsOf(i) == {n \in NoticeIds : notice[n].type = "resolved" /\ notice[n].incident = i}

\* Resolutions that overlap between the lookup and the save each close the
\* incident and each announce it (resolveIncidentFromRule), but no others: it is
\* announced as resolved at most as often as resolutions can be in flight at once,
\* once where they come one at a time.
ResolutionsBounded ==
    \A i \in IncidentIds : Cardinality(ResolutionsOf(i)) <= Cardinality(Resolvers)

-----------------------------------------------------------------------------
(* The refinement                                                          *)

IncidentView ==
    [i \in IncidentIds |-> [state |-> incident[i].state, rule |-> incident[i].rule,
                            device |-> incident[i].device, acked |-> incident[i].acked]]

Status(n) ==
    IF notice[n].handled /\ notice[n].received THEN "handled"
    ELSE IF notice[n].handled THEN "unreceived"
    ELSE IF notice[n].received THEN "received" ELSE "pending"

NoticeView ==
    [n \in NoticeIds |-> [type |-> notice[n].type, incident |-> notice[n].incident,
                          status |-> Status(n)]]

Ledger == INSTANCE IncidentLedger WITH incident <- IncidentView, notice <- NoticeView

\* The two collections are an incident ledger, for any number of concurrent
\* firers, resolvers and handlers and any restarts.
LedgerSpec == Ledger!Spec
================================================================================
