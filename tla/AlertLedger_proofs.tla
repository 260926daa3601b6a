--------------------------- MODULE AlertLedger_proofs ---------------------------
(***************************************************************************)
(* AlertPipeline implements IncidentLedger; what it leaves unannounced,    *)
(* unhandled or muted is what a failed call or a restart ended half way;   *)
(* and an incident is announced as resolved no more often than resolutions *)
(* overlap: for any number of concurrent firers, resolvers and handlers.   *)
(***************************************************************************)
EXTENDS AlertPipeline_proofs, FiniteSetTheorems

\* What the handlers in flight know of the collections, whatever the others do:
\* a resolution about to be stored has closed its incident, an alert about to be
\* stored has an incident, a handler has handled its notification.
HandlersKnow ==
    /\ \A f \in Firers : firer[f].pc = "notify" => firer[f].found # NoId
    /\ \A s \in Resolvers :
        /\ resolver[s].pc \in {"save", "notify"} => resolver[s].found # NoId
        /\ resolver[s].pc = "notify" => incident[resolver[s].found].state = "closed"
    /\ \A h \in Handlers : handler[h].pc \in {"ack", "rest"} =>
        /\ handler[h].notice # NoId
        /\ notice[handler[h].notice].handled

\* A notification belongs to an incident, and a handled one was received.
NoticesSound ==
    \A n \in NoticeIds : notice[n].type # "none" =>
        /\ notice[n].incident # NoId
        /\ notice[n].handled => notice[n].received

LedgerInv == HandlersKnow /\ NoticesSound

\* Incidents stay closed, notifications keep what they are and stay handled.
Monotone ==
    /\ \A i \in IncidentIds : incident[i].state = "closed" => incident'[i].state = "closed"
    /\ \A n \in NoticeIds : notice[n].type # "none" =>
        /\ notice'[n].type = notice[n].type /\ notice'[n].incident = notice[n].incident
        /\ notice[n].handled => notice'[n].handled

-----------------------------------------------------------------------------
(* The two views                                                           *)

LEMMA IncidentViewKept ==
    ASSUME \A i \in IncidentIds :
            /\ incident'[i].state = incident[i].state /\ incident'[i].rule = incident[i].rule
            /\ incident'[i].device = incident[i].device
            /\ incident'[i].acked = incident[i].acked
    PROVE  IncidentView' = IncidentView
BY DEF IncidentView

LEMMA NoticeViewKept ==
    ASSUME \A n \in NoticeIds :
            /\ notice'[n].type = notice[n].type /\ notice'[n].incident = notice[n].incident
            /\ notice'[n].handled = notice[n].handled
            /\ notice'[n].received = notice[n].received
    PROVE  NoticeView' = NoticeView
BY DEF NoticeView, Status

LEMMA IncidentViewChanged ==
    ASSUME NEW k \in IncidentIds, NEW rec,
           \A i \in IncidentIds \ {k} : incident'[i] = incident[i],
           IncidentView'[k] = rec
    PROVE  IncidentView' = [IncidentView EXCEPT ![k] = rec]
BY DEF IncidentView

LEMMA NoticeViewChanged ==
    ASSUME NEW k \in NoticeIds, NEW rec,
           \A n \in NoticeIds \ {k} : notice'[n] = notice[n],
           NoticeView'[k] = rec
    PROVE  NoticeView' = [NoticeView EXCEPT ![k] = rec]
<1>1. ASSUME NEW n \in NoticeIds \ {k} PROVE NoticeView'[n] = NoticeView[n]
  BY <1>1 DEF NoticeView, Status
<1>2. /\ NoticeView = [n \in NoticeIds |-> NoticeView[n]]
      /\ NoticeView' = [n \in NoticeIds |-> NoticeView'[n]]
  BY DEF NoticeView
<1> QED
  BY <1>1, <1>2

-----------------------------------------------------------------------------
(* Each step that touches a collection is a step of the ledger, or none    *)

LEMMA OpeningRefines ==
    ASSUME TypeOK, NEW f \in Firers, OpenNewIncident(f)
    PROVE  Ledger!Next
<1> DEFINE k == incidentCount + 1
<1>0. /\ incident' = [incident EXCEPT ![k] =
            [state |-> "open", rule |-> firer[f].rule, device |-> firer[f].device,
             opened |-> firer[f].at, last |-> firer[f].at, acked |-> FALSE]]
      /\ k \in IncidentIds /\ k > incidentCount
      /\ incident \in [IncidentIds -> Incident] /\ notice' = notice
      /\ firer[f].rule \in Rules /\ firer[f].device \in Devices
  BY Parts, FreeSlots DEF OpenNewIncident, CreateIncident, StoreOK, Firer
<1>1. incident[k].state = "none"
  BY <1>0, Parts DEF Filled
<1>2. \A i \in IncidentIds \ {k} : incident'[i] = incident[i]
  BY <1>0
<1>3. IncidentView'[k] = [state |-> "open", rule |-> firer[f].rule,
                          device |-> firer[f].device, acked |-> FALSE]
  BY <1>0 DEF IncidentView
<1> HIDE DEF k
<1>4. IncidentView' = [IncidentView EXCEPT ![k] =
        [state |-> "open", rule |-> firer[f].rule, device |-> firer[f].device,
         acked |-> FALSE]]
  BY <1>0, <1>2, <1>3, IncidentViewChanged
<1>5. NoticeView' = NoticeView /\ IncidentView[k].state = "none"
  BY <1>0, <1>1, NoticeViewKept DEF IncidentView
<1>6. Ledger!Open(k, firer[f].rule, firer[f].device)
  BY <1>4, <1>5 DEF Ledger!Open
<1> QED
  BY <1>0, <1>6 DEF Ledger!Next

LEMMA JoiningRefines ==
    ASSUME TypeOK, NEW f \in Firers, UpdateIncidentForAlert(f)
    PROVE  UNCHANGED <<IncidentView, NoticeView>>
<1>0. incident \in [IncidentIds -> Incident] /\ notice' = notice
  BY Parts DEF UpdateIncidentForAlert, StoreOK
<1>1. incident' = [incident EXCEPT ![firer[f].found] =
                      [incident[firer[f].found] EXCEPT !.last = firer[f].at]]
  BY <1>0 DEF UpdateIncidentForAlert
<1>2. ASSUME NEW i \in IncidentIds
      PROVE  /\ incident'[i].state = incident[i].state
             /\ incident'[i].rule = incident[i].rule
             /\ incident'[i].device = incident[i].device
             /\ incident'[i].acked = incident[i].acked
  BY <1>0, <1>1 DEF Incident
<1> QED
  BY <1>0, <1>2, IncidentViewKept, NoticeViewKept

\* A notification is stored for an incident that is there, a resolution for one
\* that is closed.
LEMMA NotifyingRefines ==
    ASSUME TypeOK, NEW type \in {"alert", "resolved"}, NEW i \in IncidentIds, NEW at,
           i <= incidentCount, type = "resolved" => incident[i].state = "closed",
           CreateNotice(type, i, at)
    PROVE  Ledger!Next
<1> DEFINE k == noticeCount + 1
<1>0. /\ notice' = [notice EXCEPT ![k] = [type |-> type, incident |-> i, sent |-> at,
                                          received |-> FALSE, handled |-> FALSE]]
      /\ k \in NoticeIds /\ k > noticeCount
      /\ notice \in [NoticeIds -> Notice] /\ incident' = incident
      /\ IncidentIds \subseteq Nat
  BY Parts, FreeSlots DEF CreateNotice, StoreOK
<1>1. notice[k].type = "none" /\ incident[i].state # "none"
  BY <1>0, Parts DEF Filled
<1>2. \A n \in NoticeIds \ {k} : notice'[n] = notice[n]
  BY <1>0
<1>3. NoticeView'[k] = [type |-> type, incident |-> i, status |-> "pending"]
  BY <1>0 DEF NoticeView, Status
<1> HIDE DEF k
<1>4. NoticeView' = [NoticeView EXCEPT ![k] =
                        [type |-> type, incident |-> i, status |-> "pending"]]
  BY <1>0, <1>2, <1>3, NoticeViewChanged
<1>5. /\ IncidentView' = IncidentView /\ NoticeView[k].type = "none"
      /\ IncidentView[i].state = incident[i].state
  BY <1>0, <1>1, IncidentViewKept DEF NoticeView, IncidentView
<1>6. Ledger!Notify(k, i, type)
  BY <1>1, <1>4, <1>5 DEF Ledger!Notify
<1> QED
  BY <1>0, <1>6 DEF Ledger!Next

LEMMA ClosingRefines ==
    ASSUME TypeOK, LedgerInv, NEW s \in Resolvers, CloseIncident(s)
    PROVE  Ledger!Next \/ UNCHANGED <<IncidentView, NoticeView>>
<1> DEFINE i == resolver[s].found
<1>0. /\ incident \in [IncidentIds -> Incident] /\ notice' = notice
      /\ i \in IncidentIds /\ i <= incidentCount
  BY Parts DEF CloseIncident, StoreOK, Resolver, LedgerInv, HandlersKnow
<1>1. incident' = [incident EXCEPT ![i] =
          [incident[i] EXCEPT !.state = "closed", !.last = resolver[s].at]]
  BY <1>0 DEF CloseIncident
<1> HIDE DEF i
<1>2. /\ incident'[i].state = "closed" /\ incident'[i].rule = incident[i].rule
      /\ incident'[i].device = incident[i].device
      /\ incident'[i].acked = incident[i].acked
      /\ \A j \in IncidentIds \ {i} : incident'[j] = incident[j]
  BY <1>0, <1>1 DEF Incident
<1>3. NoticeView' = NoticeView
  BY <1>0, NoticeViewKept
<1>4. CASE incident[i].state = "closed"
  <2>1. IncidentView' = IncidentView
    BY <1>2, <1>4, IncidentViewKept
  <2> QED
    BY <1>3, <2>1
<1>5. CASE incident[i].state # "closed"
  <2>1. incident[i].state = "open"
    BY <1>0, <1>5, Parts, FreeSlots DEF Filled, Incident
  <2>2. IncidentView'[i] = [IncidentView[i] EXCEPT !.state = "closed"]
    BY <1>0, <1>2 DEF IncidentView
  <2>3. IncidentView' = [IncidentView EXCEPT ![i] = [IncidentView[i] EXCEPT !.state = "closed"]]
    BY <1>0, <1>2, <2>2, IncidentViewChanged
  <2>4. IncidentView[i].state = "open"
    BY <1>0, <2>1 DEF IncidentView
  <2>5. Ledger!Close(i)
    BY <1>3, <2>3, <2>4 DEF Ledger!Close, IncidentView
  <2> QED
    BY <1>0, <2>5 DEF Ledger!Next
<1> QED
  BY <1>4, <1>5

LEMMA AcknowledgingRefines ==
    ASSUME TypeOK, LedgerInv, NEW h \in Handlers, AcknowledgeIncident(h)
    PROVE  Ledger!Next
<1> DEFINE n == handler[h].notice
           i == notice[n].incident
<1>0. /\ incident \in [IncidentIds -> Incident] /\ notice' = notice
      /\ n \in NoticeIds /\ n <= noticeCount /\ notice[n].handled
      /\ NoticeIds \subseteq Nat /\ noticeCount \in Nat
  BY Parts, FreeSlots DEF AcknowledgeIncident, StoreOK, Handler, IdleHandler, LedgerInv, HandlersKnow
<1>1. notice[n].type # "none"
  BY <1>0, Parts DEF Filled
<1>2. i \in IncidentIds /\ notice[n].received
  BY <1>0, <1>1, Parts DEF LedgerInv, NoticesSound, StoreOK, Notice
<1>3. incident' = [incident EXCEPT ![i] = [incident[i] EXCEPT !.acked = TRUE]]
  BY <1>0 DEF AcknowledgeIncident
<1>4. NoticeView[n].incident = i /\ NoticeView[n].status = "handled"
  BY <1>0, <1>2 DEF NoticeView, Status
<1> HIDE DEF i, n
<1>5. /\ incident'[i].state = incident[i].state /\ incident'[i].rule = incident[i].rule
      /\ incident'[i].device = incident[i].device /\ incident'[i].acked = TRUE
      /\ \A j \in IncidentIds \ {i} : incident'[j] = incident[j]
  BY <1>0, <1>2, <1>3 DEF Incident
<1>6. IncidentView'[i] = [IncidentView[i] EXCEPT !.acked = TRUE]
  <2> DEFINE yes == TRUE
             before == incident[i].acked
  <2>1. IncidentView'[i] = [state |-> incident[i].state, rule |-> incident[i].rule,
                            device |-> incident[i].device, acked |-> yes]
    BY <1>2, <1>5 DEF IncidentView
  <2>2. IncidentView[i] = [state |-> incident[i].state, rule |-> incident[i].rule,
                           device |-> incident[i].device, acked |-> before]
    BY <1>2 DEF IncidentView
  <2> HIDE DEF yes, before
  <2>3. IncidentView'[i] = [IncidentView[i] EXCEPT !.acked = yes]
    BY <2>1, <2>2
  <2> QED
    BY <2>3, Zenon DEF yes
<1>7. IncidentView' = [IncidentView EXCEPT ![i] = [IncidentView[i] EXCEPT !.acked = TRUE]]
  BY <1>2, <1>5, <1>6, IncidentViewChanged
<1>8. NoticeView' = NoticeView
  BY <1>0, NoticeViewKept
<1>9. Ledger!Acknowledge(i)
  BY <1>0, <1>4, <1>7, <1>8 DEF Ledger!Acknowledge, IncidentView
<1> QED
  BY <1>2, <1>9 DEF Ledger!Next

\* Handling notifications of one incident.
LEMMA HandlingRefines ==
    ASSUME TypeOK, LedgerInv, NEW i \in IncidentIds, NEW S \in SUBSET NoticeIds,
           \A n \in S : notice[n].type # "none" /\ notice[n].incident = i,
           incident' = incident,
           notice' = [n \in NoticeIds |->
                IF n \in S THEN [notice[n] EXCEPT !.handled = TRUE, !.received = TRUE]
                ELSE notice[n]]
    PROVE  Ledger!Next
<1>0. notice \in [NoticeIds -> Notice]
  BY Parts DEF StoreOK
<1>1. IncidentView' = IncidentView
  BY IncidentViewKept
<1>2. ASSUME NEW n \in NoticeIds
      PROVE  NoticeView'[n] = IF n \in S THEN [NoticeView[n] EXCEPT !.status = "handled"]
                              ELSE NoticeView[n]
  <2>1. CASE n \in S
    <3>1. notice'[n] = [notice[n] EXCEPT !.handled = TRUE, !.received = TRUE]
      BY <2>1
    <3>2. /\ notice'[n].handled /\ notice'[n].received
          /\ notice'[n].type = notice[n].type /\ notice'[n].incident = notice[n].incident
      BY <1>0, <3>1 DEF Notice
    <3> QED
      BY <2>1, <3>2 DEF NoticeView, Status
  <2>2. CASE n \notin S
    BY <2>2 DEF NoticeView, Status
  <2> QED
    BY <2>1, <2>2
<1>3. NoticeView' = [n \in NoticeIds |->
                        IF n \in S THEN [NoticeView[n] EXCEPT !.status = "handled"]
                        ELSE NoticeView[n]]
  BY <1>2 DEF NoticeView
<1>4. \A n \in S : NoticeView[n].type # "none" /\ NoticeView[n].incident = i
  BY DEF NoticeView
<1>5. Ledger!Handle(i, S)
  BY <1>1, <1>3, <1>4 DEF Ledger!Handle
<1> QED
  BY <1>5 DEF Ledger!Next

LEMMA ReceivingRefines ==
    ASSUME TypeOK, LedgerInv, NEW n \in NoticeIds, RecordNotificationReceipt(n)
    PROVE  Ledger!Next \/ UNCHANGED <<IncidentView, NoticeView>>
<1>0. /\ notice \in [NoticeIds -> Notice] /\ notice[n].type # "none"
      /\ notice' = [notice EXCEPT ![n] = [notice[n] EXCEPT !.received = TRUE]]
      /\ incident' = incident
  BY Parts DEF RecordNotificationReceipt, StoreOK
<1>1. /\ notice'[n].received /\ notice'[n].type = notice[n].type
      /\ notice'[n].incident = notice[n].incident
      /\ notice'[n].handled = notice[n].handled
      /\ \A m \in NoticeIds \ {n} : notice'[m] = notice[m]
  BY <1>0 DEF Notice
<1>2. IncidentView' = IncidentView
  BY <1>0, IncidentViewKept
<1>3. CASE notice[n].received
  <2>1. notice'[n].received = notice[n].received
    BY <1>0, <1>3 DEF Notice
  <2>2. NoticeView' = NoticeView
    BY <1>1, <2>1, NoticeViewKept
  <2> QED
    BY <1>2, <2>2
<1>4. CASE ~notice[n].received
  <2>1. ~notice[n].handled
    BY <1>0, <1>4 DEF LedgerInv, NoticesSound
  <2>2. NoticeView[n].status = "pending" /\ NoticeView[n].type # "none"
    BY <1>0, <1>4, <2>1 DEF NoticeView, Status
  <2>3. NoticeView'[n] = [NoticeView[n] EXCEPT !.status = "received"]
    BY <1>1, <2>1 DEF NoticeView, Status
  <2>4. NoticeView' = [NoticeView EXCEPT ![n] = [NoticeView[n] EXCEPT !.status = "received"]]
    BY <1>1, <2>3, NoticeViewChanged
  <2>5. Ledger!Receive(n)
    BY <1>2, <2>2, <2>4 DEF Ledger!Receive, NoticeView
  <2> QED
    BY <2>5 DEF Ledger!Next
<1> QED
  BY <1>3, <1>4

-----------------------------------------------------------------------------
(* LedgerInv is inductive                                                  *)

\* The steps that touch a collection.
LEMMA WhatWrites ==
    ASSUME [Next]_vars
    PROVE  \/ UNCHANGED <<incident, notice>>
           \/ \E f \in Firers :
                OpenNewIncident(f) \/ UpdateIncidentForAlert(f) \/ CreateAlert(f)
           \/ \E s \in Resolvers : CloseIncident(s) \/ CreateResolved(s)
           \/ \E h \in Handlers :
                \/ \E n \in NoticeIds : MarkNotificationHandled(h, n)
                \/ AcknowledgeIncident(h) \/ HandleOthers(h)
           \/ \E n \in NoticeIds : RecordNotificationReceipt(n)
<1>1. ASSUME NEW f \in Firers, FirerStep(f)
      PROVE  \/ UNCHANGED <<incident, notice>>
             \/ OpenNewIncident(f) \/ UpdateIncidentForAlert(f) \/ CreateAlert(f)
  BY <1>1 DEF FirerStep, ProcessSensorReading, TriggerAlert, ResetRuleTriggerState,
     ReadTrigger, SetTrigger, FlowNotFound, GetFlowNotificationDeviceId, FindOpenIncident,
     SendAlert, FirerThrows, store
<1>2. ASSUME NEW s \in Resolvers, ResolverStep(s)
      PROVE  UNCHANGED <<incident, notice>> \/ CloseIncident(s) \/ CreateResolved(s)
  BY <1>2 DEF ResolverStep, TriggerResolved, ResolverFindsNoFlow, ResolverThrows, ResolverReadsDevice, ResolverFindsIncident, store
<1>3. ASSUME NEW h \in Handlers, HandlerStep(h)
      PROVE  \/ UNCHANGED <<incident, notice>>
             \/ \E n \in NoticeIds : MarkNotificationHandled(h, n)
             \/ AcknowledgeIncident(h) \/ HandleOthers(h)
  BY <1>3 DEF HandlerStep, HandlerThrows, store
<1>4. CASE Tick \/ (\E d \in Devices : RelinkFlow(d)) \/ DeleteFlow \/ Restart \/ UNCHANGED vars
  BY <1>4 DEF Tick, RelinkFlow, DeleteFlow, Restart, vars, store
<1> QED
  BY <1>1, <1>2, <1>3, <1>4 DEF Next

\* A notification appended to the collection.
LEMMA Appending ==
    ASSUME TypeOK, LedgerInv, NEW type \in {"alert", "resolved"}, NEW i \in IncidentIds,
           NEW at, CreateNotice(type, i, at)
    PROVE  Monotone /\ NoticesSound'
<1> DEFINE k == noticeCount + 1
<1>1. /\ notice' = [notice EXCEPT ![k] = [type |-> type, incident |-> i, sent |-> at,
                                          received |-> FALSE, handled |-> FALSE]]
      /\ k \in NoticeIds /\ k > noticeCount
      /\ notice \in [NoticeIds -> Notice] /\ incident' = incident /\ i # NoId
  BY Parts, FreeSlots DEF CreateNotice, StoreOK
<1>2. notice[k].type = "none"
  BY <1>1, Parts DEF Filled
<1> HIDE DEF k
<1>3. ASSUME NEW n \in NoticeIds, n # k PROVE notice'[n] = notice[n]
  BY <1>1, <1>3
<1>4. notice'[k].incident = i /\ ~notice'[k].handled
  BY <1>1
<1>5. Monotone
  BY <1>1, <1>2, <1>3 DEF Monotone
<1>6. NoticesSound'
  BY <1>1, <1>3, <1>4 DEF NoticesSound, LedgerInv
<1> QED
  BY <1>5, <1>6

\* A step that changes the incidents but neither reopens one nor touches the
\* notifications.
LEMMA NotReopening ==
    ASSUME LedgerInv, notice' = notice,
           \A i \in IncidentIds : incident[i].state = "closed" => incident'[i].state = "closed"
    PROVE  Monotone /\ NoticesSound'
BY DEF Monotone, NoticesSound, LedgerInv

\* Notifications marked as received or handled.
LEMMA Marking ==
    ASSUME LedgerInv, incident' = incident,
           \A n \in NoticeIds :
               \/ notice'[n] = notice[n]
               \/ /\ notice'[n].type = notice[n].type
                  /\ notice'[n].incident = notice[n].incident
                  /\ notice[n].handled => notice'[n].handled
                  /\ notice'[n].received
    PROVE  Monotone /\ NoticesSound'
<1>1. Monotone
  BY DEF Monotone
<1>2. NoticesSound'
  BY DEF NoticesSound, LedgerInv
<1> QED
  BY <1>1, <1>2

LEMMA LedgerGrows ==
    ASSUME TypeOK, LedgerInv, [Next]_vars
    PROVE  Monotone /\ NoticesSound'
<1>0. /\ incident \in [IncidentIds -> Incident] /\ notice \in [NoticeIds -> Notice]
  BY Parts DEF StoreOK
<1>1. CASE UNCHANGED <<incident, notice>>
  BY <1>1, NotReopening
<1>2. ASSUME NEW f \in Firers, OpenNewIncident(f) PROVE Monotone /\ NoticesSound'
  <2> DEFINE new == [state |-> "open", rule |-> firer[f].rule, device |-> firer[f].device,
                     opened |-> firer[f].at, last |-> firer[f].at, acked |-> FALSE]
  <2>1. /\ notice' = notice /\ incidentCount + 1 \in IncidentIds
        /\ incidentCount + 1 > incidentCount
        /\ incident' = [incident EXCEPT ![incidentCount + 1] = new]
    BY <1>2, Parts, FreeSlots DEF OpenNewIncident, CreateIncident
  <2> HIDE DEF new
  <2>2. incident[incidentCount + 1].state = "none"
    BY <2>1, Parts DEF Filled
  <2> QED
    BY <1>0, <2>1, <2>2, NotReopening
<1>3. ASSUME NEW f \in Firers, UpdateIncidentForAlert(f) PROVE Monotone /\ NoticesSound'
  <2>1. /\ notice' = notice
        /\ incident' = [incident EXCEPT ![firer[f].found] =
                            [incident[firer[f].found] EXCEPT !.last = firer[f].at]]
    BY <1>0, <1>3 DEF UpdateIncidentForAlert
  <2>2. ASSUME NEW i \in IncidentIds PROVE incident'[i].state = incident[i].state
    BY <1>0, <2>1 DEF Incident
  <2> QED
    BY <2>1, <2>2, NotReopening
<1>4. ASSUME NEW f \in Firers, CreateAlert(f) PROVE Monotone /\ NoticesSound'
  <2>1. firer[f].found \in IncidentIds
    BY <1>4, Parts DEF CreateAlert, Firer, LedgerInv, HandlersKnow
  <2> QED
    BY <1>4, <2>1, Appending DEF CreateAlert
<1>5. ASSUME NEW s \in Resolvers, CloseIncident(s) PROVE Monotone /\ NoticesSound'
  <2>1. /\ notice' = notice
        /\ incident' = [incident EXCEPT ![resolver[s].found] =
             [incident[resolver[s].found] EXCEPT !.state = "closed", !.last = resolver[s].at]]
    BY <1>0, <1>5 DEF CloseIncident
  <2>2. ASSUME NEW i \in IncidentIds
        PROVE  incident'[i].state \in {incident[i].state, "closed"}
    BY <1>0, <2>1 DEF Incident
  <2> QED
    BY <2>1, <2>2, NotReopening
<1>6. ASSUME NEW s \in Resolvers, CreateResolved(s) PROVE Monotone /\ NoticesSound'
  <2>1. resolver[s].found \in IncidentIds
    BY <1>6, Parts DEF CreateResolved, Resolver, LedgerInv, HandlersKnow
  <2> QED
    BY <1>6, <2>1, Appending DEF CreateResolved
<1>7. ASSUME NEW h \in Handlers, NEW n \in NoticeIds, MarkNotificationHandled(h, n)
      PROVE  Monotone /\ NoticesSound'
  <2>1. /\ incident' = incident
        /\ notice' = [notice EXCEPT ![n] =
                        [notice[n] EXCEPT !.handled = TRUE, !.received = TRUE]]
    BY <1>0, <1>7 DEF MarkNotificationHandled
  <2>2. /\ notice'[n].type = notice[n].type /\ notice'[n].incident = notice[n].incident
        /\ notice'[n].handled /\ notice'[n].received
        /\ \A m \in NoticeIds \ {n} : notice'[m] = notice[m]
    BY <1>0, <2>1 DEF Notice
  <2> QED
    BY <2>1, <2>2, Marking
<1>8. ASSUME NEW h \in Handlers, AcknowledgeIncident(h) PROVE Monotone /\ NoticesSound'
  <2> DEFINE k == notice[handler[h].notice].incident
  <2>1. notice' = notice /\ incident' = [incident EXCEPT ![k] = [incident[k] EXCEPT !.acked = TRUE]]
    BY <1>0, <1>8 DEF AcknowledgeIncident
  <2> HIDE DEF k
  <2>2. ASSUME NEW i \in IncidentIds PROVE incident'[i].state = incident[i].state
    BY <1>0, <2>1 DEF Incident
  <2> QED
    BY <2>1, <2>2, NotReopening
<1>9. ASSUME NEW h \in Handlers, HandleOthers(h) PROVE Monotone /\ NoticesSound'
  <2> DEFINE S == PendingWith(handler[h].notice)
  <2>1. /\ incident' = incident
        /\ notice' = [n \in NoticeIds |->
                        IF n \in S
                        THEN [notice[n] EXCEPT !.handled = TRUE, !.received = TRUE]
                        ELSE notice[n]]
    BY <1>9 DEF HandleOthers
  <2> HIDE DEF S
  <2>2. ASSUME NEW n \in NoticeIds, n \in S
        PROVE  /\ notice'[n].type = notice[n].type
               /\ notice'[n].incident = notice[n].incident
               /\ notice'[n].handled /\ notice'[n].received
    <3>1. notice'[n] = [notice[n] EXCEPT !.handled = TRUE, !.received = TRUE]
      BY <2>1, <2>2
    <3> QED
      BY <1>0, <3>1 DEF Notice
  <2>3. ASSUME NEW n \in NoticeIds, n \notin S PROVE notice'[n] = notice[n]
    BY <2>1, <2>3
  <2> QED
    BY <2>1, <2>2, <2>3, Marking
<1>10. ASSUME NEW n \in NoticeIds, RecordNotificationReceipt(n)
       PROVE  Monotone /\ NoticesSound'
  <2>1. /\ incident' = incident
        /\ notice' = [notice EXCEPT ![n] = [notice[n] EXCEPT !.received = TRUE]]
    BY <1>0, <1>10 DEF RecordNotificationReceipt
  <2>2. /\ notice'[n].type = notice[n].type /\ notice'[n].incident = notice[n].incident
        /\ notice'[n].handled = notice[n].handled /\ notice'[n].received
        /\ \A m \in NoticeIds \ {n} : notice'[m] = notice[m]
    BY <1>0, <2>1 DEF Notice
  <2> QED
    BY <2>1, <2>2, Marking
<1> QED
  BY <1>1, <1>2, <1>3, <1>4, <1>5, <1>6, <1>7, <1>8, <1>9, <1>10, WhatWrites

LEMMA FirersKnow ==
    ASSUME TypeOK, LedgerInv, [Next]_vars, NEW f \in Firers, firer'[f].pc = "notify"
    PROVE  firer'[f].found # NoId
<1>0. firer \in [Firers -> Firer] /\ incidentCount \in Nat
  BY Parts DEF TasksOK
<1>1. CASE firer'[f] = firer[f]
  BY <1>1 DEF LedgerInv, HandlersKnow
<1>2. CASE OpenNewIncident(f)
  <2>1. firer'[f] = [firer[f] EXCEPT !.pc = "notify", !.found = incidentCount + 1,
                                     !.device = AnyDevice]
    BY <1>0, <1>2 DEF OpenNewIncident
  <2>2. firer'[f].found = incidentCount + 1
    BY <1>0, <2>1 DEF Firer
  <2> QED
    BY <1>0, <2>2 DEF NoId
<1>3. CASE UpdateIncidentForAlert(f)
  <2>1. firer'[f] = [firer[f] EXCEPT !.pc = "notify", !.device = AnyDevice]
    BY <1>0, <1>3 DEF UpdateIncidentForAlert
  <2>2. firer'[f].found = firer[f].found
    BY <1>0, <2>1 DEF Firer
  <2> QED
    BY <1>3, <2>2 DEF UpdateIncidentForAlert
<1> QED
  BY <1>1, <1>2, <1>3, HoldersFollowLookups

LEMMA ResolversKnow ==
    ASSUME TypeOK, LedgerInv, [Next]_vars, NEW s \in Resolvers
    PROVE  /\ resolver'[s].pc \in {"save", "notify"} => resolver'[s].found # NoId
           /\ resolver'[s].pc = "notify" => incident'[resolver'[s].found].state = "closed"
<1>0. /\ resolver \in [Resolvers -> Resolver] /\ resolver[s] \in Resolver
      /\ incident \in [IncidentIds -> Incident] /\ Monotone
  BY Parts, LedgerGrows DEF TasksOK, StoreOK
<1>1. CASE resolver'[s] = resolver[s]
  <2>1. resolver[s].pc = "notify" => resolver[s].found \in IncidentIds
    BY <1>0 DEF LedgerInv, HandlersKnow, Resolver
  <2> QED
    BY <1>0, <1>1, <2>1 DEF LedgerInv, HandlersKnow, Monotone
<1>2. CASE resolver'[s].pc \notin {"save", "notify"}
  BY <1>2
<1>3. ASSUME NEW t \in Resolvers, ResolverStep(t), t # s PROVE resolver'[s] = resolver[s]
  <2>1. \E next : resolver' = [resolver EXCEPT ![t] = next]
    BY <1>3 DEF ResolverStep, TriggerResolved, ResolverFindsNoFlow, ResolverThrows, ResolverReadsDevice, ResolverFindsIncident,
       CloseIncident, CreateResolved
  <2> QED
    BY <1>0, <1>3, <2>1
<1>4. CASE \/ \E r \in Rules, at \in Bodies : TriggerResolved(s, r, at)
           \/ ResolverReadsDevice(s) \/ CreateResolved(s)
           \/ ResolverFindsNoFlow(s) \/ ResolverThrows(s)
  <2>1. ASSUME NEW r \in Rules, NEW at \in Bodies, TriggerResolved(s, r, at)
        PROVE  resolver'[s].pc = "device"
    BY <1>0, <2>1 DEF TriggerResolved, IdleResolver
  <2>2. CASE ResolverReadsDevice(s)
    <3>1. resolver'[s] = [resolver[s] EXCEPT !.pc = "find", !.device = flowDevice]
      BY <1>0, <2>2 DEF ResolverReadsDevice
    <3> QED
      BY <1>0, <1>2, <3>1 DEF Resolver
  <2>3. CASE CreateResolved(s) \/ ResolverFindsNoFlow(s) \/ ResolverThrows(s)
    BY <1>0, <1>2, <2>3 DEF CreateResolved, ResolverFindsNoFlow, ResolverThrows, IdleResolver
  <2> QED
    BY <1>2, <1>4, <2>1, <2>2, <2>3
<1>5. CASE ResolverFindsIncident(s)
  <2>1. PICK i \in IncidentIds \cup {NoId} :
            resolver' = [resolver EXCEPT ![s] =
                IF i = NoId THEN IdleResolver
                ELSE [resolver[s] EXCEPT !.pc = "save", !.found = i]]
    BY <1>0, <1>5 DEF ResolverFindsIncident
  <2>2. CASE i = NoId
    BY <1>0, <1>2, <2>1, <2>2 DEF IdleResolver
  <2>3. CASE i # NoId
    <3>1. resolver'[s] = [resolver[s] EXCEPT !.pc = "save", !.found = i]
      BY <1>0, <2>1, <2>3
    <3> QED
      BY <1>0, <2>3, <3>1 DEF Resolver
  <2> QED
    BY <2>2, <2>3
<1>6. CASE CloseIncident(s)
  <2>1. resolver'[s] = [resolver[s] EXCEPT !.pc = "notify", !.device = AnyDevice]
    BY <1>0, <1>6 DEF CloseIncident
  <2>2. resolver'[s].found = resolver[s].found
    BY <1>0, <2>1 DEF Resolver
  <2>3. resolver[s].found # NoId /\ resolver[s].found \in IncidentIds
    BY <1>0, <1>6 DEF CloseIncident, LedgerInv, HandlersKnow, Resolver
  <2>4. incident'[resolver[s].found] = [incident[resolver[s].found] EXCEPT
            !.state = "closed", !.last = resolver[s].at]
    BY <1>0, <1>6, <2>3 DEF CloseIncident
  <2>5. incident'[resolver[s].found].state = "closed"
    BY <1>0, <2>3, <2>4 DEF Incident
  <2> QED
    BY <2>2, <2>3, <2>5
<1>7. CASE Restart
  BY <1>0, <1>2, <1>7 DEF Restart, IdleResolver
<1>8. CASE \/ \E f \in Firers : FirerStep(f)
           \/ \E h \in Handlers : HandlerStep(h)
           \/ \E n \in NoticeIds : RecordNotificationReceipt(n)
           \/ Tick \/ (\E d \in Devices : RelinkFlow(d)) \/ DeleteFlow \/ UNCHANGED vars
  <2>1. resolver' = resolver
    BY <1>8 DEF FirerStep, ProcessSensorReading, TriggerAlert, ResetRuleTriggerState,
       ReadTrigger, SetTrigger, FlowNotFound, GetFlowNotificationDeviceId, FindOpenIncident,
       OpenNewIncident, UpdateIncidentForAlert, CreateAlert, SendAlert, FirerThrows,
       HandlerStep, HandlerThrows, MarkNotificationHandled, AcknowledgeIncident, HandleOthers,
       RecordNotificationReceipt, Tick, RelinkFlow, DeleteFlow, vars, tasks
  <2> QED
    BY <1>1, <2>1
<1> QED
  BY <1>1, <1>3, <1>4, <1>5, <1>6, <1>7, <1>8 DEF Next, ResolverStep

LEMMA HandlersKnowTheirs ==
    ASSUME TypeOK, LedgerInv, [Next]_vars, NEW h \in Handlers,
           handler'[h].pc \in {"ack", "rest"}
    PROVE  handler'[h].notice # NoId /\ notice'[handler'[h].notice].handled
<1>0. /\ handler \in [Handlers -> Handler] /\ handler[h] \in Handler
      /\ notice \in [NoticeIds -> Notice] /\ Monotone
  BY Parts, LedgerGrows DEF TasksOK, StoreOK
<1>1. ASSUME handler[h].pc \in {"ack", "rest"}, handler'[h].notice = handler[h].notice
      PROVE  handler'[h].notice # NoId /\ notice'[handler'[h].notice].handled
  <2>1. /\ handler[h].notice \in NoticeIds /\ notice[handler[h].notice].handled
        /\ handler[h].notice # NoId
    BY <1>0, <1>1 DEF LedgerInv, HandlersKnow, Handler, IdleHandler
  <2>2. notice[handler[h].notice].type # "none"
    BY <2>1, Parts, FreeSlots DEF Filled
  <2> QED
    BY <1>0, <1>1, <2>1, <2>2 DEF Monotone
<1>2. CASE handler'[h] = handler[h]
  BY <1>1, <1>2
<1>3. ASSUME NEW g \in Handlers, HandlerStep(g), g # h PROVE handler'[h] = handler[h]
  <2>1. \E next : handler' = [handler EXCEPT ![g] = next]
    BY <1>3 DEF HandlerStep, HandlerThrows, MarkNotificationHandled, AcknowledgeIncident, HandleOthers
  <2> QED
    BY <1>0, <1>3, <2>1
<1>4. ASSUME NEW n \in NoticeIds, MarkNotificationHandled(h, n)
      PROVE  handler'[h].notice # NoId /\ notice'[handler'[h].notice].handled
  <2>1. handler'[h] = [pc |-> "ack", notice |-> n] /\ n # NoId
    BY <1>0, <1>4, FreeSlots, Parts DEF MarkNotificationHandled
  <2>2. notice'[n] = [notice[n] EXCEPT !.handled = TRUE, !.received = TRUE]
    BY <1>0, <1>4 DEF MarkNotificationHandled
  <2>3. notice'[n].handled
    BY <1>0, <2>2 DEF Notice
  <2> QED
    BY <2>1, <2>3
<1>5. CASE AcknowledgeIncident(h)
  <2>1. handler'[h] = [handler[h] EXCEPT !.pc = "rest"] /\ handler[h].pc = "ack"
    BY <1>0, <1>5 DEF AcknowledgeIncident
  <2>2. handler'[h].notice = handler[h].notice
    BY <1>0, <2>1 DEF Handler
  <2> QED
    BY <1>1, <2>1, <2>2
<1>6. CASE HandleOthers(h) \/ HandlerThrows(h) \/ Restart
  <2>1. handler'[h] = IdleHandler
    BY <1>0, <1>6 DEF HandleOthers, HandlerThrows, Restart
  <2> QED
    BY <2>1 DEF IdleHandler
<1>7. CASE \/ \E f \in Firers : FirerStep(f)
           \/ \E s \in Resolvers : ResolverStep(s)
           \/ \E n \in NoticeIds : RecordNotificationReceipt(n)
           \/ Tick \/ (\E d \in Devices : RelinkFlow(d)) \/ DeleteFlow \/ UNCHANGED vars
  <2>1. handler' = handler
    BY <1>7 DEF FirerStep, ProcessSensorReading, TriggerAlert, ResetRuleTriggerState,
       ReadTrigger, SetTrigger, FlowNotFound, GetFlowNotificationDeviceId, FindOpenIncident,
       OpenNewIncident, UpdateIncidentForAlert, CreateAlert, SendAlert, FirerThrows,
       ResolverStep, TriggerResolved, ResolverFindsNoFlow, ResolverThrows, ResolverReadsDevice, ResolverFindsIncident,
       CloseIncident, CreateResolved,
       RecordNotificationReceipt, Tick, RelinkFlow, DeleteFlow, vars, tasks
  <2> QED
    BY <1>2, <2>1
<1> QED
  BY <1>2, <1>3, <1>4, <1>5, <1>6, <1>7 DEF Next, HandlerStep

LEMMA LedgerInvInit == Init => LedgerInv
BY DEF Init, LedgerInv, HandlersKnow, NoticesSound, IdleFirer, IdleResolver, IdleHandler,
   NoNotice

LEMMA LedgerInvNext == TypeOK /\ LedgerInv /\ [Next]_vars => LedgerInv'
<1> SUFFICES ASSUME TypeOK, LedgerInv, [Next]_vars PROVE LedgerInv'
  OBVIOUS
<1>1. NoticesSound'
  BY LedgerGrows
<1>2. HandlersKnow'
  BY FirersKnow, ResolversKnow, HandlersKnowTheirs DEF HandlersKnow
<1> QED
  BY <1>1, <1>2 DEF LedgerInv

-----------------------------------------------------------------------------
(* The refinement                                                          *)

LEMMA RefinesInit == Init => Ledger!Init
<1> SUFFICES ASSUME Init PROVE Ledger!Init
  OBVIOUS
<1>1. ASSUME NEW i \in IncidentIds
      PROVE  IncidentView[i].state = "none" /\ ~IncidentView[i].acked
  <2>1. incident[i].state = "none" /\ ~incident[i].acked
    BY DEF Init, NoIncident
  <2> QED
    BY <2>1 DEF IncidentView
<1>2. ASSUME NEW n \in NoticeIds
      PROVE  NoticeView[n].type = "none" /\ NoticeView[n].status = "pending"
  <2>1. notice[n].type = "none" /\ ~notice[n].handled /\ ~notice[n].received
    BY DEF Init, NoNotice
  <2> QED
    BY <2>1 DEF NoticeView, Status
<1> QED
  BY <1>1, <1>2 DEF Ledger!Init

LEMMA RefinesNext == TypeOK /\ LedgerInv /\ [Next]_vars => [Ledger!Next]_(Ledger!vars)
<1> SUFFICES ASSUME TypeOK, LedgerInv, [Next]_vars
             PROVE  Ledger!Next \/ UNCHANGED <<IncidentView, NoticeView>>
  BY DEF Ledger!vars
<1>1. CASE UNCHANGED <<incident, notice>>
  BY <1>1, IncidentViewKept, NoticeViewKept
<1>2. ASSUME NEW f \in Firers, CreateAlert(f) PROVE Ledger!Next
  <2>1. firer[f].found \in IncidentIds /\ firer[f].found <= incidentCount
    BY <1>2, Parts DEF CreateAlert, Firer, LedgerInv, HandlersKnow
  <2> QED
    BY <1>2, <2>1, NotifyingRefines DEF CreateAlert
<1>3. ASSUME NEW s \in Resolvers, CreateResolved(s) PROVE Ledger!Next
  <2>1. /\ resolver[s].found \in IncidentIds /\ resolver[s].found <= incidentCount
        /\ incident[resolver[s].found].state = "closed"
    BY <1>3, Parts DEF CreateResolved, Resolver, LedgerInv, HandlersKnow
  <2> QED
    BY <1>3, <2>1, NotifyingRefines DEF CreateResolved
<1>4. ASSUME NEW h \in Handlers, NEW n \in NoticeIds, MarkNotificationHandled(h, n)
      PROVE  Ledger!Next
  <2>1. /\ notice[n].type # "none" /\ incident' = incident
        /\ notice \in [NoticeIds -> Notice]
        /\ notice' = [notice EXCEPT ![n] =
                        [notice[n] EXCEPT !.handled = TRUE, !.received = TRUE]]
    BY <1>4, Parts DEF MarkNotificationHandled, StoreOK
  <2>2. notice' = [m \in NoticeIds |->
            IF m \in {n} THEN [notice[m] EXCEPT !.handled = TRUE, !.received = TRUE]
            ELSE notice[m]]
    BY <2>1
  <2>3. notice[n].incident \in IncidentIds
    BY <2>1 DEF LedgerInv, NoticesSound, Notice
  <2>4. /\ {n} \in SUBSET NoticeIds
        /\ \A m \in {n} :
              notice[m].type # "none" /\ notice[m].incident = notice[n].incident
    BY <2>1
  <2> QED
    BY <2>1, <2>2, <2>3, <2>4, HandlingRefines
<1>5. ASSUME NEW h \in Handlers, HandleOthers(h) PROVE Ledger!Next
  <2> DEFINE n == handler[h].notice
  <2>0. n \in NoticeIds /\ n \in 0 .. noticeCount
    <3>1. handler[h] \in Handler /\ handler[h].pc = "rest" /\ handler[h].notice <= noticeCount
      BY <1>5, Parts DEF HandleOthers, TasksOK, Located
    <3>2. handler[h].notice \in NoticeIds
      BY <3>1 DEF Handler, IdleHandler
    <3> QED
      BY <3>1, <3>2, Parts DEF StoreOK, NoticeIds
  <2>1. n <= noticeCount /\ notice \in [NoticeIds -> Notice] /\ noticeCount \in Nat
    BY <2>0, Parts DEF StoreOK
  <2>2. notice[n].incident \in IncidentIds
    BY <2>0, <2>1, Parts, FreeSlots DEF Filled, LedgerInv, NoticesSound, Notice
  <2>3. /\ PendingWith(n) \in SUBSET NoticeIds
        /\ \A m \in PendingWith(n) :
              notice[m].type # "none" /\ notice[m].incident = notice[n].incident
    BY DEF PendingWith
  <2>4. /\ incident' = incident
        /\ notice' = [m \in NoticeIds |->
                        IF m \in PendingWith(n)
                        THEN [notice[m] EXCEPT !.handled = TRUE, !.received = TRUE]
                        ELSE notice[m]]
    BY <1>5 DEF HandleOthers
  <2> HIDE DEF n
  <2> QED
    BY <2>2, <2>3, <2>4, HandlingRefines
<1> QED
  BY <1>1, <1>2, <1>3, <1>4, <1>5, WhatWrites, OpeningRefines, JoiningRefines,
     ClosingRefines, AcknowledgingRefines, ReceivingRefines

\* Whatever readings, internal triggers, resolutions, answers and receipts
\* interleave, in any number, and whatever restarts cut them off, the two
\* collections change only as the incident ledger allows.
THEOREM PipelineIsLedger == Spec => LedgerSpec
<1>1. Spec => [](TypeOK /\ LedgerInv)
  BY TypeCorrect, LedgerInvInit, LedgerInvNext, PTL DEF Spec
<1> QED
  BY <1>1, RefinesInit, RefinesNext, PTL DEF Spec, LedgerSpec, Ledger!Spec

-----------------------------------------------------------------------------
(* Who moves, and what becomes of an incident and a notification           *)

\* A handler in flight moves by its own steps, or is cut off by a restart.
LEMMA FirersMoveThemselves ==
    ASSUME TypeOK, [Next]_vars, NEW f \in Firers
    PROVE  firer'[f] = firer[f] \/ FirerStep(f) \/ Restart
<1>0. firer \in [Firers -> Firer]
  BY Parts DEF TasksOK
<1>1. ASSUME NEW g \in Firers, FirerStep(g), g # f PROVE firer'[f] = firer[f]
  <2>1. \E next : firer' = [firer EXCEPT ![g] = next]
    BY <1>1 DEF FirerStep, ProcessSensorReading, TriggerAlert, ResetRuleTriggerState,
       ReadTrigger, SetTrigger, FlowNotFound, GetFlowNotificationDeviceId, FindOpenIncident,
       OpenNewIncident, UpdateIncidentForAlert,
       CreateAlert, SendAlert, FirerThrows, NextRule
  <2> QED
    BY <1>0, <1>1, <2>1
<1>2. CASE \/ \E s \in Resolvers : ResolverStep(s)
           \/ \E h \in Handlers : HandlerStep(h)
           \/ \E n \in NoticeIds : RecordNotificationReceipt(n)
           \/ Tick \/ (\E d \in Devices : RelinkFlow(d)) \/ DeleteFlow \/ UNCHANGED vars
  BY <1>2 DEF ResolverStep, TriggerResolved, ResolverFindsNoFlow, ResolverThrows, ResolverReadsDevice, ResolverFindsIncident,
     CloseIncident, CreateResolved, HandlerStep, HandlerThrows, MarkNotificationHandled,
     AcknowledgeIncident, HandleOthers, RecordNotificationReceipt, Tick, RelinkFlow, DeleteFlow,
     vars, tasks
<1> QED
  BY <1>1, <1>2 DEF Next

LEMMA ResolversMoveThemselves ==
    ASSUME TypeOK, [Next]_vars, NEW s \in Resolvers
    PROVE  resolver'[s] = resolver[s] \/ ResolverStep(s) \/ Restart
<1>0. resolver \in [Resolvers -> Resolver]
  BY Parts DEF TasksOK
<1>1. ASSUME NEW t \in Resolvers, ResolverStep(t), t # s PROVE resolver'[s] = resolver[s]
  <2>1. \E next : resolver' = [resolver EXCEPT ![t] = next]
    BY <1>1 DEF ResolverStep, TriggerResolved, ResolverFindsNoFlow, ResolverThrows, ResolverReadsDevice, ResolverFindsIncident,
       CloseIncident, CreateResolved
  <2> QED
    BY <1>0, <1>1, <2>1
<1>2. CASE \/ \E f \in Firers : FirerStep(f)
           \/ \E h \in Handlers : HandlerStep(h)
           \/ \E n \in NoticeIds : RecordNotificationReceipt(n)
           \/ Tick \/ (\E d \in Devices : RelinkFlow(d)) \/ DeleteFlow \/ UNCHANGED vars
  BY <1>2 DEF FirerStep, ProcessSensorReading, TriggerAlert, ResetRuleTriggerState,
     ReadTrigger, SetTrigger, FlowNotFound, GetFlowNotificationDeviceId, FindOpenIncident,
     OpenNewIncident, UpdateIncidentForAlert, CreateAlert, SendAlert, FirerThrows,
     HandlerStep, HandlerThrows, MarkNotificationHandled, AcknowledgeIncident, HandleOthers,
     RecordNotificationReceipt, Tick, RelinkFlow, DeleteFlow, vars, tasks
<1> QED
  BY <1>1, <1>2 DEF Next

LEMMA HandlersMoveThemselves ==
    ASSUME TypeOK, [Next]_vars, NEW h \in Handlers
    PROVE  handler'[h] = handler[h] \/ HandlerStep(h) \/ Restart
<1>0. handler \in [Handlers -> Handler]
  BY Parts DEF TasksOK
<1>1. ASSUME NEW g \in Handlers, HandlerStep(g), g # h PROVE handler'[h] = handler[h]
  <2>1. \E next : handler' = [handler EXCEPT ![g] = next]
    BY <1>1 DEF HandlerStep, HandlerThrows, MarkNotificationHandled, AcknowledgeIncident, HandleOthers
  <2> QED
    BY <1>0, <1>1, <2>1
<1>2. CASE \/ \E f \in Firers : FirerStep(f)
           \/ \E s \in Resolvers : ResolverStep(s)
           \/ \E n \in NoticeIds : RecordNotificationReceipt(n)
           \/ Tick \/ (\E d \in Devices : RelinkFlow(d)) \/ DeleteFlow \/ UNCHANGED vars
  BY <1>2 DEF FirerStep, ProcessSensorReading, TriggerAlert, ResetRuleTriggerState,
     ReadTrigger, SetTrigger, FlowNotFound, GetFlowNotificationDeviceId, FindOpenIncident,
     OpenNewIncident, UpdateIncidentForAlert, CreateAlert, SendAlert, FirerThrows,
     ResolverStep, TriggerResolved, ResolverFindsNoFlow, ResolverThrows, ResolverReadsDevice, ResolverFindsIncident,
     CloseIncident, CreateResolved,
     RecordNotificationReceipt, Tick, RelinkFlow, DeleteFlow, vars, tasks
<1> QED
  BY <1>1, <1>2 DEF Next

\* An incident keeps its rule and its state, is opened, or is closed.
LEMMA WhatIncidentsBecome ==
    ASSUME TypeOK, [Next]_vars, NEW i \in IncidentIds
    PROVE  \/ incident'[i].state = incident[i].state /\ incident'[i].rule = incident[i].rule
           \/ \E f \in Firers :
                /\ OpenNewIncident(f) /\ i = incidentCount + 1
                /\ incident[i].state = "none"
                /\ incident'[i].state = "open" /\ incident'[i].rule = firer[f].rule
           \/ \E s \in Resolvers :
                /\ CloseIncident(s) /\ i = resolver[s].found
                /\ incident'[i].state = "closed" /\ incident'[i].rule = incident[i].rule
<1> DEFINE Kept == incident'[i].state = incident[i].state /\ incident'[i].rule = incident[i].rule
<1>0. incident \in [IncidentIds -> Incident]
  BY Parts DEF StoreOK
<1>1. CASE incident' = incident
  BY <1>1
<1>2. ASSUME NEW f \in Firers, OpenNewIncident(f)
      PROVE  Kept \/ /\ i = incidentCount + 1 /\ incident[i].state = "none"
                     /\ incident'[i].state = "open" /\ incident'[i].rule = firer[f].rule
  <2> DEFINE new == [state |-> "open", rule |-> firer[f].rule, device |-> firer[f].device,
                     opened |-> firer[f].at, last |-> firer[f].at, acked |-> FALSE]
  <2>1. /\ incidentCount + 1 \in IncidentIds /\ incidentCount + 1 > incidentCount
        /\ incident' = [incident EXCEPT ![incidentCount + 1] = new]
    BY <1>2, Parts, FreeSlots DEF OpenNewIncident, CreateIncident
  <2>2. incident[incidentCount + 1].state = "none"
    BY <2>1, Parts DEF Filled
  <2> QED
    BY <1>0, <2>1, <2>2
<1>3. ASSUME NEW f \in Firers, UpdateIncidentForAlert(f) PROVE Kept
  <2>1. incident' = [incident EXCEPT ![firer[f].found] =
                        [incident[firer[f].found] EXCEPT !.last = firer[f].at]]
    BY <1>0, <1>3 DEF UpdateIncidentForAlert
  <2> QED
    BY <1>0, <2>1 DEF Incident
<1>4. ASSUME NEW s \in Resolvers, CloseIncident(s)
      PROVE  Kept \/ /\ i = resolver[s].found
                     /\ incident'[i].state = "closed" /\ incident'[i].rule = incident[i].rule
  <2>1. incident' = [incident EXCEPT ![resolver[s].found] =
          [incident[resolver[s].found] EXCEPT !.state = "closed", !.last = resolver[s].at]]
    BY <1>0, <1>4 DEF CloseIncident
  <2> QED
    BY <1>0, <2>1 DEF Incident
<1>5. ASSUME NEW h \in Handlers, AcknowledgeIncident(h) PROVE Kept
  <2> DEFINE k == notice[handler[h].notice].incident
  <2>1. incident' = [incident EXCEPT ![k] = [incident[k] EXCEPT !.acked = TRUE]]
    BY <1>0, <1>5 DEF AcknowledgeIncident
  <2> HIDE DEF k
  <2> QED
    BY <1>0, <2>1 DEF Incident
<1>6. CASE \/ \E f \in Firers : CreateAlert(f)
           \/ \E s \in Resolvers : CreateResolved(s)
           \/ \E h \in Handlers :
                (\E n \in NoticeIds : MarkNotificationHandled(h, n)) \/ HandleOthers(h)
           \/ \E n \in NoticeIds : RecordNotificationReceipt(n)
  <2>1. incident' = incident
    BY <1>6 DEF CreateAlert, CreateResolved, CreateNotice, MarkNotificationHandled,
       HandleOthers, RecordNotificationReceipt
  <2> QED
    BY <1>1, <2>1
<1> QED
  BY <1>1, <1>2, <1>3, <1>4, <1>5, <1>6, WhatWrites

\* A notification is stored with what its handler holds.
LEMMA Stored ==
    ASSUME TypeOK, NEW type \in {"alert", "resolved"}, NEW i, NEW at,
           CreateNotice(type, i, at), NEW n \in NoticeIds
    PROVE  \/ notice'[n] = notice[n]
           \/ /\ notice[n].type = "none" /\ notice'[n].type = type
              /\ notice'[n].incident = i /\ ~notice'[n].handled
<1> DEFINE k == noticeCount + 1
<1>1. /\ notice' = [notice EXCEPT ![k] = [type |-> type, incident |-> i, sent |-> at,
                                          received |-> FALSE, handled |-> FALSE]]
      /\ k \in NoticeIds /\ k > noticeCount /\ notice \in [NoticeIds -> Notice]
  BY Parts, FreeSlots DEF CreateNotice, StoreOK
<1>2. notice[k].type = "none"
  BY <1>1, Parts DEF Filled
<1> HIDE DEF k
<1> QED
  BY <1>1, <1>2

\* A notification stays what it is and is handled by an answer, or it is new.
LEMMA WhatNoticesBecome ==
    ASSUME TypeOK, [Next]_vars, NEW n \in NoticeIds
    PROVE  \/ /\ notice'[n].type = notice[n].type
              /\ notice'[n].incident = notice[n].incident
              /\ \/ notice'[n].handled = notice[n].handled
                 \/ \E h \in Handlers :
                        \/ MarkNotificationHandled(h, n)
                        \/ HandleOthers(h) /\ n \in PendingWith(handler[h].notice)
           \/ \E f \in Firers :
                /\ CreateAlert(f) /\ notice[n].type = "none" /\ notice'[n].type = "alert"
                /\ notice'[n].incident = firer[f].found /\ ~notice'[n].handled
           \/ \E s \in Resolvers :
                /\ CreateResolved(s) /\ notice[n].type = "none" /\ notice'[n].type = "resolved"
                /\ notice'[n].incident = resolver[s].found /\ ~notice'[n].handled
<1> DEFINE Same == /\ notice'[n].type = notice[n].type
                   /\ notice'[n].incident = notice[n].incident
<1>0. notice \in [NoticeIds -> Notice]
  BY Parts DEF StoreOK
<1>1. CASE notice' = notice
  BY <1>1
<1>2. ASSUME NEW f \in Firers, CreateAlert(f)
      PROVE  \/ notice'[n] = notice[n]
             \/ /\ notice[n].type = "none" /\ notice'[n].type = "alert"
                /\ notice'[n].incident = firer[f].found /\ ~notice'[n].handled
  BY <1>2, Stored DEF CreateAlert
<1>3. ASSUME NEW s \in Resolvers, CreateResolved(s)
      PROVE  \/ notice'[n] = notice[n]
             \/ /\ notice[n].type = "none" /\ notice'[n].type = "resolved"
                /\ notice'[n].incident = resolver[s].found /\ ~notice'[n].handled
  BY <1>3, Stored DEF CreateResolved
<1>4. ASSUME NEW h \in Handlers, NEW k \in NoticeIds, MarkNotificationHandled(h, k)
      PROVE  Same /\ (k = n \/ notice'[n].handled = notice[n].handled)
  <2>1. notice' = [notice EXCEPT ![k] =
                      [notice[k] EXCEPT !.handled = TRUE, !.received = TRUE]]
    BY <1>0, <1>4 DEF MarkNotificationHandled
  <2> QED
    BY <1>0, <2>1 DEF Notice
<1>5. ASSUME NEW h \in Handlers, HandleOthers(h)
      PROVE  Same /\ (n \in PendingWith(handler[h].notice)
                        \/ notice'[n].handled = notice[n].handled)
  <2> DEFINE S == PendingWith(handler[h].notice)
  <2>1. notice' = [m \in NoticeIds |->
                      IF m \in S
                      THEN [notice[m] EXCEPT !.handled = TRUE, !.received = TRUE]
                      ELSE notice[m]]
    BY <1>5 DEF HandleOthers
  <2> HIDE DEF S
  <2>2. CASE n \in S
    <3>1. notice'[n] = [notice[n] EXCEPT !.handled = TRUE, !.received = TRUE]
      BY <2>1, <2>2
    <3>2. Same
      BY <1>0, <3>1 DEF Notice
    <3> QED
      BY <2>2, <3>2 DEF S
  <2>3. CASE n \notin S
    BY <2>1, <2>3
  <2> QED
    BY <2>2, <2>3
<1>6. ASSUME NEW k \in NoticeIds, RecordNotificationReceipt(k)
      PROVE  Same /\ notice'[n].handled = notice[n].handled
  <2>1. notice' = [notice EXCEPT ![k] = [notice[k] EXCEPT !.received = TRUE]]
    BY <1>0, <1>6 DEF RecordNotificationReceipt
  <2> QED
    BY <1>0, <2>1 DEF Notice
<1>7. CASE \/ \E f \in Firers : OpenNewIncident(f) \/ UpdateIncidentForAlert(f)
           \/ \E s \in Resolvers : CloseIncident(s)
           \/ \E h \in Handlers : AcknowledgeIncident(h)
  BY <1>1, <1>7 DEF OpenNewIncident, UpdateIncidentForAlert, CloseIncident,
     AcknowledgeIncident
<1> QED
  BY <1>1, <1>2, <1>3, <1>4, <1>5, <1>6, <1>7, WhatWrites

-----------------------------------------------------------------------------
(* Every incident is announced                                             *)

\* What a handler owed when it was ended is on record, for good.
LEMMA OwedIsRecorded ==
    ASSUME TypeOK, [Next]_vars
    PROVE  /\ cutOff \subseteq cutOff'
           /\ \A f \in Firers : FirerThrows(f) \/ Restart => OwedAlert(f) \subseteq cutOff'
           /\ \A s \in Resolvers :
                ResolverThrows(s) \/ Restart => OwedResolution(s) \subseteq cutOff'
<1>1. ASSUME NEW f \in Firers, FirerThrows(f)
      PROVE  cutOff' = cutOff \cup OwedAlert(f)
  BY <1>1 DEF FirerThrows
<1>2. ASSUME NEW s \in Resolvers, ResolverThrows(s)
      PROVE  cutOff' = cutOff \cup OwedResolution(s)
  BY <1>2 DEF ResolverThrows
<1>3. ASSUME Restart
      PROVE  /\ cutOff \subseteq cutOff'
             /\ \A f \in Firers : OwedAlert(f) \subseteq cutOff'
             /\ \A s \in Resolvers : OwedResolution(s) \subseteq cutOff'
  <2>1. cutOff' = cutOff \cup (UNION {OwedAlert(f) : f \in Firers})
                         \cup (UNION {OwedResolution(s) : s \in Resolvers})
    BY <1>3 DEF Restart, RecordInterrupted
  <2> QED
    BY <2>1
<1>4. cutOff \subseteq cutOff'
  <2>1. ASSUME NEW f \in Firers, SetTrigger(f) PROVE cutOff' = cutOff
    BY <2>1 DEF SetTrigger
  <2>2. ASSUME NEW h \in Handlers, HandleOthers(h) \/ HandlerThrows(h) PROVE cutOff' = cutOff
    BY <2>2 DEF HandleOthers, HandlerThrows
  <2>3. UNCHANGED aux => cutOff' = cutOff
    BY DEF aux
  <2> QED
    BY <1>1, <1>2, <1>3, <2>1, <2>2, <2>3, WhatRecords
<1> QED
  BY <1>1, <1>2, <1>3, <1>4

\* A firer about to notify does so, or is ended.
LEMMA NotifyingFirers ==
    ASSUME TypeOK, [Next]_vars, NEW f \in Firers, firer[f].pc = "notify"
    PROVE  \/ firer'[f] = firer[f] \/ CreateAlert(f)
           \/ <<"alert", firer[f].found>> \in cutOff'
<1>1. FirerStep(f) => CreateAlert(f) \/ FirerThrows(f)
  BY DEF FirerStep, ProcessSensorReading, TriggerAlert, ResetRuleTriggerState,
     ReadTrigger, SetTrigger, FlowNotFound, GetFlowNotificationDeviceId, FindOpenIncident,
     OpenNewIncident, UpdateIncidentForAlert, SendAlert
<1>2. <<"alert", firer[f].found>> \in OwedAlert(f)
  BY DEF OwedAlert
<1> QED
  BY <1>1, <1>2, FirersMoveThemselves, OwedIsRecorded

LEMMA NotifyingResolvers ==
    ASSUME TypeOK, [Next]_vars, NEW s \in Resolvers, resolver[s].pc = "notify"
    PROVE  \/ resolver'[s] = resolver[s] \/ CreateResolved(s)
           \/ <<"resolved", resolver[s].found>> \in cutOff'
<1>1. ResolverStep(s) => CreateResolved(s) \/ ResolverThrows(s)
  BY DEF ResolverStep, TriggerResolved, ResolverFindsNoFlow, ResolverReadsDevice,
     ResolverFindsIncident, CloseIncident
<1>2. <<"resolved", resolver[s].found>> \in OwedResolution(s)
  BY DEF OwedResolution
<1> QED
  BY <1>1, <1>2, ResolversMoveThemselves, OwedIsRecorded

\* The notification that is stored is in the collection.
LEMMA NewNotice ==
    ASSUME TypeOK, NEW type \in {"alert", "resolved"}, NEW i, NEW at,
           CreateNotice(type, i, at)
    PROVE  \E n \in NoticeIds : notice'[n].type = type /\ notice'[n].incident = i
<1>1. /\ notice' = [notice EXCEPT ![noticeCount + 1] =
                        [type |-> type, incident |-> i, sent |-> at,
                         received |-> FALSE, handled |-> FALSE]]
      /\ noticeCount + 1 \in NoticeIds /\ notice \in [NoticeIds -> Notice]
  BY Parts, FreeSlots DEF CreateNotice, StoreOK
<1> QED
  BY <1>1

Announced(i) ==
    \/ \E n \in NoticeIds : notice[n].type = "alert" /\ notice[n].incident = i
    \/ \E f \in Firers : firer[f].pc = "notify" /\ firer[f].found = i
    \/ <<"alert", i>> \in cutOff

Closure(i) ==
    \/ \E n \in NoticeIds : notice[n].type = "resolved" /\ notice[n].incident = i
    \/ \E s \in Resolvers : resolver[s].pc = "notify" /\ resolver[s].found = i
    \/ <<"resolved", i>> \in cutOff

\* What is announced stays announced: nobody removes a notification, and who owes
\* one stores it or is on record as cut off.
LEMMA AnnouncedStays ==
    ASSUME TypeOK, LedgerInv, [Next]_vars, NEW i \in IncidentIds
    PROVE  /\ Announced(i) => Announced(i)'
           /\ Closure(i) => Closure(i)'
<1>1. ASSUME NEW n \in NoticeIds, NEW type \in {"alert", "resolved"},
             notice[n].type = type, notice[n].incident = i
      PROVE  notice'[n].type = type /\ notice'[n].incident = i
  BY <1>1, LedgerGrows DEF Monotone
<1>2. ASSUME NEW f \in Firers, firer[f].pc = "notify", firer[f].found = i
      PROVE  Announced(i)'
  <2>1. CASE firer'[f] = firer[f]
    BY <1>2, <2>1 DEF Announced
  <2>2. CASE CreateAlert(f)
    BY <1>2, <2>2, NewNotice DEF CreateAlert, Announced, NoticeIds
  <2>3. CASE <<"alert", i>> \in cutOff'
    BY <2>3 DEF Announced
  <2> QED
    BY <1>2, <2>1, <2>2, <2>3, NotifyingFirers
<1>3. ASSUME NEW s \in Resolvers, resolver[s].pc = "notify", resolver[s].found = i
      PROVE  Closure(i)'
  <2>1. CASE resolver'[s] = resolver[s]
    BY <1>3, <2>1 DEF Closure
  <2>2. CASE CreateResolved(s)
    BY <1>3, <2>2, NewNotice DEF CreateResolved, Closure, NoticeIds
  <2>3. CASE <<"resolved", i>> \in cutOff'
    BY <2>3 DEF Closure
  <2> QED
    BY <1>3, <2>1, <2>2, <2>3, NotifyingResolvers
<1>4. Announced(i) => Announced(i)'
  BY <1>1, <1>2, OwedIsRecorded DEF Announced, NoticeIds
<1>5. Closure(i) => Closure(i)'
  BY <1>1, <1>3, OwedIsRecorded DEF Closure, NoticeIds
<1> QED
  BY <1>4, <1>5

\* Who opens an incident owes its alert, who closes one its resolution.
LEMMA OpenersOwe ==
    ASSUME TypeOK, NEW f \in Firers, OpenNewIncident(f)
    PROVE  firer'[f].pc = "notify" /\ firer'[f].found = incidentCount + 1
<1>1. firer'[f] = [firer[f] EXCEPT !.pc = "notify", !.found = incidentCount + 1,
                                   !.device = AnyDevice]
  BY Parts DEF OpenNewIncident, TasksOK
<1> QED
  BY <1>1, Parts DEF Firer

LEMMA ClosersOwe ==
    ASSUME TypeOK, NEW s \in Resolvers, CloseIncident(s)
    PROVE  resolver'[s].pc = "notify" /\ resolver'[s].found = resolver[s].found
<1>1. resolver'[s] = [resolver[s] EXCEPT !.pc = "notify", !.device = AnyDevice]
  BY Parts DEF CloseIncident, TasksOK
<1> QED
  BY <1>1, Parts DEF Resolver

LEMMA AnnouncedNext ==
    ASSUME TypeOK, LedgerInv, IncidentAnnounced, [Next]_vars
    PROVE  IncidentAnnounced'
<1> SUFFICES ASSUME NEW i \in IncidentIds
             PROVE  /\ incident'[i].state # "none" => Announced(i)'
                    /\ incident'[i].state = "closed" => Closure(i)'
  BY DEF IncidentAnnounced, Announced, Closure, IncidentIds, NoticeIds
<1>2. /\ incident[i].state # "none" => Announced(i)
      /\ incident[i].state = "closed" => Closure(i)
  BY DEF IncidentAnnounced, Announced, Closure
<1>3. /\ Announced(i) => Announced(i)'
      /\ Closure(i) => Closure(i)'
  BY AnnouncedStays
<1>4. CASE incident'[i].state = incident[i].state
  BY <1>2, <1>3, <1>4
<1>5. ASSUME NEW f \in Firers, OpenNewIncident(f), i = incidentCount + 1,
             incident'[i].state = "open"
      PROVE  /\ incident'[i].state # "none" => Announced(i)'
             /\ incident'[i].state = "closed" => Closure(i)'
  BY <1>5, OpenersOwe DEF Announced
<1>6. ASSUME NEW s \in Resolvers, CloseIncident(s), i = resolver[s].found
      PROVE  Announced(i)' /\ Closure(i)'
  <2>1. incident[i].state # "none"
    BY <1>6, Parts DEF Filled
  <2> QED
    BY <1>2, <1>3, <1>6, <2>1, ClosersOwe DEF Closure
<1> QED
  BY <1>4, <1>5, <1>6, WhatIncidentsBecome

\* Every incident has its alert and every closed one its resolution, or the handler
\* that owes it is on its way or was ended, by a call that threw or by a restart,
\* between that incident's write and the notification; for any number of handlers
\* at once.
THEOREM IncidentsAnnounced == Spec => []IncidentAnnounced
<1>1. Init => IncidentAnnounced
  BY DEF Init, IncidentAnnounced, NoIncident
<1>2. TypeOK /\ LedgerInv /\ IncidentAnnounced /\ [Next]_vars => IncidentAnnounced'
  BY AnnouncedNext
<1> QED
  BY <1>1, <1>2, TypeCorrect, LedgerInvInit, LedgerInvNext, PTL DEF Spec

-----------------------------------------------------------------------------
(* Overlapping resolutions                                                 *)

\* The resolutions that have found incident i and not announced it yet.
Resolving(i) ==
    {s \in Resolvers : resolver[s].pc \in {"save", "notify"} /\ resolver[s].found = i}

\* No resolution finds a closed incident, so those that announce one found it, all
\* of them, while it was open: they are in flight at once.
ResolvedInv ==
    \A i \in IncidentIds :
        /\ incident[i].state # "closed" => ResolutionsOf(i) = {}
        /\ Cardinality(ResolutionsOf(i)) + Cardinality(Resolving(i)) <= Cardinality(Resolvers)

LEMMA FiniteResolutions ==
    ASSUME NEW i
    PROVE  /\ IsFiniteSet(ResolutionsOf(i)) /\ IsFiniteSet(ResolutionsOf(i)')
           /\ IsFiniteSet(Resolving(i)) /\ IsFiniteSet(Resolving(i)')
           /\ Cardinality(ResolutionsOf(i)) \in Nat /\ Cardinality(ResolutionsOf(i)') \in Nat
           /\ Cardinality(Resolving(i)) \in Nat /\ Cardinality(Resolving(i)') \in Nat
           /\ Cardinality(Resolvers) \in Nat
           /\ Cardinality(Resolving(i)) <= Cardinality(Resolvers)
           /\ Cardinality(Resolving(i)') <= Cardinality(Resolvers)
<1>1. IsFiniteSet(NoticeIds)
  BY FS_Interval, Defaults DEF NoticeIds
<1>2. /\ ResolutionsOf(i) \subseteq NoticeIds /\ ResolutionsOf(i)' \subseteq NoticeIds
      /\ Resolving(i) \subseteq Resolvers /\ Resolving(i)' \subseteq Resolvers
  BY DEF ResolutionsOf, Resolving, NoticeIds
<1>3. IsFiniteSet(ResolutionsOf(i)) /\ IsFiniteSet(ResolutionsOf(i)')
  BY <1>1, <1>2, FS_Subset
<1>4. IsFiniteSet(Resolvers)
  BY PipelineAssumption
<1>5. /\ IsFiniteSet(Resolving(i)) /\ Cardinality(Resolving(i)) <= Cardinality(Resolvers)
      /\ IsFiniteSet(Resolving(i)') /\ Cardinality(Resolving(i)') <= Cardinality(Resolvers)
  BY <1>2, <1>4, FS_Subset
<1> QED
  BY <1>3, <1>4, <1>5, FS_CardinalityType

\* How a resolver comes to the save and to the notification.
LEMMA SaversFollowLookups ==
    ASSUME TypeOK, [Next]_vars, NEW s \in Resolvers, resolver'[s].pc \in {"save", "notify"}
    PROVE  \/ resolver'[s] = resolver[s]
           \/ /\ resolver'[s].pc = "save" /\ resolver'[s].found \in IncidentIds
              /\ IsOpen(resolver'[s].found) /\ incident' = incident
           \/ /\ CloseIncident(s)
              /\ resolver'[s].pc = "notify" /\ resolver'[s].found = resolver[s].found
<1>0. resolver \in [Resolvers -> Resolver] /\ resolver[s] \in Resolver
  BY Parts DEF TasksOK
<1>1. ASSUME NEW r \in Rules, NEW at \in Bodies, TriggerResolved(s, r, at) PROVE FALSE
  BY <1>0, <1>1 DEF TriggerResolved, IdleResolver
<1>2. CASE ResolverReadsDevice(s)
  <2>1. resolver'[s] = [resolver[s] EXCEPT !.pc = "find", !.device = flowDevice]
    BY <1>0, <1>2 DEF ResolverReadsDevice
  <2> QED
    BY <1>0, <2>1 DEF Resolver
<1>3. CASE ResolverFindsIncident(s)
  <2>1. PICK i \in IncidentIds \cup {NoId} :
            /\ FoundFor(resolver[s].rule, resolver[s].device, i)
            /\ resolver' = [resolver EXCEPT ![s] =
                IF i = NoId THEN IdleResolver
                ELSE [resolver[s] EXCEPT !.pc = "save", !.found = i]]
    BY <1>0, <1>3 DEF ResolverFindsIncident
  <2>2. i # NoId
    BY <1>0, <2>1 DEF IdleResolver
  <2>3. resolver'[s] = [resolver[s] EXCEPT !.pc = "save", !.found = i]
    BY <1>0, <2>1, <2>2
  <2>4. IsOpen(i) /\ i \in IncidentIds
    BY <2>1, <2>2 DEF FoundFor, OpenIncidents
  <2>5. incident' = incident
    BY <1>3 DEF ResolverFindsIncident, store
  <2>6. resolver'[s].pc = "save" /\ resolver'[s].found = i
    BY <1>0, <2>3 DEF Resolver
  <2> QED
    BY <2>4, <2>5, <2>6
<1>4. CASE CloseIncident(s)
  BY <1>4, ClosersOwe
<1>5. CASE CreateResolved(s) \/ Restart \/ ResolverFindsNoFlow(s) \/ ResolverThrows(s)
  BY <1>0, <1>5 DEF CreateResolved, Restart, ResolverFindsNoFlow, ResolverThrows, IdleResolver
<1> QED
  BY <1>1, <1>2, <1>3, <1>4, <1>5, ResolversMoveThemselves DEF ResolverStep

\* A resolution is announced by a resolver that has closed the incident.
LEMMA WhoAnnounces ==
    ASSUME TypeOK, LedgerInv, [Next]_vars, NEW i \in IncidentIds,
           ResolutionsOf(i)' # ResolutionsOf(i)
    PROVE  \E s \in Resolvers :
             /\ CreateResolved(s) /\ resolver[s].found = i
             /\ incident[i].state = "closed"
             /\ ResolutionsOf(i)' \subseteq ResolutionsOf(i) \cup {noticeCount + 1}
<1>1. PICK n \in NoticeIds :
        (n \in ResolutionsOf(i)') # (n \in ResolutionsOf(i))
  BY DEF ResolutionsOf, NoticeIds
<1>2. PICK s \in Resolvers :
        /\ CreateResolved(s) /\ notice'[n].type = "resolved"
        /\ notice'[n].incident = resolver[s].found /\ notice[n].type = "none"
  BY <1>1, WhatNoticesBecome DEF ResolutionsOf
<1>3. resolver[s].found = i
  BY <1>1, <1>2 DEF ResolutionsOf
<1>4. incident[i].state = "closed"
  BY <1>2, <1>3 DEF LedgerInv, HandlersKnow, CreateResolved
<1>5. /\ notice' = [notice EXCEPT ![noticeCount + 1] =
            [type |-> "resolved", incident |-> i, sent |-> resolver[s].at,
             received |-> FALSE, handled |-> FALSE]]
      /\ notice \in [NoticeIds -> Notice]
  BY <1>2, <1>3, Parts DEF CreateResolved, CreateNotice, StoreOK
<1>6. ResolutionsOf(i)' \subseteq ResolutionsOf(i) \cup {noticeCount + 1}
  BY <1>5 DEF ResolutionsOf, NoticeIds
<1> QED
  BY <1>2, <1>3, <1>4, <1>6

\* Nobody comes to resolve a closed incident, and who announces it is done.
LEMMA NoLateResolution ==
    ASSUME TypeOK, LedgerInv, [Next]_vars, NEW i \in IncidentIds,
           incident[i].state = "closed"
    PROVE  /\ Resolving(i)' \subseteq Resolving(i)
           /\ \A s \in Resolvers : CreateResolved(s) => s \notin Resolving(i)'
<1>1. ASSUME NEW s \in Resolvers, s \in Resolving(i)' PROVE s \in Resolving(i)
  <2>1. resolver'[s].pc \in {"save", "notify"} /\ resolver'[s].found = i
    BY <1>1 DEF Resolving
  <2>2. ~(IsOpen(resolver'[s].found) /\ incident' = incident)
    BY <2>1 DEF IsOpen
  <2>3. CASE resolver'[s] = resolver[s]
    BY <2>1, <2>3 DEF Resolving
  <2>4. CASE CloseIncident(s) /\ resolver'[s].found = resolver[s].found
    BY <2>1, <2>4 DEF Resolving, CloseIncident
  <2> QED
    BY <2>1, <2>2, <2>3, <2>4, SaversFollowLookups
<1>2. ASSUME NEW s \in Resolvers, CreateResolved(s) PROVE s \notin Resolving(i)'
  <2>1. resolver'[s] = IdleResolver
    BY <1>2, Parts DEF CreateResolved, TasksOK
  <2> QED
    BY <2>1 DEF Resolving, IdleResolver
<1>3. Resolving(i)' \subseteq Resolving(i)
  BY <1>1 DEF Resolving
<1> QED
  BY <1>2, <1>3

LEMMA ResolvedNext ==
    ASSUME TypeOK, LedgerInv, ResolvedInv, [Next]_vars, NEW i \in IncidentIds
    PROVE  /\ incident'[i].state # "closed" => ResolutionsOf(i)' = {}
           /\ Cardinality(ResolutionsOf(i)') + Cardinality(Resolving(i)')
                <= Cardinality(Resolvers)
<1>0. /\ incident[i].state # "closed" => ResolutionsOf(i) = {}
      /\ Cardinality(ResolutionsOf(i)) + Cardinality(Resolving(i)) <= Cardinality(Resolvers)
  BY DEF ResolvedInv
<1>1. CASE incident[i].state # "closed"
  <2>1. ResolutionsOf(i)' = {}
    BY <1>0, <1>1, WhoAnnounces
  <2>2. Cardinality(ResolutionsOf(i)') = 0
    BY <2>1, FS_EmptySet
  <2> QED
    BY <2>1, <2>2, FiniteResolutions
<1>2. CASE incident[i].state = "closed" /\ ResolutionsOf(i)' = ResolutionsOf(i)
  <2>1. Resolving(i)' \subseteq Resolving(i) /\ incident'[i].state = "closed"
    BY <1>2, NoLateResolution, LedgerGrows DEF Monotone
  <2>2. Cardinality(Resolving(i)') <= Cardinality(Resolving(i))
    BY <2>1, FiniteResolutions, FS_Subset
  <2> QED
    BY <1>0, <1>2, <2>1, <2>2, FiniteResolutions
<1>3. CASE incident[i].state = "closed" /\ ResolutionsOf(i)' # ResolutionsOf(i)
  <2>1. PICK s \in Resolvers :
          /\ CreateResolved(s) /\ resolver[s].found = i
          /\ ResolutionsOf(i)' \subseteq ResolutionsOf(i) \cup {noticeCount + 1}
    BY <1>3, WhoAnnounces
  <2>2. s \in Resolving(i) /\ incident'[i].state = "closed"
    BY <1>3, <2>1, LedgerGrows DEF Resolving, CreateResolved, Monotone
  <2>3. Resolving(i)' \subseteq Resolving(i) \ {s}
    BY <1>3, <2>1, NoLateResolution
  <2>4. /\ IsFiniteSet(Resolving(i) \ {s})
        /\ Cardinality(Resolving(i) \ {s}) = Cardinality(Resolving(i)) - 1
    BY <2>2, FiniteResolutions, FS_RemoveElement
  <2>5. Cardinality(Resolving(i)') <= Cardinality(Resolving(i)) - 1
    BY <2>3, <2>4, FS_Subset
  <2>6. /\ IsFiniteSet(ResolutionsOf(i) \cup {noticeCount + 1})
        /\ Cardinality(ResolutionsOf(i) \cup {noticeCount + 1})
             \in {Cardinality(ResolutionsOf(i)), Cardinality(ResolutionsOf(i)) + 1}
    BY FiniteResolutions, FS_AddElement
  <2>7. Cardinality(ResolutionsOf(i)') <= Cardinality(ResolutionsOf(i)) + 1
    BY <2>1, <2>6, FiniteResolutions, FS_Subset
  <2> QED
    BY <1>0, <2>2, <2>5, <2>7, FiniteResolutions
<1> QED
  BY <1>1, <1>2, <1>3

\* However many resolutions overlap, and whatever firings, answers, failures and
\* restarts do meanwhile, an incident is announced as resolved at most as often as
\* resolutions can be in flight at once.
THEOREM OverlappingResolutionsBounded == Spec => []ResolutionsBounded
<1>1. Init => ResolvedInv
  <2> SUFFICES ASSUME Init, NEW i \in IncidentIds
               PROVE  /\ ResolutionsOf(i) = {}
                      /\ Cardinality(ResolutionsOf(i)) + Cardinality(Resolving(i))
                            <= Cardinality(Resolvers)
    BY DEF ResolvedInv
  <2>1. ResolutionsOf(i) = {}
    BY DEF Init, ResolutionsOf, NoNotice
  <2> QED
    BY <2>1, FiniteResolutions, FS_EmptySet
<1>2. TypeOK /\ LedgerInv /\ ResolvedInv /\ [Next]_vars => ResolvedInv'
  <2> SUFFICES ASSUME TypeOK, LedgerInv, ResolvedInv, [Next]_vars PROVE ResolvedInv'
    OBVIOUS
  <2> QED
    BY ResolvedNext DEF ResolvedInv, IncidentIds
<1>3. ResolvedInv => ResolutionsBounded
  BY FiniteResolutions DEF ResolvedInv, ResolutionsBounded
<1> QED
  BY <1>1, <1>2, <1>3, TypeCorrect, LedgerInvInit, LedgerInvNext, PTL DEF Spec

-----------------------------------------------------------------------------
(* An answer handles all that was pending                                  *)

\* The answer to a notification of incident i is under way.
Answering(i) == \E h \in Handlers : /\ handler[h].pc \in {"ack", "rest"}
                                    /\ notice[handler[h].notice].incident = i

\* All notifications of the incident that are older than notification n are handled.
OldOnesHandled(n) ==
    \A m \in NoticeIds :
        (m < n /\ notice[m].type # "none" /\ notice[m].incident = notice[n].incident)
        => notice[m].handled

\* A handled notification has its answer under way, or that has handled the others
\* or was ended before it could.
AnswerInv ==
    /\ \A n \in NoticeIds : notice[n].handled => notice[n].type # "none"
    /\ \A n \in NoticeIds : notice[n].handled =>
        \/ Answering(notice[n].incident) \/ OldOnesHandled(n)
        \/ notice[n].incident \in unfinished

\* The last step of an answer leaves nothing pending for the incident.
LEMMA OthersHandled ==
    ASSUME TypeOK, NEW h \in Handlers, HandleOthers(h), NEW m \in NoticeIds,
           notice'[m].type # "none",
           notice'[m].incident = notice[handler[h].notice].incident
    PROVE  notice'[m].handled
<1> DEFINE S == PendingWith(handler[h].notice)
<1>0. notice \in [NoticeIds -> Notice]
  BY Parts DEF StoreOK
<1>1. notice' = [k \in NoticeIds |->
                    IF k \in S THEN [notice[k] EXCEPT !.handled = TRUE, !.received = TRUE]
                               ELSE notice[k]]
  BY DEF HandleOthers
<1>2. CASE m \in S
  <2> HIDE DEF S
  <2>1. notice'[m] = [notice[m] EXCEPT !.handled = TRUE, !.received = TRUE]
    BY <1>1, <1>2
  <2> QED
    BY <1>0, <2>1 DEF Notice
<1>3. CASE m \notin S
  <2>1. notice'[m] = notice[m]
    <3> HIDE DEF S
    <3> QED
      BY <1>1, <1>3
  <2> QED
    BY <1>3, <2>1 DEF PendingWith
<1> QED
  BY <1>2, <1>3

\* An incident stays on record as half handled until an answer finishes.
LEMMA HalfHandledOnRecord ==
    ASSUME [Next]_vars
    PROVE  /\ \A i \in unfinished : i \in unfinished' \/
                \E h \in Handlers : HandleOthers(h) /\ notice[handler[h].notice].incident = i
           /\ \A h \in Handlers : HandlerThrows(h) \/ Restart
                => Interrupted(h) \subseteq unfinished'
<1>1. ASSUME NEW h \in Handlers, HandlerThrows(h)
      PROVE  unfinished' = unfinished \cup Interrupted(h)
  BY <1>1 DEF HandlerThrows
<1>2. ASSUME NEW h \in Handlers, HandleOthers(h)
      PROVE  unfinished' = unfinished \ {notice[handler[h].notice].incident}
  BY <1>2 DEF HandleOthers
<1>3. ASSUME Restart
      PROVE  unfinished \subseteq unfinished' /\ \A h \in Handlers : Interrupted(h) \subseteq unfinished'
  <2>1. unfinished' = unfinished \cup (UNION {Interrupted(h) : h \in Handlers})
    BY <1>3 DEF Restart, RecordInterrupted
  <2> QED
    BY <2>1
<1>4. ASSUME UNCHANGED aux \/ (\E f \in Firers : SetTrigger(f) \/ FirerThrows(f))
                           \/ (\E s \in Resolvers : ResolverThrows(s))
      PROVE  unfinished' = unfinished
  BY <1>4 DEF SetTrigger, FirerThrows, ResolverThrows, aux
<1> QED
  BY <1>1, <1>2, <1>3, <1>4, WhatRecords

\* An answer stays under way until it has handled the others, or is ended.
LEMMA AnswersGoOn ==
    ASSUME TypeOK, LedgerInv, [Next]_vars, NEW h \in Handlers,
           handler[h].pc \in {"ack", "rest"}
    PROVE  \/ HandleOthers(h)
           \/ notice[handler[h].notice].incident \in unfinished'
           \/ /\ handler'[h].pc \in {"ack", "rest"}
              /\ notice'[handler'[h].notice].incident = notice[handler[h].notice].incident
<1>0. handler \in [Handlers -> Handler] /\ handler[h] \in Handler /\ Monotone
  BY Parts, LedgerGrows DEF TasksOK
<1>1. handler[h].notice \in NoticeIds /\ notice[handler[h].notice].type # "none"
  <2>1. handler[h].notice \in NoticeIds
    BY <1>0 DEF LedgerInv, HandlersKnow, Handler, IdleHandler
  <2> QED
    BY <2>1, Parts, FreeSlots DEF Filled
<1>2. notice'[handler[h].notice].incident = notice[handler[h].notice].incident
  BY <1>0, <1>1 DEF Monotone
<1>3. CASE handler'[h] = handler[h]
  BY <1>2, <1>3
<1>4. CASE AcknowledgeIncident(h)
  <2>1. handler'[h] = [handler[h] EXCEPT !.pc = "rest"]
    BY <1>0, <1>4 DEF AcknowledgeIncident
  <2>2. handler'[h].pc = "rest" /\ handler'[h].notice = handler[h].notice
    BY <1>0, <2>1 DEF Handler
  <2> QED
    BY <1>2, <2>2
<1>5. ASSUME NEW n \in NoticeIds, MarkNotificationHandled(h, n) PROVE FALSE
  BY <1>5 DEF MarkNotificationHandled
<1>6. CASE HandlerThrows(h) \/ Restart
  BY <1>6, HalfHandledOnRecord DEF Interrupted
<1> QED
  BY <1>3, <1>4, <1>5, <1>6, HandlersMoveThemselves DEF HandlerStep

LEMMA AnswerNext ==
    ASSUME TypeOK, LedgerInv, AnswerInv, [Next]_vars
    PROVE  AnswerInv'
<1>0. /\ Monotone /\ handler \in [Handlers -> Handler] /\ notice \in [NoticeIds -> Notice]
      /\ NoticeIds \subseteq Nat
  BY Parts, LedgerGrows, FreeSlots DEF TasksOK, StoreOK
<1>1. ASSUME NEW n \in NoticeIds, notice'[n].handled PROVE notice'[n].type # "none"
  <2>1. ASSUME NEW h \in Handlers, MarkNotificationHandled(h, n)
        PROVE  notice[n].type # "none"
    BY <2>1 DEF MarkNotificationHandled
  <2>2. ASSUME NEW h \in Handlers, n \in PendingWith(handler[h].notice)
        PROVE  notice[n].type # "none"
    BY <2>2 DEF PendingWith
  <2> QED
    BY <1>1, <2>1, <2>2, WhatNoticesBecome DEF AnswerInv
<1>2. ASSUME NEW n \in NoticeIds, notice'[n].handled
      PROVE  \/ \E h \in Handlers : /\ handler'[h].pc \in {"ack", "rest"}
                                    /\ notice'[handler'[h].notice].incident = notice'[n].incident
             \/ \A m \in NoticeIds :
                    (/\ m < n /\ notice'[m].type # "none"
                     /\ notice'[m].incident = notice'[n].incident) => notice'[m].handled
             \/ notice'[n].incident \in unfinished'
  <2>1. CASE notice[n].handled
    <3>1. notice[n].type # "none" /\ notice'[n].incident = notice[n].incident
      BY <1>0, <2>1 DEF AnswerInv, Monotone
    <3>2. ASSUME NEW h \in Handlers, handler[h].pc \in {"ack", "rest"},
                 notice[handler[h].notice].incident = notice[n].incident
          PROVE  \/ \A m \in NoticeIds :
                        (/\ notice'[m].type # "none"
                         /\ notice'[m].incident = notice'[n].incident) => notice'[m].handled
                 \/ /\ handler'[h].pc \in {"ack", "rest"}
                    /\ notice'[handler'[h].notice].incident = notice'[n].incident
                 \/ notice'[n].incident \in unfinished'
      BY <3>1, <3>2, OthersHandled, AnswersGoOn
    <3>4. ASSUME notice[n].incident \in unfinished, notice'[n].incident \notin unfinished',
                 NEW m \in NoticeIds, notice'[m].type # "none",
                 notice'[m].incident = notice'[n].incident
          PROVE  notice'[m].handled
      BY <3>1, <3>4, HalfHandledOnRecord, OthersHandled
    <3>3. ASSUME OldOnesHandled(n), NEW m \in NoticeIds, m < n, notice'[m].type # "none",
                 notice'[m].incident = notice'[n].incident
          PROVE  notice'[m].handled
      <4>1. notice[m].type # "none"
        <5>1. n <= noticeCount
          BY <3>1, Parts, FreeSlots DEF Filled, StoreOK
        <5> QED
          BY <3>3, <5>1, Parts, FreeSlots DEF Filled, StoreOK
      <4> QED
        BY <1>0, <3>1, <3>3, <4>1 DEF OldOnesHandled, Monotone
    <3> QED
      BY <2>1, <3>2, <3>3, <3>4 DEF AnswerInv, Answering
  <2>2. ASSUME NEW h \in Handlers, MarkNotificationHandled(h, n)
        PROVE  /\ handler'[h].pc \in {"ack", "rest"}
               /\ notice'[handler'[h].notice].incident = notice'[n].incident
    <3>1. handler'[h] = [pc |-> "ack", notice |-> n]
      BY <1>0, <2>2 DEF MarkNotificationHandled
    <3> QED
      BY <3>1
  <2>3. ASSUME NEW h \in Handlers, HandleOthers(h), n \in PendingWith(handler[h].notice),
               notice'[n].incident = notice[n].incident,
               NEW m \in NoticeIds, notice'[m].type # "none",
               notice'[m].incident = notice'[n].incident
        PROVE  notice'[m].handled
    <3>1. notice[n].incident = notice[handler[h].notice].incident
      BY <2>3 DEF PendingWith
    <3> QED
      BY <2>3, <3>1, OthersHandled
  <2>4. CASE ~notice[n].handled
    <3>1. /\ notice'[n].incident = notice[n].incident
          /\ \E h \in Handlers : \/ MarkNotificationHandled(h, n)
                                 \/ HandleOthers(h) /\ n \in PendingWith(handler[h].notice)
      BY <1>0, <1>2, <2>4, WhatNoticesBecome DEF Notice
    <3> QED
      BY <2>2, <2>3, <3>1
  <2> QED
    BY <2>1, <2>4
<1> QED
  BY <1>1, <1>2 DEF AnswerInv, Answering, OldOnesHandled, NoticeIds

\* An answer handles every notification of its incident that is older, for any
\* number of answers, firings and resolutions in flight: a notification stays
\* pending under a handled one only while an answer is under way or where one was
\* ended half way and none has finished since.
THEOREM AnswersHandleAll == Spec => []NoOlderPending
<1>1. Init => AnswerInv
  BY DEF Init, AnswerInv, NoNotice
<1>2. TypeOK /\ LedgerInv /\ AnswerInv /\ [Next]_vars => AnswerInv'
  BY AnswerNext
<1>3. TypeOK /\ AnswerInv => NoOlderPending
  <2> SUFFICES ASSUME TypeOK, AnswerInv,
                      \A h \in Handlers : handler[h].pc = "idle",
                      NEW m \in NoticeIds, NEW n \in NoticeIds,
                      m < n, notice[n].handled, notice[m].type # "none",
                      notice[m].incident = notice[n].incident
               PROVE  notice[m].handled \/ notice[n].incident \in unfinished
    BY DEF NoOlderPending
  <2>1. ~Answering(notice[n].incident)
    BY DEF Answering
  <2> QED
    BY <2>1 DEF AnswerInv, OldOnesHandled
<1> QED
  BY <1>1, <1>2, <1>3, TypeCorrect, LedgerInvInit, LedgerInvNext, PTL DEF Spec

-----------------------------------------------------------------------------
(* No rule is muted without an incident                                    *)

\* An incident of the rule is in the collection, open or closed.
HasIncident(r) == \E i \in IncidentIds : incident[i].state # "none" /\ incident[i].rule = r

\* A firing of the rule is past its gate and has not written yet.
Firing(r) == \E f \in Firers : firer[f].rule = r /\ firer[f].pc \in {"device", "find", "write"}

\* The incident a firing found is one of its rule.
FoundOfRule ==
    \A f \in Firers : (firer[f].pc = "write" /\ firer[f].found # NoId)
        => incident[firer[f].found].rule = firer[f].rule

GateInv == GateHasIncident /\ FoundOfRule

LEMMA IncidentsRemain ==
    ASSUME TypeOK, [Next]_vars, NEW i \in IncidentIds, incident[i].state # "none"
    PROVE  incident'[i].state # "none" /\ incident'[i].rule = incident[i].rule
BY WhatIncidentsBecome

\* An entry is armed because it was, or because a firing of its rule just armed it.
LEMMA WhoArms ==
    ASSUME TypeOK, [Next]_vars, NEW r \in Rules, trigger'[r].armed
    PROVE  ~Restart /\ (trigger[r].armed \/ \E f \in Firers : SetTrigger(f) /\ firer[f].rule = r)
<1>0. trigger \in [Rules -> Trigger]
  BY Parts DEF WorldOK
<1>1. CASE trigger' = trigger /\ ~Restart
  BY <1>1
<1>2. ASSUME NEW f \in Firers, FirerStep(f)
      PROVE  \/ trigger' = trigger \/ SetTrigger(f)
             \/ \E q \in Rules : trigger' = [trigger EXCEPT ![q] = NoTrigger]
  BY <1>2 DEF FirerStep, ProcessSensorReading, TriggerAlert, ResetRuleTriggerState,
     ReadTrigger, FlowNotFound, GetFlowNotificationDeviceId, FindOpenIncident,
     OpenNewIncident, UpdateIncidentForAlert, CreateAlert, SendAlert, FirerThrows
<1>3. ASSUME NEW f \in Firers, SetTrigger(f), firer[f].rule # r PROVE trigger[r].armed
  <2>1. \E entry : trigger' = [trigger EXCEPT ![firer[f].rule] = entry]
    BY <1>3 DEF SetTrigger
  <2> QED
    BY <1>0, <1>3, <2>1
<1>4. ASSUME NEW q \in Rules, trigger' = [trigger EXCEPT ![q] = NoTrigger]
      PROVE  trigger[r].armed
  BY <1>0, <1>4 DEF NoTrigger
<1>5. ~Restart
  <2>1. Restart => trigger'[r].armed = FALSE
    BY DEF Restart, NoTrigger
  <2> QED
    BY <2>1
<1>6. CASE Tick
  <2>1. trigger'[r] = Expire(trigger[r], clock + 1)
    BY <1>6 DEF Tick
  <2>2. trigger[r].armed
    BY <2>1 DEF Expire, NoTrigger
  <2> QED
    BY <1>5, <2>2
<1>7. CASE \/ \E s \in Resolvers : ResolverStep(s)
           \/ \E h \in Handlers : HandlerStep(h)
           \/ \E n \in NoticeIds : RecordNotificationReceipt(n)
           \/ (\E d \in Devices : RelinkFlow(d)) \/ DeleteFlow \/ UNCHANGED vars
  <2>1. trigger' = trigger
    BY <1>7 DEF ResolverStep, TriggerResolved, ResolverFindsNoFlow, ResolverThrows, ResolverReadsDevice, ResolverFindsIncident,
       CloseIncident, CreateResolved, HandlerStep, HandlerThrows, MarkNotificationHandled,
       AcknowledgeIncident, HandleOthers, RecordNotificationReceipt, RelinkFlow,
       DeleteFlow, vars
  <2> QED
    BY <1>1, <1>5, <2>1
<1> QED
  BY <1>1, <1>2, <1>3, <1>4, <1>5, <1>6, <1>7 DEF Next

\* A firing past its gate stays one until an incident of its rule is there or it
\* fails.
LEMMA FiringsLeaveIncidents ==
    ASSUME TypeOK, FoundOfRule, [Next]_vars, ~Restart, owned, NEW f \in Firers,
           firer[f].pc \in {"device", "find", "write"}
    PROVE  \/ /\ firer'[f].rule = firer[f].rule
              /\ firer'[f].pc \in {"device", "find", "write"}
           \/ \E i \in IncidentIds :
                incident'[i].state # "none" /\ incident'[i].rule = firer[f].rule
           \/ firer[f].rule \in failed'
<1>0. /\ firer \in [Firers -> Firer] /\ firer[f] \in Firer
      /\ incident \in [IncidentIds -> Incident]
  BY Parts DEF TasksOK, StoreOK
<1>1. CASE firer'[f] = firer[f]
  BY <1>1
<1>2. CASE GetFlowNotificationDeviceId(f)
  <2>1. firer'[f] = [firer[f] EXCEPT !.pc = "find", !.device = flowDevice]
    BY <1>0, <1>2 DEF GetFlowNotificationDeviceId
  <2> QED
    BY <1>0, <2>1 DEF Firer
<1>3. CASE FindOpenIncident(f)
  <2>1. PICK i \in IncidentIds \cup {NoId} :
            /\ FoundFor(firer[f].rule, firer[f].device, i)
            /\ IF i # NoId /\ Suppressed(i, firer[f].at)
               THEN NextRule(f, firer[f].todo)
               ELSE firer' = [firer EXCEPT ![f] = [@ EXCEPT !.pc = "write", !.found = i]]
    BY <1>3 DEF FindOpenIncident
  <2>2. CASE i # NoId /\ Suppressed(i, firer[f].at)
    <3>1. i \in IncidentIds /\ IsOpen(i) /\ incident[i].rule = firer[f].rule
      BY <2>1, <2>2 DEF FoundFor, OpenIncidents
    <3> QED
      BY <3>1, IncidentsRemain DEF IsOpen
  <2>3. CASE ~(i # NoId /\ Suppressed(i, firer[f].at))
    <3>1. firer'[f] = [firer[f] EXCEPT !.pc = "write", !.found = i]
      BY <1>0, <2>1, <2>3
    <3> QED
      BY <1>0, <3>1 DEF Firer
  <2> QED
    BY <2>2, <2>3
<1>4. CASE OpenNewIncident(f)
  <2>1. /\ incidentCount + 1 \in IncidentIds
        /\ incident' = [incident EXCEPT ![incidentCount + 1] =
             [state |-> "open", rule |-> firer[f].rule, device |-> firer[f].device,
              opened |-> firer[f].at, last |-> firer[f].at, acked |-> FALSE]]
    BY <1>4, Parts, FreeSlots DEF OpenNewIncident, CreateIncident
  <2>2. /\ incident'[incidentCount + 1].state = "open"
        /\ incident'[incidentCount + 1].rule = firer[f].rule
    BY <1>0, <2>1
  <2> QED
    BY <2>1, <2>2
<1>5. CASE UpdateIncidentForAlert(f)
  <2>1. /\ firer[f].found \in IncidentIds /\ firer[f].pc = "write" /\ firer[f].found # NoId
        /\ incident[firer[f].found].state # "none"
    BY <1>0, <1>5, Parts DEF UpdateIncidentForAlert, Firer, Filled
  <2>2. incident[firer[f].found].rule = firer[f].rule
    BY <2>1 DEF FoundOfRule
  <2> QED
    BY <2>1, <2>2, IncidentsRemain
<1>6. CASE FirerThrows(f)
  BY <1>6 DEF FirerThrows
<1>7. FirerStep(f) => \/ GetFlowNotificationDeviceId(f) \/ FindOpenIncident(f)
                      \/ OpenNewIncident(f) \/ UpdateIncidentForAlert(f) \/ FirerThrows(f)
  BY DEF FirerStep, ProcessSensorReading, TriggerAlert, ResetRuleTriggerState,
     ReadTrigger, SetTrigger, FlowNotFound, CreateAlert, SendAlert
<1> QED
  BY <1>1, <1>2, <1>3, <1>4, <1>5, <1>6, <1>7, FirersMoveThemselves

\* A failure stays on record until the gate of the rule is armed anew, and a deleted
\* flow stays deleted.
LEMMA FailuresOnRecord ==
    ASSUME [Next]_vars
    PROVE  /\ \A r \in failed : r \in failed' \/ \E f \in Firers : SetTrigger(f) /\ firer[f].rule = r
           /\ owned' => owned
<1>1. \A r \in failed : r \in failed' \/ \E f \in Firers : SetTrigger(f) /\ firer[f].rule = r
  <2>1. ASSUME NEW f \in Firers, SetTrigger(f) PROVE failed' = failed \ {firer[f].rule}
    BY <2>1 DEF SetTrigger
  <2>2. ASSUME NEW f \in Firers, FirerThrows(f) PROVE failed \subseteq failed'
    BY <2>2 DEF FirerThrows
  <2>3. CASE \/ UNCHANGED aux \/ Restart
             \/ \E s \in Resolvers : ResolverThrows(s)
             \/ \E h \in Handlers : HandleOthers(h) \/ HandlerThrows(h)
    BY <2>3 DEF aux, Restart, RecordInterrupted, ResolverThrows, HandleOthers, HandlerThrows
  <2> QED
    BY <2>1, <2>2, <2>3, WhatRecords
<1>2. owned' => owned
  BY DEF Next, FirerStep, ProcessSensorReading, TriggerAlert, ResetRuleTriggerState,
     ReadTrigger, SetTrigger, FlowNotFound, GetFlowNotificationDeviceId, FindOpenIncident,
     OpenNewIncident, UpdateIncidentForAlert, CreateAlert, SendAlert, FirerThrows,
     ResolverStep, TriggerResolved, ResolverFindsNoFlow, ResolverThrows, ResolverReadsDevice,
     ResolverFindsIncident, CloseIncident, CreateResolved,
     HandlerStep, HandlerThrows, MarkNotificationHandled, AcknowledgeIncident, HandleOthers,
     RecordNotificationReceipt, Tick, RelinkFlow, DeleteFlow, Restart, vars, world
<1> QED
  BY <1>1, <1>2

LEMMA FoundOfRuleNext ==
    ASSUME TypeOK, FoundOfRule, [Next]_vars
    PROVE  FoundOfRule'
<1> SUFFICES ASSUME NEW f \in Firers, firer'[f].pc = "write", firer'[f].found # NoId
             PROVE  incident'[firer'[f].found].rule = firer'[f].rule
  BY DEF FoundOfRule
<1>1. CASE firer'[f] = firer[f]
  <2>1. firer[f].found \in IncidentIds /\ incident[firer[f].found].state # "none"
    BY <1>1, Parts DEF Firer, Filled
  <2>2. incident[firer[f].found].rule = firer[f].rule
    BY <1>1 DEF FoundOfRule
  <2> QED
    BY <1>1, <2>1, <2>2, IncidentsRemain
<1>2. CASE /\ FoundFor(firer[f].rule, firer[f].device, firer'[f].found)
           /\ firer'[f].rule = firer[f].rule
  <2>1. firer'[f].found \in OpenIncidents(firer[f].rule, firer[f].device)
    BY <1>2 DEF FoundFor
  <2>2. /\ firer'[f].found \in IncidentIds /\ incident[firer'[f].found].state # "none"
        /\ incident[firer'[f].found].rule = firer[f].rule
    BY <2>1 DEF OpenIncidents, IsOpen
  <2> QED
    BY <1>2, <2>2, IncidentsRemain
<1> QED
  BY <1>1, <1>2, WritesFollowLookups

LEMMA GateNext ==
    ASSUME TypeOK, GateInv, [Next]_vars
    PROVE  GateInv'
<1>1. ASSUME owned', NEW r \in Rules, trigger'[r].armed
      PROVE  \/ \E i \in IncidentIds : incident'[i].state # "none" /\ incident'[i].rule = r
             \/ \E f \in Firers : /\ firer'[f].rule = r
                                  /\ firer'[f].pc \in {"device", "find", "write"}
             \/ r \in failed'
  <2>1. ~Restart /\ owned
    BY <1>1, WhoArms, FailuresOnRecord
  <2>2. CASE HasIncident(r)
    BY <2>2, IncidentsRemain DEF HasIncident
  <2>3. CASE Firing(r)
    BY <2>1, <2>3, FiringsLeaveIncidents DEF Firing, GateInv
  <2>4. ASSUME NEW f \in Firers, SetTrigger(f), firer[f].rule = r
        PROVE  firer'[f].rule = r /\ firer'[f].pc = "device"
    <3>1. firer[f] \in Firer /\ firer'[f] = [firer[f] EXCEPT !.pc = "device", !.delay = 0]
      BY <2>4, Parts DEF SetTrigger, TasksOK
    <3> QED
      BY <2>4, <3>1 DEF Firer
  <2>5. trigger[r].armed => HasIncident(r) \/ Firing(r) \/ r \in failed
    BY <2>1 DEF GateInv, GateHasIncident, HasIncident, Firing
  <2> QED
    BY <1>1, <2>2, <2>3, <2>4, <2>5, WhoArms, FailuresOnRecord
<1>2. GateHasIncident'
  BY <1>1 DEF GateHasIncident, IncidentIds
<1> QED
  BY <1>2, FoundOfRuleNext DEF GateInv

\* While the flow exists, the gate mutes a rule only if the rule has an incident, a
\* firing on its way to one, or a firing that failed since the gate was armed, for
\* any number of firings, resolutions and answers at once and restarts anywhere.
THEOREM MutedRulesHaveIncidents == Spec => []GateHasIncident
<1>1. Init => GateInv
  BY DEF Init, GateInv, GateHasIncident, FoundOfRule, NoTrigger, IdleFirer
<1>2. TypeOK /\ GateInv /\ [Next]_vars => GateInv'
  BY GateNext
<1>3. GateInv => GateHasIncident
  BY DEF GateInv
<1> QED
  BY <1>1, <1>2, <1>3, TypeCorrect, PTL DEF Spec

================================================================================
