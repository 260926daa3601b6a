--------------------------- MODULE AlertPipeline_proofs ---------------------------
(***************************************************************************)
(* Proofs about AlertPipeline, for any rules, devices, handlers in flight, *)
(* times and bounds.                                                       *)
(***************************************************************************)
EXTENDS AlertPipeline, TLAPS

USE GateAssumption, PipelineAssumption

-----------------------------------------------------------------------------
(* Type correctness                                                        *)

\* The constants and the idle records have their types.
LEMMA Defaults ==
    /\ MaxIncidents \in Nat /\ MaxNotices \in Nat /\ MaxTime \in Nat /\ CoolOff \in Nat
    /\ AnyRule \in Rules /\ AnyDevice \in Devices
    /\ NoTrigger \in Trigger /\ NoIncident \in Incident /\ NoNotice \in Notice
    /\ IdleFirer \in Firer /\ IdleResolver \in Resolver /\ IdleHandler \in Handler
<1>1. AnyRule \in Rules /\ AnyDevice \in Devices
  BY DEF AnyRule, AnyDevice
<1> QED
  BY <1>1 DEF NoTrigger, Trigger, Delays, NoIncident, Incident, NoNotice, Notice,
              IdleFirer, Firer, IdleResolver, Resolver, IdleHandler, Handler

\* A delay the gate computes from an entry is one of its delays.
LEMMA DelayInRange ==
    ASSUME NEW r \in Rules, NEW entry \in Trigger
    PROVE  NextDelay(r \in GasRules, entry) \in Delays
BY DEF NextDelay, Trigger, Delays, Lesser

\* The gate's operators return entries.
LEMMA EntriesStayEntries ==
    ASSUME NEW r \in Rules, NEW entry \in Trigger, NEW delay \in Delays,
           NEW at \in Nat, NEW now \in Nat
    PROVE  /\ Arm(r \in GasRules, at, delay, now) \in Trigger
           /\ Expire(entry, now) \in Trigger
<1>1. /\ now + MaxBackoff \in Nat
      /\ now + RuleCooldown \in Nat
  OBVIOUS
<1> QED
  BY <1>1, Defaults DEF Arm, Expire, Trigger

\* The next free slot of a collection.
LEMMA FreeSlots ==
    ASSUME StoreOK
    PROVE  /\ incidentCount < MaxIncidents =>
                /\ incidentCount + 1 \in IncidentIds
                /\ incidentCount + 1 \in 0 .. MaxIncidents
           /\ noticeCount < MaxNotices =>
                /\ noticeCount + 1 \in NoticeIds
                /\ noticeCount + 1 \in 0 .. MaxNotices
           /\ IncidentIds \subseteq Nat /\ NoticeIds \subseteq Nat
           /\ NoId \notin IncidentIds /\ NoId \notin NoticeIds
BY Defaults DEF StoreOK, IncidentIds, NoticeIds, NoId

\* The collections only grow, and a notification keeps to incidents that exist.
Grown ==
    /\ incidentCount <= incidentCount' /\ noticeCount <= noticeCount'
    /\ \A n \in NoticeIds : \/ notice'[n].incident = notice[n].incident
                            \/ notice'[n].incident <= incidentCount

\* An insert into the notifications collection.
LEMMA NoticeCreated ==
    ASSUME StoreOK, Filled, NEW type \in {"alert", "resolved"},
           NEW i \in IncidentIds \cup {NoId}, i <= incidentCount,
           NEW at \in Nat, CreateNotice(type, i, at)
    PROVE  StoreOK' /\ Filled' /\ Grown
<1>1. /\ noticeCount + 1 \in NoticeIds
      /\ noticeCount' \in 0 .. MaxNotices
  BY FreeSlots DEF CreateNotice
<1>2. [type |-> type, incident |-> i, sent |-> at,
       received |-> FALSE, handled |-> FALSE] \in Notice
  BY DEF Notice
<1>3. notice' \in [NoticeIds -> Notice]
  BY <1>1, <1>2 DEF StoreOK, CreateNotice
<1>4. ASSUME NEW n \in NoticeIds
      PROVE  notice'[n].type = "none" <=> n > noticeCount'
  <2>1. n \in Nat /\ noticeCount \in Nat /\ noticeCount' = noticeCount + 1
    BY FreeSlots DEF CreateNotice, StoreOK
  <2>2. CASE n = noticeCount + 1
    BY <1>1, <2>1, <2>2 DEF CreateNotice, StoreOK
  <2>3. CASE n # noticeCount + 1
    <3>1. notice'[n] = notice[n]
      BY <1>1, <2>3 DEF CreateNotice, StoreOK
    <3> QED
      BY <2>1, <2>3, <3>1 DEF Filled
  <2> QED
    BY <2>2, <2>3
<1>5. incidentCount' = incidentCount /\ noticeCount' = noticeCount + 1
  BY DEF CreateNotice
<1>6. ASSUME NEW n \in NoticeIds
      PROVE  \/ notice'[n].incident = notice[n].incident
             \/ notice'[n].incident <= incidentCount
  BY <1>1 DEF CreateNotice, StoreOK
<1> QED
  BY <1>1, <1>3, <1>4, <1>5, <1>6 DEF StoreOK, Filled, CreateNotice, Grown

\* An insert into the incidents collection.
LEMMA IncidentCreated ==
    ASSUME StoreOK, Filled, NEW r \in Rules, NEW d \in Devices, NEW at \in Nat,
           CreateIncident(r, d, at), UNCHANGED <<notice, noticeCount>>
    PROVE  /\ StoreOK' /\ Filled' /\ Grown
           /\ incidentCount + 1 \in IncidentIds
<1>1. /\ incidentCount + 1 \in IncidentIds
      /\ incidentCount' \in 0 .. MaxIncidents
  BY FreeSlots DEF CreateIncident
<1>2. [state |-> "open", rule |-> r, device |-> d,
       opened |-> at, last |-> at, acked |-> FALSE] \in Incident
  BY DEF Incident
<1>3. incident' \in [IncidentIds -> Incident]
  BY <1>1, <1>2 DEF StoreOK, CreateIncident
<1>4. ASSUME NEW i \in IncidentIds
      PROVE  incident'[i].state = "none" <=> i > incidentCount'
  <2>1. i \in Nat /\ incidentCount \in Nat /\ incidentCount' = incidentCount + 1
    BY FreeSlots DEF CreateIncident, StoreOK
  <2>2. CASE i = incidentCount + 1
    BY <1>1, <2>1, <2>2 DEF CreateIncident, StoreOK
  <2>3. CASE i # incidentCount + 1
    <3>1. incident'[i] = incident[i]
      BY <1>1, <2>3 DEF CreateIncident, StoreOK
    <3> QED
      BY <2>1, <2>3, <3>1 DEF Filled
  <2> QED
    BY <2>2, <2>3
<1> QED
  BY <1>1, <1>3, <1>4 DEF StoreOK, Filled, Grown, CreateIncident

LEMMA StoreGrows == ASSUME StoreOK, UNCHANGED store PROVE StoreOK' /\ Grown
BY DEF StoreOK, store, Grown, IncidentIds, NoticeIds

\* References stay good while the collections grow.
LEMMA NoticesLocated ==
    ASSUME StoreOK, StoreOK', Located, Grown
    PROVE  \A n \in NoticeIds : notice'[n].incident <= incidentCount'
<1> TAKE n \in NoticeIds
<1>1. /\ notice'[n].incident \in Nat /\ notice[n].incident \in Nat
      /\ incidentCount \in Nat /\ incidentCount' \in Nat
  BY Defaults DEF StoreOK, Notice, IncidentIds, NoId
<1>2. notice[n].incident <= incidentCount
  BY DEF Located
<1> QED
  BY <1>1, <1>2 DEF Grown

LEMMA CountsAreNaturals ==
    ASSUME StoreOK PROVE incidentCount \in Nat /\ noticeCount \in Nat
BY Defaults DEF StoreOK

\* A step of one firer keeps all types if it leaves the firer a record whose
\* incident exists.
LEMMA FirerMoves ==
    ASSUME TypeOK, NEW f \in Firers, NEW next \in Firer,
           firer' = [firer EXCEPT ![f] = next], next.found <= incidentCount',
           UNCHANGED <<resolver, handler>>, WorldOK', StoreOK', Filled', Grown
    PROVE  StateOK'
<1>0. TasksOK /\ StoreOK /\ Located
  BY DEF TypeOK, StateOK
<1>1. TasksOK'
  BY <1>0 DEF TasksOK
<1>2. /\ incidentCount \in Nat /\ incidentCount' \in Nat
      /\ noticeCount \in Nat /\ noticeCount' \in Nat
  BY <1>0, Defaults DEF StoreOK
<1>3. ASSUME NEW g \in Firers PROVE firer'[g].found <= incidentCount'
  <2>1. CASE g = f
    BY <1>0, <2>1 DEF TasksOK
  <2>2. CASE g # f
    <3>1. firer'[g] = firer[g] /\ firer[g].found \in Nat
      BY <1>0, <2>2, Defaults DEF TasksOK, Firer, IncidentIds, NoId
    <3> QED
      BY <1>0, <1>2, <3>1 DEF Located, Grown
  <2> QED
    BY <2>1, <2>2
<1>4. ASSUME NEW s \in Resolvers PROVE resolver'[s].found <= incidentCount'
  <2>1. resolver[s].found \in Nat
    BY <1>0, Defaults DEF TasksOK, Resolver, IncidentIds, NoId
  <2> QED
    BY <1>0, <1>2, <2>1 DEF Located, Grown
<1>5. ASSUME NEW h \in Handlers PROVE handler'[h].notice <= noticeCount'
  <2>1. handler[h].notice \in Nat
    BY <1>0, Defaults DEF TasksOK, Handler, IdleHandler, NoticeIds, NoId
  <2> QED
    BY <1>0, <1>2, <2>1 DEF Located, Grown
<1>6. \A n \in NoticeIds : notice'[n].incident <= incidentCount'
  BY <1>0, NoticesLocated
<1> QED
  BY <1>1, <1>3, <1>4, <1>5, <1>6 DEF TypeOK, StateOK, Located

\* The same of a resolver.
LEMMA ResolverMoves ==
    ASSUME TypeOK, NEW s \in Resolvers, NEW next \in Resolver,
           resolver' = [resolver EXCEPT ![s] = next], next.found <= incidentCount',
           UNCHANGED <<firer, handler>>, WorldOK', StoreOK', Filled', Grown
    PROVE  StateOK'
<1>0. TasksOK /\ StoreOK /\ Located
  BY DEF TypeOK, StateOK
<1>1. TasksOK'
  BY <1>0 DEF TasksOK
<1>2. /\ incidentCount \in Nat /\ incidentCount' \in Nat
      /\ noticeCount \in Nat /\ noticeCount' \in Nat
  BY <1>0, Defaults DEF StoreOK
<1>3. ASSUME NEW g \in Firers PROVE firer'[g].found <= incidentCount'
  <2>1. firer[g].found \in Nat
    BY <1>0, Defaults DEF TasksOK, Firer, IncidentIds, NoId
  <2> QED
    BY <1>0, <1>2, <2>1 DEF Located, Grown
<1>4. ASSUME NEW t \in Resolvers PROVE resolver'[t].found <= incidentCount'
  <2>1. CASE t = s
    BY <1>0, <2>1 DEF TasksOK
  <2>2. CASE t # s
    <3>1. resolver'[t] = resolver[t] /\ resolver[t].found \in Nat
      BY <1>0, <2>2, Defaults DEF TasksOK, Resolver, IncidentIds, NoId
    <3> QED
      BY <1>0, <1>2, <3>1 DEF Located, Grown
  <2> QED
    BY <2>1, <2>2
<1>5. ASSUME NEW h \in Handlers PROVE handler'[h].notice <= noticeCount'
  <2>1. handler[h].notice \in Nat
    BY <1>0, Defaults DEF TasksOK, Handler, IdleHandler, NoticeIds, NoId
  <2> QED
    BY <1>0, <1>2, <2>1 DEF Located, Grown
<1>6. \A n \in NoticeIds : notice'[n].incident <= incidentCount'
  BY <1>0, NoticesLocated
<1> QED
  BY <1>1, <1>3, <1>4, <1>5, <1>6 DEF TypeOK, StateOK, Located

\* The same of a handler.
LEMMA HandlerMoves ==
    ASSUME TypeOK, NEW h \in Handlers, NEW next \in Handler,
           handler' = [handler EXCEPT ![h] = next], next.notice <= noticeCount,
           UNCHANGED <<firer, resolver, incidentCount, noticeCount>>,
           WorldOK', StoreOK', Filled',
           \A n \in NoticeIds : notice'[n].incident = notice[n].incident
    PROVE  StateOK'
<1>0. TasksOK /\ StoreOK /\ Located
  BY DEF TypeOK, StateOK
<1>1. TasksOK'
  BY <1>0 DEF TasksOK
<1>2. ASSUME NEW g \in Handlers PROVE handler'[g].notice <= noticeCount'
  BY <1>0 DEF TasksOK, Located
<1> QED
  BY <1>0, <1>1, <1>2 DEF TypeOK, StateOK, Located

\* Going on with the loop, or returning.
LEMMA NextRuleMoves ==
    ASSUME TasksOK, StoreOK, NEW f \in Firers, NEW rest \in SUBSET Rules, NextRule(f, rest)
    PROVE  \E next \in Firer :
                /\ firer' = [firer EXCEPT ![f] = next]
                /\ next.found <= incidentCount
                /\ next.pc \in {"idle", "loop"} /\ next.found = NoId
<1> DEFINE next == IF rest = {} THEN IdleFirer
                   ELSE [IdleFirer EXCEPT !.pc = "loop", !.todo = rest,
                                          !.hazard = @ \cup (firer[f].hazard \cap rest),
                                          !.at = firer[f].at]
<1>1. firer[f] \in Firer /\ incidentCount \in Nat
  BY Defaults DEF TasksOK, StoreOK
<1>2. next \in Firer /\ next.found = NoId /\ next.pc \in {"idle", "loop"}
  BY <1>1, Defaults DEF Firer, IdleFirer
<1>3. firer' = [firer EXCEPT ![f] = next]
  BY DEF NextRule
<1>4. next.found <= incidentCount
  BY <1>1, <1>2 DEF NoId
<1> HIDE DEF next
<1> USE <1>2
<1> WITNESS next \in Firer
<1> QED
  BY <1>2, <1>3, <1>4

\* The lookup only finds incidents that exist.
LEMMA FoundExists ==
    ASSUME StoreOK, Filled, NEW r, NEW d, NEW i, FoundFor(r, d, i)
    PROVE  /\ i <= incidentCount
           /\ i # NoId => i \in IncidentIds /\ IsOpen(i)
<1>1. incidentCount \in Nat
  BY CountsAreNaturals
<1>2. i # NoId => i \in IncidentIds /\ IsOpen(i)
  BY DEF FoundFor, OpenIncidents
<1>3. CASE i # NoId
  <2>1. i \in Nat /\ incident[i].state # "none"
    BY <1>2, <1>3, FreeSlots DEF IsOpen
  <2> QED
    BY <1>1, <1>2, <1>3, <2>1 DEF Filled
<1> QED
  BY <1>1, <1>2, <1>3 DEF NoId

LEMMA TypeInit == Init => TypeOK
<1> SUFFICES ASSUME Init PROVE TypeOK
  OBVIOUS
<1>1. WorldOK /\ TasksOK
  BY Defaults DEF Init, WorldOK, TasksOK
<1>2. StoreOK
  BY Defaults DEF Init, StoreOK
<1>3. Filled
  BY Defaults DEF Init, Filled, NoIncident, NoNotice, IncidentIds, NoticeIds
<1>4. Located
  BY DEF Init, Located, IdleFirer, IdleResolver, IdleHandler, NoNotice, NoId
<1>5. HistoryOK
  BY DEF Init, HistoryOK
<1> QED
  BY <1>1, <1>2, <1>3, <1>4, <1>5 DEF TypeOK, StateOK

\* The parts of the type invariant a step needs, and what it leaves of them when
\* it touches neither the collections nor the world.
LEMMA Parts ==
    ASSUME TypeOK
    PROVE  /\ WorldOK /\ TasksOK /\ StoreOK /\ Filled /\ Located
           /\ incidentCount \in Nat /\ noticeCount \in Nat
           /\ \A f \in Firers :
                firer[f] \in Firer /\ firer[f].found \in 0 .. incidentCount
           /\ \A s \in Resolvers :
                resolver[s] \in Resolver /\ resolver[s].found \in 0 .. incidentCount
           /\ \A h \in Handlers :
                handler[h] \in Handler /\ handler[h].notice \in 0 .. noticeCount
           /\ \A n \in NoticeIds : notice[n].incident \in 0 .. incidentCount
           /\ UNCHANGED store => StoreOK' /\ Filled' /\ Grown
           /\ UNCHANGED <<world, trigger>> => WorldOK'
<1>1. WorldOK /\ TasksOK /\ StoreOK /\ Filled /\ Located
  BY DEF TypeOK, StateOK
<1>2. incidentCount \in Nat /\ noticeCount \in Nat
  BY <1>1, CountsAreNaturals
<1>3. ASSUME NEW f \in Firers
      PROVE  firer[f] \in Firer /\ firer[f].found \in 0 .. incidentCount
  BY <1>1, <1>2, Defaults DEF TasksOK, Located, Firer, IncidentIds, NoId
<1>4. ASSUME NEW s \in Resolvers
      PROVE  resolver[s] \in Resolver /\ resolver[s].found \in 0 .. incidentCount
  BY <1>1, <1>2, Defaults DEF TasksOK, Located, Resolver, IncidentIds, NoId
<1>5. ASSUME NEW h \in Handlers
      PROVE  handler[h] \in Handler /\ handler[h].notice \in 0 .. noticeCount
  BY <1>1, <1>2, Defaults DEF TasksOK, Located, Handler, IdleHandler, NoticeIds, NoId
<1>6. ASSUME NEW n \in NoticeIds PROVE notice[n].incident \in 0 .. incidentCount
  BY <1>1, <1>2, Defaults DEF StoreOK, Located, Notice, IncidentIds, NoId
<1>7. ASSUME UNCHANGED store PROVE StoreOK' /\ Filled' /\ Grown
  <2>1. StoreOK' /\ Grown
    BY <1>1, <1>7, StoreGrows
  <2>2. Filled'
    BY <1>1, <1>7 DEF store, Filled, IncidentIds, NoticeIds
  <2> QED
    BY <2>1, <2>2
<1>8. UNCHANGED <<world, trigger>> => WorldOK'
  BY <1>1 DEF WorldOK, world
<1> QED
  BY <1>1, <1>2, <1>3, <1>4, <1>5, <1>6, <1>7, <1>8

\* The same when the step touches nothing but the firer.
LEMMA FirerMovesOnly ==
    ASSUME TypeOK, NEW f \in Firers, NEW next \in Firer,
           firer' = [firer EXCEPT ![f] = next], next.found <= incidentCount,
           UNCHANGED <<world, trigger, store, resolver, handler>>
    PROVE  StateOK'
<1>1. WorldOK' /\ StoreOK' /\ Filled' /\ Grown
  BY Parts
<1>2. incidentCount' = incidentCount /\ UNCHANGED <<resolver, handler>>
  BY DEF store
<1> QED
  BY <1>1, <1>2, FirerMoves

LEMMA FirerType ==
    ASSUME TypeOK, NEW f \in Firers, FirerStep(f)
    PROVE  StateOK'
<1> USE Defaults
<1>0. /\ WorldOK /\ TasksOK /\ StoreOK /\ Filled /\ Located
      /\ firer[f] \in Firer /\ firer[f].found <= incidentCount
      /\ clock \in Nat /\ flowDevice \in Devices
      /\ trigger \in [Rules -> Trigger] /\ NoId <= incidentCount
      /\ incidentCount \in Nat
  BY Parts DEF WorldOK, NoId
<1>1. ASSUME NEW carried \in SUBSET Rules, NEW hazard \in SUBSET carried,
             ProcessSensorReading(f, carried, hazard)
      PROVE StateOK'
  <2>1. [IdleFirer EXCEPT !.pc = "loop", !.todo = carried, !.hazard = hazard,
                          !.at = clock] \in Firer
    BY <1>0 DEF Firer, IdleFirer
  <2>2. [IdleFirer EXCEPT !.pc = "loop", !.todo = carried, !.hazard = hazard,
                          !.at = clock].found = NoId
    BY DEF IdleFirer
  <2> QED
    BY <1>0, <1>1, <2>1, <2>2, FirerMovesOnly DEF ProcessSensorReading
<1>2. ASSUME NEW r \in Rules, NEW at \in Bodies, TriggerAlert(f, r, at)
      PROVE StateOK'
  <2>1. [IdleFirer EXCEPT !.pc = "device", !.rule = r, !.at = at] \in Firer
    BY DEF Firer, IdleFirer
  <2>2. [IdleFirer EXCEPT !.pc = "device", !.rule = r, !.at = at].found = NoId
    BY DEF IdleFirer
  <2> QED
    BY <1>0, <1>2, <2>1, <2>2, FirerMovesOnly DEF TriggerAlert
<1>3. ASSUME NEW r \in Rules, ResetRuleTriggerState(f, r)
      PROVE StateOK'
  <2>1. NextRule(f, firer[f].todo \ {r}) /\ firer[f].todo \ {r} \in SUBSET Rules
    BY <1>0, <1>3 DEF ResetRuleTriggerState, Firer
  <2>2. PICK next \in Firer : /\ firer' = [firer EXCEPT ![f] = next]
                              /\ next.found <= incidentCount
    BY <2>1, <1>0, NextRuleMoves
  <2>3. WorldOK'
    BY <1>0, <1>3 DEF ResetRuleTriggerState, WorldOK, world
  <2>4. UNCHANGED <<store, resolver, handler>>
    BY <1>3 DEF ResetRuleTriggerState
  <2>5. StoreOK' /\ Filled' /\ Grown /\ incidentCount' = incidentCount
    BY <2>4, Parts DEF store
  <2> QED
    BY <2>2, <2>3, <2>4, <2>5, FirerMoves
<1>4. ASSUME NEW r \in Rules, ReadTrigger(f, r)
      PROVE StateOK'
  <2>1. CASE Blocks(trigger[r], firer[f].at)
    <3>1. NextRule(f, firer[f].todo \ {r}) /\ firer[f].todo \ {r} \in SUBSET Rules
      BY <1>0, <1>4, <2>1 DEF ReadTrigger, Firer
    <3>2. PICK next \in Firer : /\ firer' = [firer EXCEPT ![f] = next]
                                /\ next.found <= incidentCount
      BY <3>1, <1>0, NextRuleMoves
    <3> QED
      BY <1>4, <3>2, FirerMovesOnly DEF ReadTrigger
  <2>2. CASE ~Blocks(trigger[r], firer[f].at)
    <3> DEFINE delay == NextDelay(r \in GasRules, trigger[r])
               next == [firer[f] EXCEPT !.pc = "set", !.rule = r,
                    !.todo = firer[f].todo \ {r}, !.hazard = firer[f].hazard \ {r},
                    !.delay = delay]
    <3>1. delay \in Delays
      BY <1>0, DelayInRange
    <3>2. firer' = [firer EXCEPT ![f] = [@ EXCEPT
                !.pc = "set", !.rule = r,
                !.todo = firer[f].todo \ {r}, !.hazard = firer[f].hazard \ {r},
                !.delay = delay]]
      BY <1>4, <2>2 DEF ReadTrigger
    <3> HIDE DEF delay
    <3>3. next \in Firer /\ next.found = firer[f].found
      BY <1>0, <3>1 DEF Firer
    <3>4. firer' = [firer EXCEPT ![f] = next]
      BY <1>0, <3>2 DEF TasksOK
    <3>5. UNCHANGED <<world, trigger, store, resolver, handler>>
      BY <1>4 DEF ReadTrigger
    <3> HIDE DEF next
    <3> QED
      BY <1>0, <3>3, <3>4, <3>5, FirerMovesOnly
  <2> QED
    BY <2>1, <2>2
<1>5. CASE SetTrigger(f)
  <2> DEFINE next == [firer[f] EXCEPT !.pc = "device", !.delay = 0]
  <2>1. /\ firer[f].rule \in Rules /\ firer[f].delay \in Delays
        /\ firer[f].at \in Nat /\ 0 \in Delays
    BY <1>0 DEF Firer, Delays
  <2>2. Arm(firer[f].rule \in GasRules, firer[f].at, firer[f].delay, clock) \in Trigger
    BY <1>0, <2>1, EntriesStayEntries
  <2>3. next \in Firer /\ next.found = firer[f].found
    BY <1>0, <2>1 DEF Firer
  <2>4. firer' = [firer EXCEPT ![f] = next]
    BY <1>0, <1>5 DEF SetTrigger, TasksOK
  <2>5. WorldOK'
    BY <1>0, <1>5, <2>1, <2>2 DEF SetTrigger, WorldOK, world
  <2>6. UNCHANGED <<store, resolver, handler>>
    BY <1>5 DEF SetTrigger
  <2>7. StoreOK' /\ Filled' /\ Grown /\ incidentCount' = incidentCount
    BY <2>6, Parts DEF store
  <2> HIDE DEF next
  <2> QED
    BY <1>0, <2>3, <2>4, <2>5, <2>6, <2>7, FirerMoves
<1>6. CASE GetFlowNotificationDeviceId(f)
  <2> DEFINE next == [firer[f] EXCEPT !.pc = "find", !.device = flowDevice]
  <2>1. next \in Firer /\ next.found = firer[f].found
    BY <1>0 DEF Firer
  <2>2. firer' = [firer EXCEPT ![f] = next]
    BY <1>0, <1>6 DEF GetFlowNotificationDeviceId, TasksOK
  <2>3. UNCHANGED <<world, trigger, store, resolver, handler>>
    BY <1>6 DEF GetFlowNotificationDeviceId
  <2> HIDE DEF next
  <2> QED
    BY <1>0, <2>1, <2>2, <2>3, FirerMovesOnly
<1>7. CASE FindOpenIncident(f)
  <2>1. UNCHANGED <<world, trigger, store, resolver, handler>>
    BY <1>7 DEF FindOpenIncident
  <2>2. PICK i \in IncidentIds \cup {NoId} :
          /\ FoundFor(firer[f].rule, firer[f].device, i)
          /\ IF i # NoId /\ Suppressed(i, firer[f].at)
             THEN NextRule(f, firer[f].todo)
             ELSE firer' = [firer EXCEPT ![f] = [@ EXCEPT !.pc = "write", !.found = i]]
    BY <1>7 DEF FindOpenIncident
  <2>3. CASE i # NoId /\ Suppressed(i, firer[f].at)
    <3>1. NextRule(f, firer[f].todo) /\ firer[f].todo \in SUBSET Rules
      BY <1>0, <2>2, <2>3 DEF Firer
    <3>2. PICK next \in Firer : /\ firer' = [firer EXCEPT ![f] = next]
                                /\ next.found <= incidentCount
      BY <3>1, <1>0, NextRuleMoves
    <3> QED
      BY <2>1, <3>2, FirerMovesOnly
  <2>4. CASE ~(i # NoId /\ Suppressed(i, firer[f].at))
    <3> DEFINE next == [firer[f] EXCEPT !.pc = "write", !.found = i]
    <3>1. next \in Firer /\ next.found = i
      BY <1>0 DEF Firer
    <3>2. i <= incidentCount
      BY <1>0, <2>2, FoundExists
    <3>3. firer' = [firer EXCEPT ![f] = next]
      BY <1>0, <2>2, <2>4 DEF TasksOK
    <3> HIDE DEF next
    <3> QED
      BY <2>1, <3>1, <3>2, <3>3, FirerMovesOnly
  <2> QED
    BY <2>3, <2>4
<1>8. CASE OpenNewIncident(f)
  <2> DEFINE next == [firer[f] EXCEPT !.pc = "notify", !.found = incidentCount + 1,
                                      !.device = AnyDevice]
  <2>1. firer[f].rule \in Rules /\ firer[f].device \in Devices /\ firer[f].at \in Nat
    BY <1>0 DEF Firer
  <2>2. StoreOK' /\ Filled' /\ Grown /\ incidentCount + 1 \in IncidentIds
    BY <1>0, <1>8, <2>1, IncidentCreated DEF OpenNewIncident
  <2>3. next \in Firer /\ next.found = incidentCount'
    BY <1>0, <1>8, <2>2 DEF Firer, OpenNewIncident, CreateIncident
  <2>4. firer' = [firer EXCEPT ![f] = next]
    BY <1>0, <1>8 DEF OpenNewIncident, TasksOK
  <2>5. WorldOK' /\ UNCHANGED <<resolver, handler>>
    BY <1>8, Parts DEF OpenNewIncident
  <2>6. incidentCount' <= incidentCount'
    BY <2>2, CountsAreNaturals DEF StoreOK
  <2> HIDE DEF next
  <2> QED
    BY <2>2, <2>3, <2>4, <2>5, <2>6, FirerMoves
<1>9. CASE UpdateIncidentForAlert(f)
  <2> DEFINE next == [firer[f] EXCEPT !.pc = "notify", !.device = AnyDevice]
  <2>1. firer[f].found \in IncidentIds /\ firer[f].at \in Nat
    BY <1>0, <1>9 DEF UpdateIncidentForAlert, Firer
  <2>2. next \in Firer /\ next.found = firer[f].found
    BY <1>0 DEF Firer
  <2>3. firer' = [firer EXCEPT ![f] = next]
    BY <1>0, <1>9 DEF UpdateIncidentForAlert, TasksOK
  <2>4. [incident[firer[f].found] EXCEPT !.last = firer[f].at] \in Incident
    BY <1>0, <2>1 DEF StoreOK, Incident
  <2>5. incident' \in [IncidentIds -> Incident]
    BY <1>0, <1>9, <2>1, <2>4 DEF UpdateIncidentForAlert, StoreOK
  <2>6. \A i \in IncidentIds : incident'[i].state = incident[i].state
    BY <1>0, <1>9, <2>1 DEF UpdateIncidentForAlert, StoreOK, Incident
  <2>7. StoreOK' /\ Filled' /\ Grown
    BY <1>0, <1>9, <2>5, <2>6 DEF UpdateIncidentForAlert, StoreOK, Filled, Grown
  <2>8. WorldOK' /\ UNCHANGED <<resolver, handler, incidentCount>>
    BY <1>9, Parts DEF UpdateIncidentForAlert
  <2> HIDE DEF next
  <2> QED
    BY <1>0, <2>2, <2>3, <2>7, <2>8, FirerMoves
<1>10. CASE CreateAlert(f)
  <2> DEFINE next == [firer[f] EXCEPT !.pc = "push"]
  <2>1. next \in Firer /\ next.found = firer[f].found
    BY <1>0 DEF Firer
  <2>2. firer' = [firer EXCEPT ![f] = next]
    BY <1>0, <1>10 DEF CreateAlert, TasksOK
  <2>3. firer[f].found \in IncidentIds \cup {NoId} /\ firer[f].at \in Nat
    BY <1>0 DEF Firer
  <2>4. firer[f].found <= incidentCount
    BY <1>0
  <2>5. StoreOK' /\ Filled' /\ Grown
    BY <1>0, <1>10, <2>3, <2>4, NoticeCreated DEF CreateAlert
  <2>6. WorldOK' /\ UNCHANGED <<resolver, handler, incidentCount>>
    BY <1>10, Parts DEF CreateAlert, CreateNotice
  <2> HIDE DEF next
  <2> QED
    BY <2>1, <2>2, <2>4, <2>5, <2>6, FirerMoves
<1>11. CASE FlowNotFound(f) \/ SendAlert(f) \/ FirerThrows(f)
  <2>1. PICK rest \in SUBSET Rules : NextRule(f, rest)
    BY <1>0, <1>11 DEF FlowNotFound, SendAlert, FirerThrows, Firer
  <2>2. PICK next \in Firer : /\ firer' = [firer EXCEPT ![f] = next]
                              /\ next.found <= incidentCount
    BY <2>1, <1>0, NextRuleMoves
  <2>3. UNCHANGED <<world, trigger, store, resolver, handler>>
    BY <1>11 DEF FlowNotFound, SendAlert, FirerThrows
  <2> QED
    BY <2>2, <2>3, FirerMovesOnly
<1> QED
  BY <1>1, <1>2, <1>3, <1>4, <1>5, <1>6, <1>7, <1>8, <1>9, <1>10, <1>11 DEF FirerStep

\* The same of a step that touches nothing but the resolver.
LEMMA ResolverMovesOnly ==
    ASSUME TypeOK, NEW s \in Resolvers, NEW next \in Resolver,
           resolver' = [resolver EXCEPT ![s] = next], next.found <= incidentCount,
           UNCHANGED <<world, trigger, store, firer, handler>>
    PROVE  StateOK'
<1>1. WorldOK' /\ StoreOK' /\ Filled' /\ Grown
  BY Parts
<1>2. incidentCount' = incidentCount /\ UNCHANGED <<firer, handler>>
  BY DEF store
<1> QED
  BY <1>1, <1>2, ResolverMoves

LEMMA ResolverType ==
    ASSUME TypeOK, NEW s \in Resolvers, ResolverStep(s)
    PROVE  StateOK'
<1> USE Defaults
<1>0. /\ WorldOK /\ TasksOK /\ StoreOK /\ Filled /\ Located
      /\ resolver[s] \in Resolver /\ resolver[s].found \in 0 .. incidentCount
      /\ flowDevice \in Devices /\ NoId <= incidentCount /\ incidentCount \in Nat
  BY Parts DEF WorldOK, NoId
<1>1. ASSUME NEW r \in Rules, NEW at \in Bodies, TriggerResolved(s, r, at)
      PROVE StateOK'
  <2>1. [IdleResolver EXCEPT !.pc = "device", !.rule = r, !.at = at] \in Resolver
    BY DEF Resolver, IdleResolver
  <2>2. [IdleResolver EXCEPT !.pc = "device", !.rule = r, !.at = at].found = NoId
    BY DEF IdleResolver
  <2> QED
    BY <1>0, <1>1, <2>1, <2>2, ResolverMovesOnly DEF TriggerResolved
<1>2. CASE ResolverReadsDevice(s)
  <2> DEFINE next == [resolver[s] EXCEPT !.pc = "find", !.device = flowDevice]
  <2>1. next \in Resolver /\ next.found = resolver[s].found
    BY <1>0 DEF Resolver
  <2>2. resolver' = [resolver EXCEPT ![s] = next]
    BY <1>0, <1>2 DEF ResolverReadsDevice, TasksOK
  <2>3. UNCHANGED <<world, trigger, store, firer, handler>>
    BY <1>2 DEF ResolverReadsDevice
  <2>4. next.found <= incidentCount
    BY <1>0, <2>1
  <2> HIDE DEF next
  <2> QED
    BY <2>1, <2>2, <2>3, <2>4, ResolverMovesOnly
<1>3. CASE ResolverFindsIncident(s)
  <2>1. PICK i \in IncidentIds \cup {NoId} :
          /\ FoundFor(resolver[s].rule, resolver[s].device, i)
          /\ resolver' = [resolver EXCEPT ![s] =
                IF i = NoId THEN IdleResolver ELSE [@ EXCEPT !.pc = "save", !.found = i]]
    BY <1>3 DEF ResolverFindsIncident
  <2> DEFINE next == IF i = NoId THEN IdleResolver
                     ELSE [resolver[s] EXCEPT !.pc = "save", !.found = i]
  <2>2. next \in Resolver /\ next.found = i
    BY <1>0 DEF Resolver, IdleResolver
  <2>3. i <= incidentCount
    BY <1>0, <2>1, FoundExists
  <2>4. resolver' = [resolver EXCEPT ![s] = next]
    BY <1>0, <2>1 DEF TasksOK
  <2>5. UNCHANGED <<world, trigger, store, firer, handler>>
    BY <1>3 DEF ResolverFindsIncident
  <2> HIDE DEF next
  <2> QED
    BY <2>2, <2>3, <2>4, <2>5, ResolverMovesOnly
<1>4. CASE CloseIncident(s)
  <2> DEFINE next == [resolver[s] EXCEPT !.pc = "notify", !.device = AnyDevice]
             i == resolver[s].found
  <2>1. /\ next \in Resolver /\ next.found = i
        /\ i \in IncidentIds \cup {NoId} /\ resolver[s].at \in Nat
    BY <1>0 DEF Resolver
  <2>2. resolver' = [resolver EXCEPT ![s] = next]
    BY <1>0, <1>4 DEF CloseIncident, TasksOK
  <2>3. incident' = [incident EXCEPT ![i] =
            [incident[i] EXCEPT !.state = "closed", !.last = resolver[s].at]]
    BY <1>0, <1>4 DEF CloseIncident, StoreOK
  <2>4. incident' \in [IncidentIds -> Incident]
    <3>1. CASE i = NoId
      BY <1>0, <2>3, <3>1, FreeSlots DEF StoreOK
    <3>2. CASE i \in IncidentIds
      <4>1. [incident[i] EXCEPT !.state = "closed", !.last = resolver[s].at] \in Incident
        BY <1>0, <2>1, <3>2 DEF StoreOK, Incident
      <4> QED
        BY <1>0, <2>3, <3>2, <4>1 DEF StoreOK
    <3> QED
      BY <2>1, <3>1, <3>2
  <2>5. ASSUME NEW j \in IncidentIds
        PROVE  incident'[j].state = "none" <=> incident[j].state = "none"
    <3>1. CASE j = i
      <4>1. incident[j].state # "none"
        BY <1>0, <3>1 DEF Filled
      <4>2. incident'[j].state = "closed"
        BY <1>0, <2>3, <3>1 DEF StoreOK, Incident
      <4> QED
        BY <4>1, <4>2
    <3>2. CASE j # i
      BY <1>0, <2>3, <3>2 DEF StoreOK
    <3> QED
      BY <3>1, <3>2
  <2>6. UNCHANGED <<incidentCount, notice, noticeCount, firer, handler>>
    BY <1>4 DEF CloseIncident
  <2>7. StoreOK' /\ Grown
    BY <1>0, <2>4, <2>6, Parts DEF StoreOK, Grown
  <2>8. Filled'
    BY <1>0, <2>5, <2>6 DEF Filled
  <2>9. WorldOK' /\ next.found <= incidentCount'
    BY <1>0, <1>4, <2>1, <2>6, Parts DEF CloseIncident
  <2> HIDE DEF next
  <2> QED
    BY <2>1, <2>2, <2>6, <2>7, <2>8, <2>9, ResolverMoves
<1>5. CASE CreateResolved(s)
  <2>1. /\ resolver[s].found \in IncidentIds \cup {NoId} /\ resolver[s].at \in Nat
        /\ resolver[s].found <= incidentCount
    BY <1>0 DEF Resolver
  <2>2. StoreOK' /\ Filled' /\ Grown
    BY <1>0, <1>5, <2>1, NoticeCreated DEF CreateResolved
  <2>3. WorldOK' /\ UNCHANGED <<firer, handler, incidentCount>>
    BY <1>5, Parts DEF CreateResolved, CreateNotice
  <2>4. resolver' = [resolver EXCEPT ![s] = IdleResolver]
    BY <1>5 DEF CreateResolved
  <2>5. IdleResolver.found <= incidentCount'
    BY <1>0, <2>3 DEF IdleResolver
  <2> QED
    BY <2>2, <2>3, <2>4, <2>5, ResolverMoves
<1>6. CASE ResolverFindsNoFlow(s) \/ ResolverThrows(s)
  <2>1. /\ resolver' = [resolver EXCEPT ![s] = IdleResolver]
        /\ UNCHANGED <<world, trigger, store, firer, handler>>
    BY <1>6 DEF ResolverFindsNoFlow, ResolverThrows
  <2>2. IdleResolver.found <= incidentCount
    BY <1>0 DEF IdleResolver
  <2> QED
    BY <2>1, <2>2, ResolverMovesOnly
<1> QED
  BY <1>1, <1>2, <1>3, <1>4, <1>5, <1>6 DEF ResolverStep

\* Marking notifications keeps the collections well-formed.
LEMMA NoticesMarked ==
    ASSUME StoreOK, Filled, notice' \in [NoticeIds -> Notice],
           UNCHANGED <<incident, incidentCount, noticeCount>>,
           \A n \in NoticeIds : notice'[n].type = notice[n].type
    PROVE  StoreOK' /\ Filled'
BY DEF StoreOK, Filled

LEMMA HandlerType ==
    ASSUME TypeOK, NEW h \in Handlers, HandlerStep(h)
    PROVE  StateOK'
<1> USE Defaults
<1>0. /\ WorldOK /\ TasksOK /\ StoreOK /\ Filled /\ Located
      /\ handler[h] \in Handler /\ handler[h].notice \in 0 .. noticeCount
      /\ noticeCount \in Nat
  BY Parts
<1>1. ASSUME NEW n \in NoticeIds, MarkNotificationHandled(h, n)
      PROVE  StateOK'
  <2> DEFINE next == [pc |-> "ack", notice |-> n]
  <2>1. next \in Handler /\ next.notice = n
    BY DEF Handler
  <2>2. n <= noticeCount
    BY <1>0, <1>1, FreeSlots DEF Filled, MarkNotificationHandled
  <2>3. [notice[n] EXCEPT !.handled = TRUE, !.received = TRUE] \in Notice
    BY <1>0 DEF StoreOK, Notice
  <2>4. notice' \in [NoticeIds -> Notice]
    BY <1>0, <1>1, <2>3 DEF MarkNotificationHandled, StoreOK
  <2>5. \A m \in NoticeIds : /\ notice'[m].type = notice[m].type
                             /\ notice'[m].incident = notice[m].incident
    BY <1>0, <1>1 DEF MarkNotificationHandled, StoreOK, Notice
  <2>6. StoreOK' /\ Filled'
    BY <1>0, <1>1, <2>4, <2>5, NoticesMarked DEF MarkNotificationHandled
  <2>7. /\ WorldOK' /\ UNCHANGED <<firer, resolver, incidentCount, noticeCount>>
        /\ handler' = [handler EXCEPT ![h] = next]
    BY <1>1, Parts DEF MarkNotificationHandled
  <2> HIDE DEF next
  <2> QED
    BY <2>1, <2>2, <2>5, <2>6, <2>7, HandlerMoves
<1>2. CASE AcknowledgeIncident(h)
  <2> DEFINE next == [handler[h] EXCEPT !.pc = "rest"]
             i == notice[handler[h].notice].incident
  <2>1. next \in Handler /\ next.notice = handler[h].notice
    BY <1>0, <1>2 DEF AcknowledgeIncident, Handler, IdleHandler
  <2>2. handler' = [handler EXCEPT ![h] = next]
    BY <1>0, <1>2 DEF AcknowledgeIncident, TasksOK
  <2>3. incident' = [incident EXCEPT ![i] = [incident[i] EXCEPT !.acked = TRUE]]
    BY <1>0, <1>2 DEF AcknowledgeIncident, StoreOK
  <2> HIDE DEF i
  <2>4. ASSUME NEW j \in IncidentIds
        PROVE  /\ incident'[j] \in Incident /\ incident'[j].state = incident[j].state
    <3>1. CASE j = i
      BY <1>0, <2>3, <3>1 DEF StoreOK, Incident
    <3>2. CASE j # i
      BY <1>0, <2>3, <3>2 DEF StoreOK
    <3> QED
      BY <3>1, <3>2
  <2>5. incident' \in [IncidentIds -> Incident]
    <3>1. incident' = [j \in IncidentIds |-> incident'[j]]
      BY <1>0, <2>3 DEF StoreOK
    <3> QED
      BY <2>4, <3>1
  <2>6. WorldOK' /\ UNCHANGED <<firer, resolver, incidentCount, notice, noticeCount>>
    BY <1>2, Parts DEF AcknowledgeIncident
  <2>7. StoreOK' /\ Filled'
    BY <1>0, <2>4, <2>5, <2>6 DEF StoreOK, Filled
  <2>8. next.notice <= noticeCount
    BY <1>0, <2>1
  <2> HIDE DEF next
  <2> QED
    BY <2>1, <2>2, <2>6, <2>7, <2>8, HandlerMoves
<1>3. CASE HandleOthers(h)
  <2>1. ASSUME NEW m \in NoticeIds
        PROVE  /\ notice'[m] \in Notice /\ notice'[m].type = notice[m].type
               /\ notice'[m].incident = notice[m].incident
    <3>1. /\ notice[m] \in Notice
          /\ notice'[m] \in {notice[m], [notice[m] EXCEPT !.handled = TRUE, !.received = TRUE]}
      BY <1>0, <1>3 DEF HandleOthers, StoreOK
    <3> QED
      BY <3>1 DEF Notice
  <2>2. notice' \in [NoticeIds -> Notice]
    <3>1. notice' = [m \in NoticeIds |-> notice'[m]]
      BY <1>3 DEF HandleOthers
    <3> QED
      BY <2>1, <3>1
  <2>3. StoreOK' /\ Filled'
    BY <1>0, <1>3, <2>1, <2>2, NoticesMarked DEF HandleOthers
  <2>4. /\ WorldOK' /\ UNCHANGED <<firer, resolver, incidentCount, noticeCount>>
        /\ handler' = [handler EXCEPT ![h] = IdleHandler]
    BY <1>3, Parts DEF HandleOthers
  <2>5. IdleHandler.notice <= noticeCount
    BY <1>0 DEF IdleHandler, NoId
  <2> QED
    BY <2>1, <2>3, <2>4, <2>5, HandlerMoves
<1>4. CASE HandlerThrows(h)
  <2>1. /\ handler' = [handler EXCEPT ![h] = IdleHandler]
        /\ UNCHANGED <<world, trigger, store, firer, resolver>>
    BY <1>4 DEF HandlerThrows
  <2>2. WorldOK' /\ StoreOK' /\ Filled' /\ UNCHANGED <<incidentCount, noticeCount, notice>>
    BY <2>1, Parts DEF store
  <2>3. IdleHandler.notice <= noticeCount
    BY <1>0 DEF IdleHandler, NoId
  <2> QED
    BY <2>1, <2>2, <2>3, HandlerMoves
<1> QED
  BY <1>1, <1>2, <1>3, <1>4 DEF HandlerStep

LEMMA StateNext == TypeOK /\ [Next]_vars => StateOK'
<1> SUFFICES ASSUME TypeOK, [Next]_vars PROVE StateOK'
  OBVIOUS
<1> USE Defaults
<1>0. /\ WorldOK /\ TasksOK /\ StoreOK /\ Filled /\ Located
      /\ incidentCount \in Nat /\ noticeCount \in Nat
  BY Parts
<1>1. ASSUME NEW n \in NoticeIds, RecordNotificationReceipt(n)
      PROVE  StateOK'
  <2>1. [notice[n] EXCEPT !.received = TRUE] \in Notice
    BY <1>0 DEF StoreOK, Notice
  <2>2. notice' \in [NoticeIds -> Notice]
    BY <1>0, <1>1, <2>1 DEF RecordNotificationReceipt, StoreOK
  <2>3. \A m \in NoticeIds : /\ notice'[m].type = notice[m].type
                             /\ notice'[m].incident = notice[m].incident
    BY <1>0, <1>1 DEF RecordNotificationReceipt, StoreOK, Notice
  <2>4. StoreOK' /\ Filled'
    BY <1>0, <1>1, <2>2, <2>3, NoticesMarked DEF RecordNotificationReceipt
  <2>5. WorldOK' /\ TasksOK' /\ Located'
    BY <1>0, <1>1, <2>3, Parts DEF RecordNotificationReceipt, tasks, TasksOK, Located
  <2> QED
    BY <2>4, <2>5 DEF StateOK
<1>2. CASE Tick
  <2>1. \A r \in Rules : Expire(trigger[r], clock + 1) \in Trigger
    BY <1>0 DEF WorldOK, Expire
  <2>2. WorldOK'
    BY <1>0, <1>2, <2>1 DEF Tick, WorldOK
  <2>3. UNCHANGED <<store, tasks>>
    BY <1>2 DEF Tick
  <2> QED
    BY <1>0, <2>2, <2>3, Parts DEF store, tasks, StateOK, TasksOK, Located
<1>3. ASSUME NEW d \in Devices, RelinkFlow(d)
      PROVE  StateOK'
  <2>1. WorldOK' /\ UNCHANGED <<store, tasks>>
    BY <1>0, <1>3 DEF RelinkFlow, WorldOK
  <2> QED
    BY <1>0, <2>1, Parts DEF store, tasks, StateOK, TasksOK, Located
<1>6. CASE DeleteFlow
  <2>1. WorldOK' /\ UNCHANGED <<store, tasks>>
    BY <1>0, <1>6 DEF DeleteFlow, WorldOK
  <2> QED
    BY <1>0, <2>1, Parts DEF store, tasks, StateOK, TasksOK, Located
<1>4. CASE Restart
  <2>1. WorldOK'
    BY <1>0, <1>4 DEF Restart, WorldOK
  <2>2. TasksOK'
    BY <1>4 DEF Restart, TasksOK
  <2>3. StoreOK' /\ Filled' /\ UNCHANGED store
    BY <1>4, Parts DEF Restart
  <2>4. Located'
    BY <1>0, <1>4, <2>3 DEF Restart, Located, store, IdleFirer, IdleResolver, IdleHandler, NoId
  <2> QED
    BY <2>1, <2>2, <2>3, <2>4 DEF StateOK
<1>5. CASE UNCHANGED vars
  BY <1>0, <1>5 DEF vars, world, store, tasks, StateOK, WorldOK, TasksOK, StoreOK, Filled,
     Located, IncidentIds, NoticeIds
<1> QED
  BY <1>1, <1>2, <1>3, <1>4, <1>5, <1>6, FirerType, ResolverType, HandlerType DEF Next

\* Every reachable state has its types, the collections are filled from the
\* front and no handler or notification refers to a document that is not there.
\* The steps that add to the history.
LEMMA WhatRecords ==
    ASSUME [Next]_vars
    PROVE  \/ UNCHANGED aux
           \/ \E f \in Firers : SetTrigger(f) \/ FirerThrows(f)
           \/ \E s \in Resolvers : ResolverThrows(s)
           \/ \E h \in Handlers : HandleOthers(h) \/ HandlerThrows(h)
           \/ Restart
<1>1. ASSUME NEW f \in Firers, FirerStep(f)
      PROVE  UNCHANGED aux \/ SetTrigger(f) \/ FirerThrows(f)
  BY <1>1 DEF FirerStep, ProcessSensorReading, TriggerAlert, ResetRuleTriggerState,
     ReadTrigger, FlowNotFound, GetFlowNotificationDeviceId, FindOpenIncident,
     OpenNewIncident, UpdateIncidentForAlert, CreateAlert, SendAlert, aux
<1>2. ASSUME NEW s \in Resolvers, ResolverStep(s) PROVE UNCHANGED aux \/ ResolverThrows(s)
  BY <1>2 DEF ResolverStep, TriggerResolved, ResolverFindsNoFlow, ResolverReadsDevice,
     ResolverFindsIncident, CloseIncident, CreateResolved, aux
<1>3. ASSUME NEW h \in Handlers, HandlerStep(h)
      PROVE  UNCHANGED aux \/ HandleOthers(h) \/ HandlerThrows(h)
  BY <1>3 DEF HandlerStep, MarkNotificationHandled, AcknowledgeIncident, aux
<1>4. CASE \/ \E n \in NoticeIds : RecordNotificationReceipt(n)
           \/ Tick \/ (\E d \in Devices : RelinkFlow(d)) \/ DeleteFlow \/ UNCHANGED vars
  BY <1>4 DEF RecordNotificationReceipt, Tick, RelinkFlow, DeleteFlow, vars, aux
<1> QED
  BY <1>1, <1>2, <1>3, <1>4 DEF Next

LEMMA HistoryNext == TypeOK /\ [Next]_vars => HistoryOK'
<1> SUFFICES ASSUME TypeOK, [Next]_vars PROVE HistoryOK'
  OBVIOUS
<1> DEFINE notes == {"alert", "resolved"} \X (IncidentIds \cup {NoId})
           ids == IncidentIds \cup {NoId}
<1>0. /\ failed \subseteq Rules /\ cutOff \subseteq notes /\ unfinished \subseteq ids
  BY DEF TypeOK, HistoryOK
<1>1. ASSUME NEW f \in Firers PROVE OwedAlert(f) \subseteq notes /\ firer[f].rule \in Rules
  BY Parts DEF OwedAlert, Firer
<1>2. ASSUME NEW s \in Resolvers PROVE OwedResolution(s) \subseteq notes
  BY Parts DEF OwedResolution, Resolver
<1>3. ASSUME NEW h \in Handlers PROVE Interrupted(h) \subseteq ids
  <2>1. handler[h].pc = "idle" \/ handler[h].notice \in NoticeIds
    BY Parts DEF Handler, IdleHandler
  <2> QED
    BY <2>1, Parts DEF Interrupted, StoreOK, Notice
<1>4. CASE UNCHANGED aux
  BY <1>0, <1>4 DEF aux, HistoryOK
<1>5. ASSUME NEW f \in Firers, SetTrigger(f) PROVE HistoryOK'
  BY <1>0, <1>5 DEF SetTrigger, HistoryOK
<1>6. ASSUME NEW f \in Firers, FirerThrows(f) PROVE HistoryOK'
  BY <1>0, <1>1, <1>6 DEF FirerThrows, HistoryOK
<1>7. ASSUME NEW s \in Resolvers, ResolverThrows(s) PROVE HistoryOK'
  BY <1>0, <1>2, <1>7 DEF ResolverThrows, HistoryOK
<1>8. ASSUME NEW h \in Handlers, HandleOthers(h) \/ HandlerThrows(h) PROVE HistoryOK'
  BY <1>0, <1>3, <1>8 DEF HandleOthers, HandlerThrows, HistoryOK
<1>9. CASE Restart
  <2>1. cutOff' \subseteq notes
    <3>1. /\ UNION {OwedAlert(f) : f \in Firers} \subseteq notes
          /\ UNION {OwedResolution(s) : s \in Resolvers} \subseteq notes
      BY <1>1, <1>2
    <3>2. cutOff' = cutOff \cup (UNION {OwedAlert(f) : f \in Firers})
                           \cup (UNION {OwedResolution(s) : s \in Resolvers})
      BY <1>9 DEF Restart, RecordInterrupted
    <3> HIDE DEF notes
    <3> QED
      BY <1>0, <3>1, <3>2
  <2>2. unfinished' \subseteq ids /\ failed' = failed
    BY <1>0, <1>3, <1>9 DEF Restart, RecordInterrupted
  <2> QED
    BY <1>0, <2>1, <2>2 DEF HistoryOK
<1> QED
  BY <1>4, <1>5, <1>6, <1>7, <1>8, <1>9, WhatRecords

LEMMA TypeNext == TypeOK /\ [Next]_vars => TypeOK'
BY StateNext, HistoryNext DEF TypeOK

THEOREM TypeCorrect == Spec => []TypeOK
BY TypeInit, TypeNext, PTL DEF Spec

-----------------------------------------------------------------------------
(* One open incident                                                       *)

\* What makes OneOpenIncident inductive when at most one firing is in flight:
\* between its lookup and its write, a firing that found no open incident is
\* still right, since nobody else opens one.
LookupHolds ==
    \A f \in Firers : (firer[f].pc = "write" /\ firer[f].found = NoId)
        => OpenIncidents(firer[f].rule, firer[f].device) = {}

\* No step but OpenNewIncident opens an incident or changes whose it is.
NothingOpens ==
    \A i \in IncidentIds :
        IsOpen(i)' => /\ IsOpen(i)
                      /\ incident'[i].rule = incident[i].rule
                      /\ incident'[i].device = incident[i].device

LEMMA NothingOpensKeeps ==
    ASSUME NothingOpens, OneOpenIncident
    PROVE  /\ OneOpenIncident'
           /\ \A r, d : OpenIncidents(r, d) = {} => OpenIncidents(r, d)' = {}
BY DEF NothingOpens, OneOpenIncident, OpenIncidents, IsOpen

\* The steps that leave the open incidents alone.
LEMMA WhatOpens ==
    ASSUME TypeOK, [Next]_vars, \A f \in Firers : ~OpenNewIncident(f)
    PROVE  NothingOpens
<1>0. StoreOK /\ incident \in [IncidentIds -> Incident]
  BY Parts DEF StoreOK
<1>1. CASE incident' = incident
  BY <1>1 DEF NothingOpens, IsOpen
<1>2. ASSUME NEW f \in Firers, UpdateIncidentForAlert(f) PROVE NothingOpens
  <2>1. incident' = [incident EXCEPT ![firer[f].found] =
                        [incident[firer[f].found] EXCEPT !.last = firer[f].at]]
    BY <1>0, <1>2 DEF UpdateIncidentForAlert
  <2>2. ASSUME NEW i \in IncidentIds
        PROVE  /\ incident'[i].state = incident[i].state
               /\ incident'[i].rule = incident[i].rule
               /\ incident'[i].device = incident[i].device
    BY <1>0, <2>1 DEF Incident
  <2> QED
    BY <2>2 DEF NothingOpens, IsOpen
<1>3. ASSUME NEW s \in Resolvers, CloseIncident(s) PROVE NothingOpens
  <2>1. incident' = [incident EXCEPT ![resolver[s].found] =
          [incident[resolver[s].found] EXCEPT !.state = "closed", !.last = resolver[s].at]]
    BY <1>0, <1>3 DEF CloseIncident
  <2>2. ASSUME NEW i \in IncidentIds
        PROVE  /\ incident'[i].state \in {incident[i].state, "closed"}
               /\ incident'[i].rule = incident[i].rule
               /\ incident'[i].device = incident[i].device
    BY <1>0, <2>1 DEF Incident
  <2> QED
    BY <2>2 DEF NothingOpens, IsOpen
<1>4. ASSUME NEW h \in Handlers, AcknowledgeIncident(h) PROVE NothingOpens
  <2> DEFINE k == notice[handler[h].notice].incident
  <2>1. incident' = [incident EXCEPT ![k] = [incident[k] EXCEPT !.acked = TRUE]]
    BY <1>0, <1>4 DEF AcknowledgeIncident
  <2> HIDE DEF k
  <2>2. ASSUME NEW i \in IncidentIds
        PROVE  /\ incident'[i].state = incident[i].state
               /\ incident'[i].rule = incident[i].rule
               /\ incident'[i].device = incident[i].device
    BY <1>0, <2>1 DEF Incident
  <2> QED
    BY <2>2 DEF NothingOpens, IsOpen
<1>5. CASE UNCHANGED vars
  BY <1>1, <1>5 DEF vars, store
<1>6. ASSUME NEW f \in Firers, FirerStep(f) PROVE NothingOpens
  <2>1. UpdateIncidentForAlert(f) \/ incident' = incident
    BY <1>6 DEF FirerStep, ProcessSensorReading, TriggerAlert, ResetRuleTriggerState,
       ReadTrigger, SetTrigger, FlowNotFound, GetFlowNotificationDeviceId, FindOpenIncident,
       CreateAlert, CreateNotice, SendAlert, FirerThrows, store
  <2> QED
    BY <1>1, <1>2, <2>1
<1>7. ASSUME NEW s \in Resolvers, ResolverStep(s) PROVE NothingOpens
  <2>1. CloseIncident(s) \/ incident' = incident
    BY <1>7 DEF ResolverStep, TriggerResolved, ResolverFindsNoFlow, ResolverThrows, ResolverReadsDevice, ResolverFindsIncident,
       CreateResolved, CreateNotice, store
  <2> QED
    BY <1>1, <1>3, <2>1
<1>8. ASSUME NEW h \in Handlers, HandlerStep(h) PROVE NothingOpens
  <2>1. AcknowledgeIncident(h) \/ incident' = incident
    BY <1>8 DEF HandlerStep, HandlerThrows, MarkNotificationHandled, HandleOthers, store
  <2> QED
    BY <1>1, <1>4, <2>1
<1>9. CASE \/ \E n \in NoticeIds : RecordNotificationReceipt(n)
           \/ Tick \/ (\E d \in Devices : RelinkFlow(d)) \/ DeleteFlow \/ Restart
  <2>1. incident' = incident
    BY <1>9 DEF RecordNotificationReceipt, Tick, RelinkFlow, DeleteFlow, Restart, store
  <2> QED
    BY <1>1, <2>1
<1> QED
  BY <1>5, <1>6, <1>7, <1>8, <1>9 DEF Next

\* Opening an incident for a rule and device that have none.
LEMMA OpeningKeepsOne ==
    ASSUME TypeOK, OneOpenIncident, NEW f \in Firers, OpenNewIncident(f),
           OpenIncidents(firer[f].rule, firer[f].device) = {}
    PROVE  OneOpenIncident'
<1>1. /\ incident' = [incident EXCEPT ![incidentCount + 1] =
            [state |-> "open", rule |-> firer[f].rule, device |-> firer[f].device,
             opened |-> firer[f].at, last |-> firer[f].at, acked |-> FALSE]]
      /\ incidentCount + 1 \in IncidentIds
  BY Parts, FreeSlots DEF OpenNewIncident, CreateIncident
<1>2. incident \in [IncidentIds -> Incident]
  BY Parts DEF StoreOK
<1>3. ASSUME NEW i \in IncidentIds, i # incidentCount + 1
      PROVE  incident'[i] = incident[i]
  BY <1>1, <1>2, <1>3
<1>4. /\ incident'[incidentCount + 1].rule = firer[f].rule
      /\ incident'[incidentCount + 1].device = firer[f].device
  BY <1>1, <1>2
<1>5. ASSUME NEW i \in IncidentIds, i # incidentCount + 1, IsOpen(i)'
      PROVE  ~(incident'[i].rule = firer[f].rule /\ incident'[i].device = firer[f].device)
  BY <1>3, <1>5 DEF OpenIncidents, IsOpen
<1> QED
  BY <1>3, <1>4, <1>5 DEF OneOpenIncident, IsOpen

\* How a firer comes to hold an incident it will write or notify about.
LEMMA HoldersFollowLookups ==
    ASSUME TypeOK, [Next]_vars, NEW f \in Firers, firer'[f].pc \in {"write", "notify"}
    PROVE  \/ firer'[f] = firer[f]
           \/ /\ FoundFor(firer[f].rule, firer[f].device, firer'[f].found)
              /\ firer'[f].rule = firer[f].rule /\ firer'[f].device = firer[f].device
              /\ firer'[f].pc = "write" /\ firer'[f].at = firer[f].at
              /\ \/ firer'[f].found = NoId
                 \/ ~Suppressed(firer'[f].found, firer[f].at)
              /\ UNCHANGED store
           \/ /\ OpenNewIncident(f) \/ UpdateIncidentForAlert(f)
              /\ firer'[f].pc = "notify"
<1>0. /\ TasksOK /\ StoreOK /\ firer[f] \in Firer /\ firer \in [Firers -> Firer]
  BY Parts DEF TasksOK
<1>1. CASE firer' = firer
  BY <1>1
<1>2. ASSUME NEW g \in Firers, FirerStep(g), g # f PROVE firer'[f] = firer[f]
  <2>1. \E next : firer' = [firer EXCEPT ![g] = next]
    BY <1>2 DEF FirerStep, ProcessSensorReading, TriggerAlert, ResetRuleTriggerState,
       ReadTrigger, SetTrigger, FlowNotFound, GetFlowNotificationDeviceId, FindOpenIncident,
       OpenNewIncident, UpdateIncidentForAlert,
       CreateAlert, SendAlert, FirerThrows, NextRule
  <2> QED
    BY <1>0, <1>2, <2>1
<1>3. ASSUME NEW rest \in SUBSET Rules, NextRule(f, rest) PROVE FALSE
  BY <1>0, <1>3, NextRuleMoves
<1>4. CASE FirerStep(f)
  <2>1. ASSUME NEW carried \in SUBSET Rules, NEW hazard \in SUBSET carried,
               ProcessSensorReading(f, carried, hazard) PROVE FALSE
    BY <1>0, <2>1 DEF ProcessSensorReading, IdleFirer
  <2>2. ASSUME NEW r \in Rules, NEW at \in Bodies, TriggerAlert(f, r, at) PROVE FALSE
    BY <1>0, <2>2 DEF TriggerAlert, IdleFirer
  <2>3. ASSUME NEW r \in Rules, ResetRuleTriggerState(f, r) PROVE FALSE
    BY <1>0, <1>3, <2>3 DEF ResetRuleTriggerState, Firer
  <2>4. ASSUME NEW r \in Rules, ReadTrigger(f, r) PROVE FALSE
    <3>1. CASE Blocks(trigger[r], firer[f].at)
      BY <1>0, <1>3, <2>4, <3>1 DEF ReadTrigger, Firer
    <3>2. CASE ~Blocks(trigger[r], firer[f].at)
      <4> DEFINE delay == NextDelay(r \in GasRules, trigger[r])
      <4>1. firer' = [firer EXCEPT ![f] = [@ EXCEPT
                !.pc = "set", !.rule = r,
                !.todo = firer[f].todo \ {r}, !.hazard = firer[f].hazard \ {r},
                !.delay = delay]]
        BY <2>4, <3>2 DEF ReadTrigger
      <4> HIDE DEF delay
      <4> QED
        BY <1>0, <4>1 DEF Firer
    <3> QED
      BY <3>1, <3>2
  <2>5. CASE SetTrigger(f) \/ GetFlowNotificationDeviceId(f)
    <3>1. \/ firer'[f] = [firer[f] EXCEPT !.pc = "device", !.delay = 0]
          \/ firer'[f] = [firer[f] EXCEPT !.pc = "find", !.device = flowDevice]
      BY <1>0, <2>5 DEF SetTrigger, FlowNotFound, GetFlowNotificationDeviceId
    <3> QED
      BY <1>0, <3>1 DEF Firer
  <2>6. CASE FindOpenIncident(f)
    <3>1. PICK i \in IncidentIds \cup {NoId} :
            /\ FoundFor(firer[f].rule, firer[f].device, i)
            /\ IF i # NoId /\ Suppressed(i, firer[f].at)
               THEN NextRule(f, firer[f].todo)
               ELSE firer' = [firer EXCEPT ![f] = [@ EXCEPT !.pc = "write", !.found = i]]
      BY <2>6 DEF FindOpenIncident
    <3>2. ~(i # NoId /\ Suppressed(i, firer[f].at))
      BY <1>0, <1>3, <3>1 DEF Firer
    <3>3. firer'[f] = [firer[f] EXCEPT !.pc = "write", !.found = i]
      BY <1>0, <3>1, <3>2
    <3>4. /\ firer'[f].pc = "write" /\ firer'[f].found = i /\ firer'[f].rule = firer[f].rule
          /\ firer'[f].device = firer[f].device /\ firer'[f].at = firer[f].at
      BY <1>0, <3>3 DEF Firer
    <3>5. UNCHANGED store /\ firer[f].pc = "find"
      BY <2>6 DEF FindOpenIncident
    <3> QED
      BY <3>1, <3>2, <3>4, <3>5
  <2>7. CASE OpenNewIncident(f) \/ UpdateIncidentForAlert(f)
    <3>1. \/ firer'[f] = [firer[f] EXCEPT !.pc = "notify", !.found = incidentCount + 1,
                                          !.device = AnyDevice]
          \/ firer'[f] = [firer[f] EXCEPT !.pc = "notify", !.device = AnyDevice]
      BY <1>0, <2>7 DEF OpenNewIncident, UpdateIncidentForAlert
    <3>2. firer'[f].pc = "notify"
      BY <1>0, <3>1 DEF Firer
    <3> QED
      BY <2>7, <3>2
  <2>9. CASE CreateAlert(f)
    <3>1. firer'[f] = [firer[f] EXCEPT !.pc = "push"]
      BY <1>0, <2>9 DEF CreateAlert
    <3> QED
      BY <1>0, <3>1 DEF Firer
  <2>8. CASE FlowNotFound(f) \/ SendAlert(f) \/ FirerThrows(f)
    BY <1>0, <1>3, <2>8 DEF FlowNotFound, SendAlert, FirerThrows, Firer
  <2> QED
    BY <1>4, <2>1, <2>2, <2>3, <2>4, <2>5, <2>6, <2>7, <2>8, <2>9 DEF FirerStep
<1>5. CASE Restart
  BY <1>0, <1>5 DEF Restart, IdleFirer
<1>6. CASE \/ \E s \in Resolvers : ResolverStep(s)
           \/ \E h \in Handlers : HandlerStep(h)
           \/ \E n \in NoticeIds : RecordNotificationReceipt(n)
           \/ Tick \/ (\E d \in Devices : RelinkFlow(d)) \/ DeleteFlow \/ UNCHANGED vars
  <2>1. firer' = firer
    BY <1>6 DEF ResolverStep, TriggerResolved, ResolverFindsNoFlow, ResolverThrows, ResolverReadsDevice, ResolverFindsIncident,
       CloseIncident, CreateResolved, HandlerStep, HandlerThrows, MarkNotificationHandled,
       AcknowledgeIncident, HandleOthers, RecordNotificationReceipt, Tick, RelinkFlow, DeleteFlow,
       vars, tasks
  <2> QED
    BY <1>1, <2>1
<1> QED
  BY <1>2, <1>4, <1>5, <1>6 DEF Next

\* A firer is about to write because it was, or because it just looked.
LEMMA WritesFollowLookups ==
    ASSUME TypeOK, [Next]_vars, NEW f \in Firers, firer'[f].pc = "write"
    PROVE  \/ firer'[f] = firer[f]
           \/ /\ FoundFor(firer[f].rule, firer[f].device, firer'[f].found)
              /\ firer'[f].rule = firer[f].rule /\ firer'[f].device = firer[f].device
BY HoldersFollowLookups

LEMMA OneOpenNext ==
    ASSUME \A f, g \in Firers : f = g,
           TypeOK, OneOpenIncident, LookupHolds, [Next]_vars
    PROVE  OneOpenIncident' /\ LookupHolds'
<1>0. firer \in [Firers -> Firer]
  BY Parts DEF TasksOK
<1>1. ASSUME NEW f \in Firers, OpenNewIncident(f)
      PROVE  OneOpenIncident' /\ LookupHolds'
  <2>1. OpenIncidents(firer[f].rule, firer[f].device) = {}
    BY <1>1 DEF OpenNewIncident, LookupHolds
  <2>2. OneOpenIncident'
    BY <1>1, <2>1, OpeningKeepsOne
  <2>3. firer'[f].pc = "notify"
    BY <1>0, <1>1 DEF OpenNewIncident, Firer
  <2>4. LookupHolds'
    BY <2>3 DEF LookupHolds
  <2> QED
    BY <2>2, <2>4
<1>2. CASE \A f \in Firers : ~OpenNewIncident(f)
  <2>1. NothingOpens
    BY <1>2, WhatOpens
  <2>2. /\ OneOpenIncident'
        /\ \A r, d : OpenIncidents(r, d) = {} => OpenIncidents(r, d)' = {}
    BY <2>1, NothingOpensKeeps
  <2>3. ASSUME NEW f \in Firers, firer'[f].pc = "write", firer'[f].found = NoId
        PROVE  OpenIncidents(firer[f].rule, firer[f].device)' = {}
    <3>1. PICK r, d : r = firer'[f].rule /\ d = firer'[f].device
      OBVIOUS
    <3>2. OpenIncidents(r, d) = {}
      <4>1. CASE firer'[f] = firer[f]
        BY <2>3, <3>1, <4>1 DEF LookupHolds
      <4>2. CASE /\ FoundFor(firer[f].rule, firer[f].device, firer'[f].found)
                 /\ firer'[f].rule = firer[f].rule /\ firer'[f].device = firer[f].device
        <5>1. NoId \notin IncidentIds
          BY Parts, FreeSlots
        <5> QED
          BY <2>3, <3>1, <4>2, <5>1 DEF FoundFor, OpenIncidents
      <4> QED
        BY <2>3, <4>1, <4>2, WritesFollowLookups
    <3>3. OpenIncidents(r, d)' = {}
      BY <2>2, <3>2
    <3> QED
      BY <3>1, <3>3 DEF OpenIncidents
  <2> QED
    BY <2>2, <2>3 DEF LookupHolds
<1> QED
  BY <1>1, <1>2

\* While firings come one at a time, no rule and device ever have two open
\* incidents, whatever resolutions, answers, relinked devices and restarts do
\* meanwhile.
THEOREM SerialFiringsOpenOne ==
    ASSUME \A f, g \in Firers : f = g
    PROVE  Spec => []OneOpenIncident
<1>1. Init => OneOpenIncident /\ LookupHolds
  BY DEF Init, OneOpenIncident, LookupHolds, IsOpen, NoIncident, IdleFirer
<1>2. TypeOK /\ OneOpenIncident /\ LookupHolds /\ [Next]_vars
        => OneOpenIncident' /\ LookupHolds'
  BY OneOpenNext
<1> QED
  BY <1>1, <1>2, TypeCorrect, PTL DEF Spec

-----------------------------------------------------------------------------
(* The spacing of alerts                                                   *)

IsAlertOf(n, i) == notice[n].type = "alert" /\ notice[n].incident = i

\* Every alert of incident i lies a cool-off before `at`.
AlertsPrecede(i, at) ==
    \A n \in NoticeIds : IsAlertOf(n, i) => notice[n].sent + CoolOff <= at

\* last_notification_sent_at of an open incident is not older than its alerts. A
\* resolution sets it to a time of its own, but closes the incident with it.
LastIsNewest ==
    \A i \in IncidentIds : IsOpen(i) =>
        \A n \in NoticeIds : IsAlertOf(n, i) => notice[n].sent <= incident[i].last

\* What the cool-off check established stays true until the alert is stored, and
\* the write leaves its time in the incident unless that is closed meanwhile.
AboutToAlert ==
    \A f \in Firers :
        /\ (firer[f].pc \in {"write", "notify"} /\ firer[f].found # NoId)
            => AlertsPrecede(firer[f].found, firer[f].at)
        /\ firer[f].pc = "notify" =>
            /\ firer[f].found # NoId
            /\ IsOpen(firer[f].found) => incident[firer[f].found].last = firer[f].at

SpacingInv == CoolOffSpacing /\ LastIsNewest /\ AboutToAlert

\* No step but CreateAlert adds an alert.
NoNewAlert ==
    \A n \in NoticeIds : notice'[n].type = "alert" =>
        /\ notice[n].type = "alert"
        /\ notice'[n].incident = notice[n].incident
        /\ notice'[n].sent = notice[n].sent

\* No step but a firing's write touches last_notification_sent_at of an incident
\* that stays open.
OpenOnesKept ==
    \A i \in IncidentIds : IsOpen(i)' => IsOpen(i) /\ incident'[i].last = incident[i].last

\* A firing that has written.
Writes(f) == OpenNewIncident(f) \/ UpdateIncidentForAlert(f)

LEMMA OpenOnesStay ==
    ASSUME TypeOK, [Next]_vars, \A f \in Firers : ~Writes(f)
    PROVE  OpenOnesKept
<1>0. StoreOK /\ incident \in [IncidentIds -> Incident]
  BY Parts DEF StoreOK
<1>1. CASE incident' = incident
  BY <1>1 DEF OpenOnesKept, IsOpen
<1>2. ASSUME NEW s \in Resolvers, CloseIncident(s) PROVE OpenOnesKept
  <2>1. incident' = [incident EXCEPT ![resolver[s].found] =
          [incident[resolver[s].found] EXCEPT !.state = "closed", !.last = resolver[s].at]]
    BY <1>0, <1>2 DEF CloseIncident
  <2>2. ASSUME NEW i \in IncidentIds
        PROVE  incident'[i] = incident[i] \/ incident'[i].state = "closed"
    BY <1>0, <2>1 DEF Incident
  <2> QED
    BY <2>2 DEF OpenOnesKept, IsOpen
<1>3. ASSUME NEW h \in Handlers, AcknowledgeIncident(h) PROVE OpenOnesKept
  <2> DEFINE k == notice[handler[h].notice].incident
  <2>1. incident' = [incident EXCEPT ![k] = [incident[k] EXCEPT !.acked = TRUE]]
    BY <1>0, <1>3 DEF AcknowledgeIncident
  <2> HIDE DEF k
  <2>2. ASSUME NEW i \in IncidentIds
        PROVE  /\ incident'[i].state = incident[i].state
               /\ incident'[i].last = incident[i].last
    BY <1>0, <2>1 DEF Incident
  <2> QED
    BY <2>2 DEF OpenOnesKept, IsOpen
<1>4. CASE UNCHANGED vars
  BY <1>1, <1>4 DEF vars, store
<1>5. ASSUME NEW f \in Firers, FirerStep(f) PROVE OpenOnesKept
  <2>1. incident' = incident
    BY <1>5 DEF FirerStep, ProcessSensorReading, TriggerAlert, ResetRuleTriggerState,
       ReadTrigger, SetTrigger, FlowNotFound, GetFlowNotificationDeviceId, FindOpenIncident,
       CreateAlert, CreateNotice, SendAlert, FirerThrows, store, Writes
  <2> QED
    BY <1>1, <2>1
<1>6. ASSUME NEW s \in Resolvers, ResolverStep(s) PROVE OpenOnesKept
  <2>1. CloseIncident(s) \/ incident' = incident
    BY <1>6 DEF ResolverStep, TriggerResolved, ResolverFindsNoFlow, ResolverThrows, ResolverReadsDevice, ResolverFindsIncident,
       CreateResolved, CreateNotice, store
  <2> QED
    BY <1>1, <1>2, <2>1
<1>7. ASSUME NEW h \in Handlers, HandlerStep(h) PROVE OpenOnesKept
  <2>1. AcknowledgeIncident(h) \/ incident' = incident
    BY <1>7 DEF HandlerStep, HandlerThrows, MarkNotificationHandled, HandleOthers, store
  <2> QED
    BY <1>1, <1>3, <2>1
<1>8. CASE \/ \E n \in NoticeIds : RecordNotificationReceipt(n)
           \/ Tick \/ (\E d \in Devices : RelinkFlow(d)) \/ DeleteFlow \/ Restart
  <2>1. incident' = incident
    BY <1>8 DEF RecordNotificationReceipt, Tick, RelinkFlow, DeleteFlow, Restart, store
  <2> QED
    BY <1>1, <2>1
<1> QED
  BY <1>4, <1>5, <1>6, <1>7, <1>8 DEF Next

LEMMA AlertsStay ==
    ASSUME TypeOK, [Next]_vars, \A f \in Firers : ~CreateAlert(f)
    PROVE  NoNewAlert
<1>0. StoreOK /\ notice \in [NoticeIds -> Notice]
  BY Parts DEF StoreOK
<1>1. CASE notice' = notice
  BY <1>1 DEF NoNewAlert
<1>2. ASSUME NEW s \in Resolvers, CreateResolved(s) PROVE NoNewAlert
  <2>1. notice' = [notice EXCEPT ![noticeCount + 1] =
            [type |-> "resolved", incident |-> resolver[s].found, sent |-> resolver[s].at,
             received |-> FALSE, handled |-> FALSE]]
    BY <1>2 DEF CreateResolved, CreateNotice
  <2> QED
    BY <1>0, <2>1 DEF NoNewAlert
<1>3. ASSUME NEW n \in NoticeIds, NEW h \in Handlers, MarkNotificationHandled(h, n)
      PROVE  NoNewAlert
  <2>1. notice' = [notice EXCEPT ![n] =
            [notice[n] EXCEPT !.handled = TRUE, !.received = TRUE]]
    BY <1>0, <1>3 DEF MarkNotificationHandled
  <2> QED
    BY <1>0, <2>1 DEF NoNewAlert, Notice
<1>4. ASSUME NEW n \in NoticeIds, RecordNotificationReceipt(n) PROVE NoNewAlert
  <2>1. notice' = [notice EXCEPT ![n] = [notice[n] EXCEPT !.received = TRUE]]
    BY <1>0, <1>4 DEF RecordNotificationReceipt
  <2> QED
    BY <1>0, <2>1 DEF NoNewAlert, Notice
<1>5. ASSUME NEW h \in Handlers, HandleOthers(h) PROVE NoNewAlert
  <2>1. ASSUME NEW m \in NoticeIds
        PROVE  notice'[m] \in {notice[m],
                               [notice[m] EXCEPT !.handled = TRUE, !.received = TRUE]}
    BY <1>5 DEF HandleOthers
  <2>2. ASSUME NEW m \in NoticeIds
        PROVE  /\ notice'[m].type = notice[m].type
               /\ notice'[m].incident = notice[m].incident
               /\ notice'[m].sent = notice[m].sent
    <3>1. notice[m] \in Notice
      BY <1>0
    <3>2. CASE notice'[m] = notice[m]
      BY <3>2
    <3>3. CASE notice'[m] = [notice[m] EXCEPT !.handled = TRUE, !.received = TRUE]
      BY <3>1, <3>3 DEF Notice
    <3> QED
      BY <2>1, <3>2, <3>3
  <2> QED
    BY <2>2 DEF NoNewAlert
<1>6. ASSUME NEW f \in Firers, FirerStep(f) PROVE NoNewAlert
  <2>1. notice' = notice
    BY <1>6 DEF FirerStep, ProcessSensorReading, TriggerAlert, ResetRuleTriggerState,
       ReadTrigger, SetTrigger, FlowNotFound, GetFlowNotificationDeviceId, FindOpenIncident,
       OpenNewIncident, UpdateIncidentForAlert, SendAlert, FirerThrows, store
  <2> QED
    BY <1>1, <2>1
<1>7. ASSUME NEW s \in Resolvers, ResolverStep(s) PROVE NoNewAlert
  <2>1. CreateResolved(s) \/ notice' = notice
    BY <1>7 DEF ResolverStep, TriggerResolved, ResolverFindsNoFlow, ResolverThrows, ResolverReadsDevice, ResolverFindsIncident,
       CloseIncident, store
  <2> QED
    BY <1>1, <1>2, <2>1
<1>8. ASSUME NEW h \in Handlers, HandlerStep(h) PROVE NoNewAlert
  <2>1. \/ \E n \in NoticeIds : MarkNotificationHandled(h, n)
        \/ HandleOthers(h)
        \/ notice' = notice
    BY <1>8 DEF HandlerStep, HandlerThrows, AcknowledgeIncident, store
  <2> QED
    BY <1>1, <1>3, <1>5, <2>1
<1>9. CASE Tick \/ (\E d \in Devices : RelinkFlow(d)) \/ DeleteFlow \/ Restart \/ UNCHANGED vars
  <2>1. notice' = notice
    BY <1>9 DEF Tick, RelinkFlow, DeleteFlow, Restart, vars, store
  <2> QED
    BY <1>1, <2>1
<1> QED
  BY <1>4, <1>6, <1>7, <1>8, <1>9 DEF Next

\* The numbers of the spacing argument.
LEMMA Times ==
    ASSUME TypeOK
    PROVE  /\ CoolOff \in Nat
           /\ \A i \in IncidentIds : incident[i].last \in Nat /\ incident[i].acked \in BOOLEAN
           /\ \A n \in NoticeIds : notice[n].sent \in Nat
           /\ \A f \in Firers : firer[f].at \in Nat
BY Parts, Defaults DEF StoreOK, TasksOK, Incident, Notice, Firer

\* The check of the cool-off: the alerts of an incident it lets a firing join lie
\* a cool-off back.
LEMMA LookupSpaces ==
    ASSUME TypeOK, LastIsNewest, NEW r, NEW d, NEW i, FoundFor(r, d, i), i # NoId,
           NEW at \in Nat, ~Suppressed(i, at)
    PROVE  AlertsPrecede(i, at)
<1>1. i \in IncidentIds /\ IsOpen(i)
  BY Parts, FoundExists
<1>2. incident[i].last + CoolOff <= at
  BY <1>1, Times DEF Suppressed
<1>3. ASSUME NEW n \in NoticeIds, IsAlertOf(n, i) PROVE notice[n].sent + CoolOff <= at
  BY <1>1, <1>2, <1>3, Times DEF LastIsNewest
<1> QED
  BY <1>3 DEF AlertsPrecede

\* Steps that add no alert keep the alerts of each incident.
LEMMA PrecedenceStays ==
    ASSUME NoNewAlert, NEW i, NEW at, AlertsPrecede(i, at)
    PROVE  AlertsPrecede(i, at)'
BY DEF NoNewAlert, AlertsPrecede, IsAlertOf

LEMMA SpacingKept ==
    ASSUME NoNewAlert, CoolOffSpacing PROVE CoolOffSpacing'
BY DEF NoNewAlert, CoolOffSpacing

LEMMA NewestKept ==
    ASSUME NoNewAlert, OpenOnesKept, LastIsNewest PROVE LastIsNewest'
BY DEF NoNewAlert, OpenOnesKept, LastIsNewest, IsAlertOf, IsOpen

\* A firing creates an incident: it has no alerts yet.
LEMMA OpeningSpaces ==
    ASSUME \A f, g \in Firers : f = g,
           TypeOK, SpacingInv, NEW f \in Firers, OpenNewIncident(f), NoNewAlert
    PROVE  SpacingInv'
<1> DEFINE k == incidentCount + 1
<1>0. /\ incident' = [incident EXCEPT ![k] =
            [state |-> "open", rule |-> firer[f].rule, device |-> firer[f].device,
             opened |-> firer[f].at, last |-> firer[f].at, acked |-> FALSE]]
      /\ k \in IncidentIds /\ k # NoId /\ incidentCount \in Nat
      /\ incident \in [IncidentIds -> Incident] /\ notice' = notice
      /\ firer \in [Firers -> Firer] /\ firer[f].at \in Nat
  BY Parts, FreeSlots, Times DEF OpenNewIncident, CreateIncident, StoreOK, TasksOK
<1>1. firer'[f] = [firer[f] EXCEPT !.pc = "notify", !.found = k, !.device = AnyDevice]
  BY <1>0 DEF OpenNewIncident
<1>2. /\ firer'[f].found = k /\ firer'[f].at = firer[f].at
  BY <1>0, <1>1 DEF Firer
<1>3. incident'[k].last = firer[f].at
  BY <1>0
<1>4. \A i \in IncidentIds \ {k} : incident'[i] = incident[i]
  BY <1>0
<1>5. \A n \in NoticeIds : ~IsAlertOf(n, k)
  <2> TAKE n \in NoticeIds
  <2>1. notice[n].incident \in 0 .. incidentCount
    BY Parts
  <2> QED
    BY <1>0, <2>1 DEF IsAlertOf
<1> HIDE DEF k
<1>6. CoolOffSpacing'
  BY SpacingKept DEF SpacingInv
<1>7. LastIsNewest'
  BY <1>0, <1>4, <1>5 DEF SpacingInv, LastIsNewest, IsAlertOf, IsOpen
<1>8. \A n \in NoticeIds : ~(notice'[n].type = "alert" /\ notice'[n].incident = k)
  BY <1>0, <1>5 DEF IsAlertOf
<1>9. AboutToAlert'
  BY <1>0, <1>2, <1>3, <1>8 DEF AboutToAlert, AlertsPrecede, IsAlertOf
<1> QED
  BY <1>6, <1>7, <1>9 DEF SpacingInv

\* A firing joins an incident: its time becomes the newest.
LEMMA JoiningSpaces ==
    ASSUME \A f, g \in Firers : f = g,
           TypeOK, SpacingInv, NEW f \in Firers, UpdateIncidentForAlert(f), NoNewAlert
    PROVE  SpacingInv'
<1> DEFINE k == firer[f].found
<1>0. /\ k \in IncidentIds /\ k # NoId /\ notice' = notice
      /\ incident \in [IncidentIds -> Incident]
      /\ firer \in [Firers -> Firer] /\ firer[f].at \in Nat /\ firer[f] \in Firer
      /\ firer[f].pc = "write"
  BY Parts, Times DEF UpdateIncidentForAlert, StoreOK, TasksOK, Firer
<1>1. firer'[f] = [firer[f] EXCEPT !.pc = "notify", !.device = AnyDevice]
  BY <1>0 DEF UpdateIncidentForAlert
<1>2. firer'[f].found = k /\ firer'[f].at = firer[f].at
  BY <1>0, <1>1 DEF Firer
<1>3. incident' = [incident EXCEPT ![k] = [incident[k] EXCEPT !.last = firer[f].at]]
  BY <1>0 DEF UpdateIncidentForAlert
<1>4. /\ incident'[k].last = firer[f].at
      /\ \A i \in IncidentIds \ {k} : incident'[i] = incident[i]
  BY <1>0, <1>3 DEF Incident
<1>5. AlertsPrecede(k, firer[f].at)
  BY <1>0 DEF SpacingInv, AboutToAlert
<1> HIDE DEF k
<1>6. CoolOffSpacing'
  BY SpacingKept DEF SpacingInv
<1>7. \A n \in NoticeIds : IsAlertOf(n, k) => notice[n].sent <= firer[f].at
  <2> TAKE n \in NoticeIds
  <2>1. notice[n].sent \in Nat /\ CoolOff \in Nat
    BY Times
  <2> QED
    BY <1>0, <1>5, <2>1 DEF AlertsPrecede
<1>8. LastIsNewest'
  BY <1>0, <1>4, <1>7 DEF SpacingInv, LastIsNewest, IsAlertOf, IsOpen
<1>9. AboutToAlert'
  BY <1>0, <1>2, <1>4, <1>5 DEF AboutToAlert, AlertsPrecede, IsAlertOf
<1> QED
  BY <1>6, <1>8, <1>9 DEF SpacingInv

\* A firing stores its alert.
LEMMA AlertingSpaces ==
    ASSUME \A f, g \in Firers : f = g,
           TypeOK, SpacingInv, NEW f \in Firers, CreateAlert(f), OpenOnesKept
    PROVE  SpacingInv'
<1> DEFINE k == firer[f].found
           new == noticeCount + 1
<1>0. /\ new \in NoticeIds /\ notice \in [NoticeIds -> Notice]
      /\ incident' = incident
      /\ firer \in [Firers -> Firer] /\ firer[f].at \in Nat /\ firer[f] \in Firer
      /\ k \in IncidentIds
      /\ firer[f].pc = "notify"
  BY Parts, FreeSlots, Times DEF CreateAlert, CreateNotice, StoreOK, TasksOK, Firer,
     SpacingInv, AboutToAlert
<1>1. notice' = [notice EXCEPT ![new] =
            [type |-> "alert", incident |-> k, sent |-> firer[f].at,
             received |-> FALSE, handled |-> FALSE]]
  BY DEF CreateAlert, CreateNotice
<1>2. /\ notice'[new].type = "alert" /\ notice'[new].incident = k
      /\ notice'[new].sent = firer[f].at
      /\ \A n \in NoticeIds \ {new} : notice'[n] = notice[n]
  BY <1>0, <1>1
<1>3. /\ AlertsPrecede(k, firer[f].at)
      /\ IsOpen(k) => incident[k].last = firer[f].at
  BY <1>0 DEF SpacingInv, AboutToAlert, NoId
<1>4. firer'[f].pc = "push"
  <2>1. firer'[f] = [firer[f] EXCEPT !.pc = "push"]
    BY <1>0 DEF CreateAlert
  <2> QED
    BY <1>0, <2>1 DEF Firer
<1> HIDE DEF k, new
<1>5. CoolOffSpacing'
  <2>1. ASSUME NEW n \in NoticeIds, n # new, notice'[n].type = "alert",
               notice'[n].incident = k
        PROVE  notice'[n].sent + CoolOff <= notice'[new].sent
    BY <1>2, <1>3, <2>1 DEF AlertsPrecede, IsAlertOf
  <2>2. ASSUME NEW m \in NoticeIds, NEW n \in NoticeIds,
               m # n, notice'[m].type = "alert", notice'[n].type = "alert",
               notice'[m].incident = notice'[n].incident
        PROVE  \/ notice'[m].sent + CoolOff <= notice'[n].sent
               \/ notice'[n].sent + CoolOff <= notice'[m].sent
    <3>1. CASE m = new
      BY <1>2, <2>1, <2>2, <3>1
    <3>2. CASE n = new
      BY <1>2, <2>1, <2>2, <3>2
    <3>3. CASE m # new /\ n # new
      BY <1>2, <2>2, <3>3 DEF SpacingInv, CoolOffSpacing
    <3> QED
      BY <3>1, <3>2, <3>3
  <2> QED
    BY <2>2 DEF CoolOffSpacing
<1>6. LastIsNewest'
  <2>1. ASSUME NEW i \in IncidentIds, IsOpen(i), NEW n \in NoticeIds, IsAlertOf(n, i)'
        PROVE  notice'[n].sent <= incident[i].last
    <3>1. CASE n = new
      BY <1>0, <1>2, <1>3, <2>1, <3>1 DEF IsAlertOf
    <3>2. CASE n # new
      BY <1>2, <2>1, <3>2 DEF IsAlertOf, SpacingInv, LastIsNewest
    <3> QED
      BY <3>1, <3>2
  <2> QED
    BY <1>0, <2>1 DEF LastIsNewest, IsOpen
<1>7. AboutToAlert'
  BY <1>4 DEF AboutToAlert
<1> QED
  BY <1>5, <1>6, <1>7 DEF SpacingInv

LEMMA SpacingNext ==
    ASSUME \A f, g \in Firers : f = g, TypeOK, SpacingInv, [Next]_vars
    PROVE  SpacingInv'
<1>1. ASSUME NEW f \in Firers, OpenNewIncident(f) PROVE SpacingInv'
  <2>1. NoNewAlert
    BY <1>1 DEF OpenNewIncident, NoNewAlert
  <2> QED
    BY <1>1, <2>1, OpeningSpaces
<1>2. ASSUME NEW f \in Firers, UpdateIncidentForAlert(f) PROVE SpacingInv'
  <2>1. NoNewAlert
    BY <1>2 DEF UpdateIncidentForAlert, NoNewAlert
  <2> QED
    BY <1>2, <2>1, JoiningSpaces
<1>3. ASSUME NEW f \in Firers, CreateAlert(f) PROVE SpacingInv'
  <2>1. OpenOnesKept
    BY <1>3 DEF CreateAlert, CreateNotice, OpenOnesKept, IsOpen
  <2> QED
    BY <1>3, <2>1, AlertingSpaces
<1>4. CASE \A f \in Firers : ~Writes(f) /\ ~CreateAlert(f)
  <2>1. NoNewAlert /\ OpenOnesKept
    BY <1>4, AlertsStay, OpenOnesStay
  <2>2. CoolOffSpacing' /\ LastIsNewest'
    BY <2>1, SpacingKept, NewestKept DEF SpacingInv
  <2>3. ASSUME NEW f \in Firers, firer'[f].pc \in {"write", "notify"},
               firer'[f].found # NoId
        PROVE  AlertsPrecede(firer[f].found, firer[f].at)'
    <3>1. PICK i, at : i = firer'[f].found /\ at = firer'[f].at
      OBVIOUS
    <3>2. AlertsPrecede(i, at)
      <4>1. CASE firer'[f] = firer[f]
        BY <2>3, <3>1, <4>1 DEF SpacingInv, AboutToAlert
      <4>2. CASE /\ FoundFor(firer[f].rule, firer[f].device, firer'[f].found)
                 /\ firer'[f].at = firer[f].at
                 /\ firer'[f].found = NoId \/ ~Suppressed(firer'[f].found, firer[f].at)
        <5>1. firer[f].at \in Nat
          BY Times
        <5> QED
          BY <2>3, <3>1, <4>2, <5>1, LookupSpaces DEF SpacingInv
      <4> QED
        BY <1>4, <2>3, <4>1, <4>2, HoldersFollowLookups DEF Writes
    <3>3. AlertsPrecede(i, at)'
      BY <2>1, <3>2, PrecedenceStays
    <3> QED
      BY <3>1, <3>3 DEF AlertsPrecede, IsAlertOf
  <2>4. ASSUME NEW f \in Firers, firer'[f].pc = "notify"
        PROVE  /\ firer'[f].found # NoId
               /\ IsOpen(firer[f].found)' =>
                    incident'[firer'[f].found].last = firer'[f].at
    <3>1. firer'[f] = firer[f]
      BY <1>4, <2>4, HoldersFollowLookups DEF Writes
    <3>2. firer[f].found \in IncidentIds
      BY <2>4, <3>1, Parts DEF SpacingInv, AboutToAlert, Firer
    <3> QED
      BY <2>1, <2>4, <3>1, <3>2 DEF SpacingInv, AboutToAlert, OpenOnesKept, IsOpen
  <2>5. AboutToAlert'
    BY <2>3, <2>4 DEF AboutToAlert
  <2> QED
    BY <2>2, <2>5 DEF SpacingInv
<1> QED
  BY <1>1, <1>2, <1>3, <1>4 DEF Writes

\* While firings come one at a time, two alerts of an incident are a cool-off
\* apart, in the times the readings carry and whatever else happens meanwhile.
THEOREM SerialFiringsKeepCoolOff ==
    ASSUME \A f, g \in Firers : f = g
    PROVE  Spec => []CoolOffSpacing
<1>1. Init => SpacingInv
  BY DEF Init, SpacingInv, CoolOffSpacing, LastIsNewest, AboutToAlert, IsOpen, IsAlertOf,
     NoIncident, NoNotice, IdleFirer
<1>2. TypeOK /\ SpacingInv /\ [Next]_vars => SpacingInv'
  BY SpacingNext
<1>3. SpacingInv => CoolOffSpacing
  BY DEF SpacingInv
<1> QED
  BY <1>1, <1>2, <1>3, TypeCorrect, PTL DEF Spec

================================================================================
