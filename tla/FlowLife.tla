------------------------------- MODULE FlowLife -------------------------------
(* The life of a flow: the four documents an edit writes one after another    *)
(* (flow, setup, UI items, program), its link to a device, and the copy of    *)
(* its program that the MQTT handlers cache for the device.                   *)
(*                                                                            *)
(* A document is abstracted to the revision of the flow it was built from.    *)
(* All flows and devices belong to one user: a request of another user is     *)
(* refused before it changes anything.  Any step of a request may fail, which *)
(* ends it and leaves what it wrote.  The rules of alerts are in AlertRules,  *)
(* the deletion of a device in RegistrationCodes.                             *)
EXTENDS Naturals, FiniteSets

CONSTANTS
    Flows, Devices,
    FlowRequests,        \* HTTP requests in progress at a time
    FlowMessages,        \* messages of devices in progress at a time
    MaxRevisions,        \* bound: revisions users send
    NoFlow               \* a device without activeFlowId

ASSUME FlowAssumption ==
    /\ NoFlow \notin Flows /\ "none" \notin Devices
    /\ IsFiniteSet(FlowRequests) /\ IsFiniteSet(Devices)
    /\ MaxRevisions \in Nat

VARIABLES
    revisions,   \* revisions sent so far
    flow,        \* flow[f]: the revision of the saved flow; 0: no document
    setup, ui, logic,   \* the same for its Setup, Ui and Logic documents
    link,        \* link[d]: the device's activeFlowId
    linked,      \* linked[d]: client.linkedFlowId of its connection
    cache,       \* cache[d]: the cached program, tagged with its flow
    lookup,      \* lookup[m]: the program a message looks up, and will cache if it read it
    req          \* req[r]: the request's operation and where it stands

docVars == <<flow, setup, ui, logic>>
lifeVars == <<revisions, docVars, link, linked, cache, lookup, req>>

Revisions == 0 .. MaxRevisions
Empty == [flow |-> NoFlow, rev |-> 0]
Entries == [flow : Flows \cup {NoFlow}, rev : Revisions]
Lookups == [at : {"idle", "begun", "read"}, device : Devices \cup {"none"}, entry : Entries]
NoLookup == [at |-> "idle", device |-> "none", entry |-> Empty]

\* A request's operation and where it stands, its flow and device, the revision it writes
\* and the one it read
LifeRequests ==
    [op : {"none", "create", "update", "rename", "link", "unlink", "delete", "skip"},
     at : {"idle", "device", "setup", "ui", "logic", "save", "publish", "others", "set",
           "rebuild", "rebuilt", "unset", "remove", "removeSetup", "removeLogic", "saveSkip",
           "evict"},
     flow : Flows \cup {NoFlow}, device : Devices \cup {"none"},
     rev : Revisions, seen : Revisions, alone : BOOLEAN]

Idle == [op |-> "none", at |-> "idle", flow |-> NoFlow, device |-> "none",
         rev |-> 0, seen |-> 0, alone |-> TRUE]

Linked(f) == {d \in Devices : link[d] = f}

\* findByActiveFlowId: some device linked to the flow, or none
ActiveDevice(f) == IF Linked(f) = {} THEN {"none"} ELSE Linked(f)

\* The flows whose documents or link a request works on
Touches(q) == {q.flow} \cup {link[d] : d \in {q.device} \cap Devices}

LifeInit ==
    /\ revisions = 0
    /\ flow = [f \in Flows |-> 0] /\ setup = flow /\ ui = flow /\ logic = flow
    /\ link = [d \in Devices |-> NoFlow]
    /\ linked = link
    /\ cache = [d \in Devices |-> Empty] /\ lookup = [m \in FlowMessages |-> NoLookup]
    /\ req = [r \in FlowRequests |-> Idle]

-------------------------------------------------------------------------------
(* A request starts with its first read.  `alone` remembers whether another   *)
(* request ran at the same time on one of its flows: a history that only the  *)
(* properties read.                                                           *)

Overlaps(q, p) == p.at # "idle" /\ Touches(q) \cap Touches(p) \cap Flows # {}

Start(r, q) ==
    LET others == {p \in FlowRequests \ {r} : Overlaps(q, req[p])} IN
    /\ req[r].at = "idle"
    /\ req' = [p \in FlowRequests |->
                 IF p = r THEN [q EXCEPT !.alone = others = {}]
                 ELSE IF p \in others THEN [req[p] EXCEPT !.alone = FALSE]
                 ELSE req[p]]

At(r, op, at) == req[r].op \in op /\ req[r].at = at
GoTo(r, at) == req' = [req EXCEPT ![r].at = at]
Finish(r) == req' = [req EXCEPT ![r] = Idle]

\* A read or a write throws, the sanitiser refuses the program, the rules cannot be
\* synchronised, the broker does not publish: the request ends there
Fail(r) ==
    /\ req[r].at # "idle" /\ Finish(r)
    /\ UNCHANGED <<revisions, docVars, link, linked, cache, lookup>>

\* The documents an operation writes, in the order of its awaits
After == [create |-> [setup |-> "logic", logic |-> "ui", ui |-> "idle"],
          update |-> [setup |-> "ui", ui |-> "logic", logic |-> "save"]]

\* FlowsService.create: everything is built, then the flow is saved
CreateFlow(r, f) ==
    /\ flow[f] = 0 /\ setup[f] = 0 /\ ui[f] = 0 /\ logic[f] = 0
    /\ \A p \in FlowRequests : req[p].flow # f                     \* a new id
    /\ revisions < MaxRevisions /\ revisions' = revisions + 1
    /\ Start(r, [Idle EXCEPT !.op = "create", !.at = "setup", !.flow = f, !.rev = revisions'])
    /\ flow' = [flow EXCEPT ![f] = revisions']
    /\ UNCHANGED <<setup, ui, logic, link, linked, cache, lookup>>

\* FlowsService.update finds the flow; nodes and edges may be absent (a rename)
UpdateFlow(r, f, content) ==
    /\ flow[f] # 0
    /\ content => revisions < MaxRevisions
    /\ revisions' = IF content THEN revisions + 1 ELSE revisions
    /\ Start(r, [Idle EXCEPT !.op = IF content THEN "update" ELSE "rename", !.at = "device",
                 !.flow = f, !.rev = IF content THEN revisions' ELSE 0,
                 !.seen = flow[f]])
    /\ UNCHANGED <<docVars, link, linked, cache, lookup>>

\* ... then the device that it will tell at the end
ReadDevice(r) ==
    /\ At(r, {"update", "rename"}, "device")
    /\ \E d \in ActiveDevice(req[r].flow) :
         req' = [req EXCEPT ![r].device = d,
                            ![r].at = IF req[r].op = "update" THEN "setup" ELSE "save"]
    /\ UNCHANGED <<revisions, docVars, link, linked, cache, lookup>>

WriteSetup(r) ==
    /\ At(r, {"create", "update"}, "setup")
    /\ setup' = [setup EXCEPT ![req[r].flow] = req[r].rev]
    /\ GoTo(r, After[req[r].op].setup)
    /\ UNCHANGED <<revisions, flow, ui, logic, link, linked, cache, lookup>>

WriteUi(r) ==
    /\ At(r, {"create", "update"}, "ui")
    /\ ui' = [ui EXCEPT ![req[r].flow] = req[r].rev]
    /\ IF req[r].op = "create" THEN Finish(r) ELSE GoTo(r, "logic")
    /\ UNCHANGED <<revisions, flow, setup, logic, link, linked, cache, lookup>>

WriteLogic(r) ==
    /\ At(r, {"create", "update"}, "logic")
    /\ logic' = [logic EXCEPT ![req[r].flow] = req[r].rev]
    /\ GoTo(r, After[req[r].op].logic)
    /\ UNCHANGED <<revisions, flow, setup, ui, link, linked, cache, lookup>>

\* The flow is saved last: refused when it is gone, or when another edit saved its nodes
SaveFlow(r) ==
    /\ At(r, {"update", "rename"}, "save")
    /\ LET f == req[r].flow IN
       IF flow[f] = 0 \/ (req[r].op = "update" /\ flow[f] # req[r].seen)
       THEN Finish(r) /\ UNCHANGED flow
       ELSE /\ flow' = IF req[r].op = "update" THEN [flow EXCEPT ![f] = req[r].rev] ELSE flow
            /\ GoTo(r, "publish")
    /\ UNCHANGED <<revisions, setup, ui, logic, link, linked, cache, lookup>>

-------------------------------------------------------------------------------
(* Links                                                                      *)

\* updateDeviceFlow first finds the flow's owner
LinkDevice(r, d, f) ==
    /\ flow[f] # 0
    /\ Start(r, [Idle EXCEPT !.op = "link", !.at = "others", !.flow = f, !.device = d])
    /\ UNCHANGED <<revisions, docVars, link, linked, cache, lookup>>

\* MUTANT: the devices of the flow keep it.
KeepOthers(r) ==
    /\ At(r, {"link"}, "others")
    /\ GoTo(r, "set")
    /\ UNCHANGED <<revisions, docVars, link, linked, cache, lookup>>

UnlinkOthers(r) ==
    /\ At(r, {"link"}, "others")
    /\ link' = [d \in Devices |-> IF link[d] = req[r].flow /\ d # req[r].device
                                  THEN NoFlow ELSE link[d]]
    /\ GoTo(r, "set")
    /\ UNCHANGED <<revisions, docVars, linked, cache, lookup>>

SetLink(r) ==
    /\ At(r, {"link"}, "set")
    /\ link' = [link EXCEPT ![req[r].device] = req[r].flow]
    /\ GoTo(r, "rebuild")
    /\ UNCHANGED <<revisions, docVars, linked, cache, lookup>>

\* rebuildUiForFlow reads the flow (a deleted one ends the request) and writes its UI
ReadForUi(r) ==
    /\ At(r, {"link"}, "rebuild")
    /\ IF flow[req[r].flow] = 0 THEN Finish(r)
       ELSE req' = [req EXCEPT ![r].rev = flow[req[r].flow], ![r].at = "rebuilt"]
    /\ UNCHANGED <<revisions, docVars, link, linked, cache, lookup>>

RebuildUi(r) ==
    /\ At(r, {"link"}, "rebuilt")
    /\ ui' = [ui EXCEPT ![req[r].flow] = req[r].rev]
    /\ GoTo(r, "publish")
    /\ UNCHANGED <<revisions, flow, setup, logic, link, linked, cache, lookup>>

\* unlinkDeviceFlow, on its own or for FlowsService.delete: whatever flow the device has
UnlinkDevice(r, d) ==
    /\ link[d] \in Flows
    /\ Start(r, [Idle EXCEPT !.op = "unlink", !.at = "unset", !.flow = link[d], !.device = d])
    /\ UNCHANGED <<revisions, docVars, link, linked, cache, lookup>>

Unset(r) ==
    /\ At(r, {"unlink", "delete"}, "unset")
    /\ LET d == req[r].device IN
       IF d \in Devices /\ link[d] \in Flows
       THEN link' = [link EXCEPT ![d] = NoFlow] /\ GoTo(r, "publish")
       ELSE /\ IF req[r].op = "delete" THEN GoTo(r, "remove") ELSE Finish(r)
            /\ UNCHANGED link
    /\ UNCHANGED <<revisions, docVars, linked, cache, lookup>>

\* MUTANT: the event is published and no cached program evicted.
PublishOnly(r) ==
    /\ At(r, {"update", "rename", "link", "unlink", "delete"}, "publish")
    /\ IF req[r].op = "delete" THEN GoTo(r, "remove") ELSE Finish(r)
    /\ UNCHANGED <<revisions, docVars, link, linked, cache, lookup>>

\* flowupdated or flowchanged is published to the device read; the broker's own publish
\* handler evicts the program cached for it
Publish(r) ==
    /\ At(r, {"update", "rename", "link", "unlink", "delete"}, "publish")
    /\ cache' = [d \in Devices |-> IF d = req[r].device THEN Empty ELSE cache[d]]
    /\ IF req[r].op = "delete" THEN GoTo(r, "remove") ELSE Finish(r)
    /\ UNCHANGED <<revisions, docVars, link, linked, lookup>>

-------------------------------------------------------------------------------
(* Deletion and the skipped path                                              *)

\* FlowsService.delete finds one linked device
DeleteFlow(r, f) ==
    /\ flow[f] # 0
    /\ \E d \in ActiveDevice(f) :
         Start(r, [Idle EXCEPT !.op = "delete", !.at = "unset", !.flow = f, !.device = d])
    /\ UNCHANGED <<revisions, docVars, link, linked, cache, lookup>>

\* The flow, its setup and its program; the Ui document stays
RemoveFlow(r) ==
    /\ At(r, {"delete"}, "remove")
    /\ IF flow[req[r].flow] = 0 THEN Finish(r) ELSE GoTo(r, "removeSetup")
    /\ flow' = [flow EXCEPT ![req[r].flow] = 0]
    /\ UNCHANGED <<revisions, setup, ui, logic, link, linked, cache, lookup>>

RemoveSetup(r) ==
    /\ At(r, {"delete"}, "removeSetup")
    /\ setup' = [setup EXCEPT ![req[r].flow] = 0]
    /\ GoTo(r, "removeLogic")
    /\ UNCHANGED <<revisions, flow, ui, logic, link, linked, cache, lookup>>

RemoveLogic(r) ==
    /\ At(r, {"delete"}, "removeLogic")
    /\ logic' = [logic EXCEPT ![req[r].flow] = 0]
    /\ Finish(r)
    /\ UNCHANGED <<revisions, flow, setup, ui, link, linked, cache, lookup>>

\* setLogicPathSkipState reads the whole program ...
SkipPath(r, f) ==
    /\ flow[f] # 0 /\ logic[f] # 0
    /\ Start(r, [Idle EXCEPT !.op = "skip", !.at = "saveSkip", !.flow = f, !.seen = logic[f]])
    /\ UNCHANGED <<revisions, docVars, link, linked, cache, lookup>>

\* ... and saves it whole, with the path switched (the switch is left out)
SaveSkip(r) ==
    /\ At(r, {"skip"}, "saveSkip")
    /\ LET f == req[r].flow IN
       IF logic[f] = 0 THEN Finish(r) /\ UNCHANGED logic
       ELSE /\ logic' = [logic EXCEPT ![f] = req[r].seen]
            /\ GoTo(r, "evict")
    /\ UNCHANGED <<revisions, flow, setup, ui, link, linked, cache, lookup>>

EvictSkipped(r) ==
    /\ At(r, {"skip"}, "evict")
    /\ \E e \in ActiveDevice(req[r].flow) :
         cache' = [d \in Devices |-> IF d = e THEN Empty ELSE cache[d]]
    /\ Finish(r)
    /\ UNCHANGED <<revisions, docVars, link, linked, lookup>>

-------------------------------------------------------------------------------
(* Messages of a device                                                       *)

\* The device's connection ends, which evicts its program, and a new one notes the flow of
\* its document
Reconnect(d) ==
    /\ linked' = [linked EXCEPT ![d] = link[d]]
    /\ cache' = [cache EXCEPT ![d] = Empty]
    /\ UNCHANGED <<revisions, docVars, link, lookup, req>>

\* A message needs a program: of its connection's flow, of the flow its topic names if the
\* connection has none, or, forwarded, of the flow linked to the device it found ...
Receive(m, d, f) ==
    /\ lookup[m].at = "idle"
    /\ linked[d] \in {f, NoFlow} \/ link[d] = f
    /\ lookup' = [lookup EXCEPT ![m] = [at |-> "begun", device |-> d,
                                        entry |-> [flow |-> f, rev |-> 0]]]
    /\ UNCHANGED <<revisions, docVars, link, linked, cache, req>>

\* ... takes the cached one, or reads the document ...
LookUp(m) ==
    /\ lookup[m].at = "begun"
    /\ LET f == lookup[m].entry.flow IN
       lookup' = [lookup EXCEPT ![m] =
                    IF cache[lookup[m].device].flow = f THEN NoLookup
                    ELSE [lookup[m] EXCEPT !.at = "read", !.entry.rev = logic[f]]]
    /\ UNCHANGED <<revisions, docVars, link, linked, cache, req>>

\* ... and caches what it read
Store(m) ==
    /\ lookup[m].at = "read"
    /\ cache' = [cache EXCEPT ![lookup[m].device] = lookup[m].entry]
    /\ lookup' = [lookup EXCEPT ![m] = NoLookup]
    /\ UNCHANGED <<revisions, docVars, link, linked, req>>

\* The entry's time to live ends
Expire(d) ==
    /\ cache[d] # Empty
    /\ cache' = [cache EXCEPT ![d] = Empty]
    /\ UNCHANGED <<revisions, docVars, link, linked, lookup, req>>

RequestStep(r) ==
    \/ ReadDevice(r) \/ WriteSetup(r) \/ WriteUi(r) \/ WriteLogic(r) \/ Fail(r)
    \/ SaveFlow(r) \/ UnlinkOthers(r) \/ SetLink(r) \/ ReadForUi(r) \/ RebuildUi(r)
    \/ Unset(r) \/ Publish(r) \/ RemoveFlow(r) \/ RemoveSetup(r) \/ RemoveLogic(r)
    \/ SaveSkip(r) \/ EvictSkipped(r)

LifeNext ==
    \/ \E r \in FlowRequests :
         \/ RequestStep(r)
         \/ \E f \in Flows :
              \/ CreateFlow(r, f) \/ DeleteFlow(r, f) \/ SkipPath(r, f)
              \/ \E content \in BOOLEAN : UpdateFlow(r, f, content)
              \/ \E d \in Devices : LinkDevice(r, d, f)
         \/ \E d \in Devices : UnlinkDevice(r, d)
    \/ \E d \in Devices : Reconnect(d) \/ Expire(d)
    \/ \E m \in FlowMessages :
         \/ LookUp(m) \/ Store(m)
         \/ \E d \in Devices, f \in Flows : Receive(m, d, f)

LifeSpec == LifeInit /\ [][LifeNext]_lifeVars

-------------------------------------------------------------------------------
LifeTypeOK ==
    /\ revisions \in Revisions
    /\ flow \in [Flows -> Revisions] /\ setup \in [Flows -> Revisions]
    /\ ui \in [Flows -> Revisions] /\ logic \in [Flows -> Revisions]
    /\ link \in [Devices -> Flows \cup {NoFlow}]
    /\ linked \in [Devices -> Flows \cup {NoFlow}]
    /\ cache \in [Devices -> Entries]
    /\ lookup \in [FlowMessages -> Lookups]
    /\ \A m \in FlowMessages : lookup[m].at # "idle" =>
         lookup[m].device \in Devices /\ lookup[m].entry.flow \in Flows
    /\ req \in [FlowRequests -> LifeRequests]
    /\ \A r \in FlowRequests : req[r].at # "idle" => req[r].flow \in Flows

\* Two links of one flow may overlap between the unlinking of the other devices and the
\* update of their own (devices.service.ts:404), but a flow never has more devices than
\* requests that can overlap.
LinksBounded == \A f \in Flows : Cardinality(Linked(f)) <= Cardinality(FlowRequests)

Whole(f, rev) == flow'[f] = rev /\ setup'[f] = rev /\ ui'[f] = rev /\ logic'[f] = rev

\* An edit that reached its end while no other request worked on the flow
\* (flows.service.ts:494-505, logic.service.ts:145) leaves the four documents of its
\* revision, and no program cached for the one device the flow is linked to, whatever
\* earlier requests left that overlapped or failed part way.  A deletion that reached its
\* end alone (flows.service.ts:545) leaves no flow, setup or program, and no link of the
\* device it found.
AloneIsWhole ==
    [][\A r \in FlowRequests : req[r].alone =>
         LET f == req[r].flow d == req[r].device IN
         /\ req[r].op = "update" /\ Publish(r) =>
              /\ Whole(f, req[r].rev)
              /\ \A e \in Devices : Linked(f) = {e} => cache'[e] = Empty
         /\ req[r].op = "delete" /\ RemoveLogic(r) =>
              /\ flow'[f] = 0 /\ setup'[f] = 0 /\ logic'[f] = 0
              /\ d \in Devices => link'[d] # f
      ]_lifeVars

\* A link that reached its end while no other request worked on the flow, or on the flow
\* the device had, leaves the flow with that device only, with the UI of the flow's
\* revision, and without a program cached from before.
LinkAloneIsExclusive ==
    [][\A r \in FlowRequests : req[r].alone /\ req[r].op = "link" /\ Publish(r) =>
         LET f == req[r].flow d == req[r].device IN
         /\ \A e \in Devices : link'[e] = f => e = d
         /\ ui'[f] = flow'[f]
         /\ cache'[d] = Empty
      ]_lifeVars

===============================================================================
