-------------------------- MODULE Documents_proofs --------------------------
(***************************************************************************)
(* Theorems about the documents of a flow: the flow, the links of its      *)
(* devices, what is derived from it, and the alert rules of its nodes, for *)
(* any flows, devices, revisions, nodes, keys, policies and requests.      *)
(***************************************************************************)
EXTENDS FlowLife, AlertRules, FiniteSetTheorems, TLAPS

-----------------------------------------------------------------------------
(* The flow's life cycle                                                   *)

USE FlowAssumption

ReqOK ==
    /\ req \in [FlowRequests -> LifeRequests]
    /\ \A r \in FlowRequests : req[r].at # "idle" => req[r].flow \in Flows

LEMMA ReqOfType == LifeTypeOK => ReqOK
BY DEF LifeTypeOK, ReqOK

-----------------------------------------------------------------------------
(* Requests                                                                *)

LEMMA IdleRequest == Idle \in LifeRequests /\ Idle.at = "idle" /\ Idle.op = "none"
<1> DEFINE yes == TRUE
<1>1. yes \in BOOLEAN /\ 0 \in Revisions
  BY DEF Revisions
<1> HIDE DEF yes
<1>2. [op |-> "none", at |-> "idle", flow |-> NoFlow, device |-> "none",
       rev |-> 0, seen |-> 0, alone |-> yes] \in LifeRequests
  BY <1>1 DEF LifeRequests
<1> QED
  BY <1>2 DEF Idle, yes

LEMMA AloneKept ==
    ASSUME NEW q \in LifeRequests, NEW a \in BOOLEAN
    PROVE  /\ [q EXCEPT !.alone = a] \in LifeRequests
           /\ [q EXCEPT !.alone = a].op = q.op /\ [q EXCEPT !.alone = a].at = q.at
           /\ [q EXCEPT !.alone = a].flow = q.flow /\ [q EXCEPT !.alone = a].device = q.device
           /\ [q EXCEPT !.alone = a].rev = q.rev /\ [q EXCEPT !.alone = a].alone = a
BY Zenon DEF LifeRequests

\* What a step leaves of the other requests: at most, they are no longer alone.
Similar(q, p) ==
    /\ q.op = p.op /\ q.at = p.at /\ q.flow = p.flow /\ q.device = p.device /\ q.rev = p.rev
    /\ q.alone => p.alone

Others(r) == \A p \in FlowRequests \ {r} : Similar(req'[p], req[p])

Busy(r) == req[r].at # "idle"

\* A request that starts has no flow in common with another, unless neither is alone.
LEMMA Starting ==
    ASSUME ReqOK, NEW r \in FlowRequests, NEW q \in LifeRequests, q.flow \in Flows, Start(r, q)
    PROVE  /\ ReqOK' /\ Others(r) /\ req'[r].op = q.op /\ req'[r].at = q.at
           /\ req'[r].flow = q.flow /\ req'[r].device = q.device
           /\ \A p \in FlowRequests \ {r} :
                Busy(p) /\ (req'[p].alone \/ req'[r].alone) =>
                    Touches(q) \cap Touches(req[p]) \cap Flows = {}
<1> DEFINE others == {p \in FlowRequests \ {r} : Overlaps(q, req[p])}
           a == others = {}
           no == FALSE
<1>1. req' = [p \in FlowRequests |->
                IF p = r THEN [q EXCEPT !.alone = a]
                ELSE IF p \in others THEN [req[p] EXCEPT !.alone = no] ELSE req[p]]
  BY DEF Start
<1>2. a \in BOOLEAN /\ no \in BOOLEAN /\ ~no /\ (a => others = {})
  OBVIOUS
<1>3. \A p \in FlowRequests \ {r} : Busy(p) /\ p \notin others =>
        Touches(q) \cap Touches(req[p]) \cap Flows = {}
  BY DEF Busy, Overlaps
<1> HIDE DEF others, a, no
<1>4. \A p \in FlowRequests : req[p] \in LifeRequests
  BY DEF ReqOK
<1>5. req'[r] = [q EXCEPT !.alone = a]
  BY <1>1
<1>6. /\ req'[r] \in LifeRequests /\ req'[r].op = q.op /\ req'[r].at = q.at
      /\ req'[r].flow = q.flow /\ req'[r].device = q.device /\ req'[r].alone = a
  BY <1>2, <1>5, AloneKept
<1>7. ASSUME NEW p \in FlowRequests \ {r}
      PROVE  /\ req'[p] \in LifeRequests /\ Similar(req'[p], req[p])
             /\ p \in others => ~req'[p].alone
  <2>1. CASE p \in others
    <3>1. PICK o \in LifeRequests : o = req[p]
      BY <1>4
    <3>2. PICK n : n = [o EXCEPT !.alone = no] /\ n = req'[p]
      BY <1>1, <2>1, <3>1
    <3>3. LET m == [o EXCEPT !.alone = no] IN
          /\ m \in LifeRequests /\ m.op = o.op /\ m.at = o.at /\ m.flow = o.flow
          /\ m.device = o.device /\ m.rev = o.rev /\ m.alone = no
      BY <1>2, <3>1, AloneKept
    <3>4. /\ n \in LifeRequests /\ n.op = o.op /\ n.at = o.at /\ n.flow = o.flow
          /\ n.device = o.device /\ n.rev = o.rev /\ n.alone = no
      BY <3>2, <3>3
    <3>5. Similar(n, o)
      BY <1>2, <3>4, Zenon DEF Similar
    <3> QED
      BY <1>2, <3>1, <3>2, <3>4, <3>5, Zenon
  <2>2. CASE p \notin others
    <3>1. req'[p] = req[p] /\ req[p] \in LifeRequests
      BY <1>1, <1>4, <2>2
    <3> QED
      BY <2>2, <3>1 DEF Similar
  <2> QED
    BY <2>1, <2>2
<1>8. req' \in [FlowRequests -> LifeRequests]
  BY <1>1, <1>6, <1>7
<1>9. ReqOK'
  BY <1>6, <1>7, <1>8 DEF ReqOK, Similar
<1>10. ASSUME NEW p \in FlowRequests \ {r}, Busy(p), req'[p].alone \/ req'[r].alone
       PROVE  Touches(q) \cap Touches(req[p]) \cap Flows = {}
  <2>1. p \notin others
    BY <1>2, <1>6, <1>7, <1>10, Zenon
  <2> QED
    BY <1>3, <1>10, <2>1
<1> QED
  BY <1>6, <1>7, <1>9, <1>10 DEF Others

\* A request goes on with another record of its own.
LEMMA Replacing ==
    ASSUME ReqOK, NEW r \in FlowRequests, NEW q \in LifeRequests,
           q.at # "idle" => q.flow \in Flows, req' = [req EXCEPT ![r] = q]
    PROVE  /\ ReqOK' /\ Others(r) /\ req'[r] = q
           /\ \A p \in FlowRequests \ {r} : req'[p] = req[p]
BY DEF ReqOK, Others, Similar

LEMMA GoingOn ==
    ASSUME ReqOK, NEW r \in FlowRequests, req[r].at # "idle", NEW at, GoTo(r, at),
           at \in {"device", "setup", "ui", "logic", "save", "publish", "set", "rebuild", "rebuilt",
                   "unset", "remove", "removeSetup", "removeLogic", "evict", "idle"}
    PROVE  ReqOK' /\ Others(r) /\ req'[r] = [req[r] EXCEPT !.at = at] /\ req'[r].at = at
<1> DEFINE q == [req[r] EXCEPT !.at = at]
<1>1. q \in LifeRequests /\ q.at = at /\ q.flow = req[r].flow /\ req[r].flow \in Flows
  BY DEF ReqOK, LifeRequests
<1>2. req' = [req EXCEPT ![r] = q]
  BY DEF GoTo
<1> HIDE DEF q
<1>3. ReqOK' /\ Others(r) /\ req'[r] = q
  BY <1>1, <1>2, Replacing
<1> QED
  BY <1>1, <1>3 DEF q

LEMMA Finishing ==
    ASSUME ReqOK, NEW r \in FlowRequests, Finish(r)
    PROVE  ReqOK' /\ Others(r) /\ req'[r].at = "idle"
<1>1. ReqOK' /\ Others(r) /\ req'[r] = Idle
  BY IdleRequest, Replacing DEF Finish
<1> QED
  BY <1>1, IdleRequest

-----------------------------------------------------------------------------
(* Types                                                                   *)

DocsOK ==
    /\ revisions \in Revisions
    /\ flow \in [Flows -> Revisions] /\ setup \in [Flows -> Revisions]
    /\ ui \in [Flows -> Revisions] /\ logic \in [Flows -> Revisions]
    /\ link \in [Devices -> Flows \cup {NoFlow}]
    /\ linked \in [Devices -> Flows \cup {NoFlow}]
    /\ cache \in [Devices -> Entries]
    /\ lookup \in [FlowMessages -> Lookups]
    /\ \A m \in FlowMessages : lookup[m].at # "idle" =>
         lookup[m].device \in Devices /\ lookup[m].entry.flow \in Flows

LEMMA TypeParts == LifeTypeOK <=> DocsOK /\ ReqOK
BY DEF LifeTypeOK, DocsOK, ReqOK

LEMMA TypePartsNext == ASSUME DocsOK', ReqOK' PROVE LifeTypeOK'
BY DEF LifeTypeOK, DocsOK, ReqOK

LEMMA NoLookupIs == Empty \in Entries /\ NoLookup \in Lookups /\ NoLookup.at = "idle"
BY DEF Empty, Entries, Revisions, NoLookup, Lookups

LEMMA LifeTypeInit == LifeInit => LifeTypeOK
<1> SUFFICES ASSUME LifeInit PROVE LifeTypeOK
  OBVIOUS
<1>1. 0 \in Revisions /\ Empty \in Entries
  BY DEF Revisions, Empty, Entries
<1>2. DocsOK
  BY <1>1, NoLookupIs DEF LifeInit, DocsOK
<1>3. ReqOK
  BY IdleRequest DEF LifeInit, ReqOK
<1> QED
  BY <1>2, <1>3, TypeParts

-----------------------------------------------------------------------------
(* Every step but two is quiet: it links no device and brings no request   *)
(* before the update that would.                                           *)

Quiet ==
    /\ \A p \in FlowRequests : req'[p].op = "link" /\ req'[p].at = "set" =>
         /\ req[p].op = "link" /\ req[p].at = "set"
         /\ req'[p].flow = req[p].flow /\ req'[p].device = req[p].device
    /\ \A d \in Devices : link'[d] = link[d] \/ link'[d] = NoFlow

LEMMA QuietRequest ==
    ASSUME NEW r \in FlowRequests, Others(r), req'[r].at # "set",
           \A d \in Devices : link'[d] = link[d] \/ link'[d] = NoFlow
    PROVE  Quiet
BY DEF Others, Similar, Quiet

\* A step that starts a request.
LEMMA StartQuietly ==
    ASSUME LifeTypeOK, NEW r \in FlowRequests, NEW q \in LifeRequests, q.flow \in Flows,
           q.at # "set", Start(r, q), link' = link
    PROVE  ReqOK' /\ Quiet
<1>1. ReqOK' /\ Others(r) /\ req'[r].at = q.at
  BY ReqOfType, Starting
<1> QED
  BY <1>1, QuietRequest

\* A step that takes a request further, or ends it.
LEMMA GoQuietly ==
    ASSUME LifeTypeOK, NEW r \in FlowRequests, req[r].at # "idle",
           \/ Finish(r)
           \/ \E at \in {"device", "setup", "ui", "logic", "save", "publish", "rebuild", "rebuilt",
                         "unset", "remove", "removeSetup", "removeLogic", "evict", "idle"} :
                GoTo(r, at),
           \A d \in Devices : link'[d] = link[d] \/ link'[d] = NoFlow
    PROVE  ReqOK' /\ Quiet
<1>1. CASE Finish(r)
  BY <1>1, ReqOfType, Finishing, QuietRequest
<1>2. ASSUME NEW at \in {"device", "setup", "ui", "logic", "save", "publish", "rebuild", "rebuilt",
                         "unset", "remove", "removeSetup", "removeLogic", "evict", "idle"},
             GoTo(r, at)
      PROVE  ReqOK' /\ Quiet
  <2>1. ReqOK' /\ Others(r) /\ req'[r].at = at
    BY <1>2, ReqOfType, GoingOn
  <2> QED
    BY <2>1, QuietRequest
<1> QED
  BY <1>1, <1>2

\* A step that takes a request further with another record.
LEMMA ReplaceQuietly ==
    ASSUME LifeTypeOK, NEW r \in FlowRequests, NEW q \in LifeRequests, q.flow \in Flows,
           q.at # "set", req' = [req EXCEPT ![r] = q], link' = link
    PROVE  ReqOK' /\ Quiet
<1>1. ReqOK' /\ Others(r) /\ req'[r] = q
  BY ReqOfType, Replacing
<1> QED
  BY <1>1, QuietRequest

\* A request under way has a flow, and its revisions are revisions.
LEMMA UnderWay ==
    ASSUME LifeTypeOK, NEW r \in FlowRequests, req[r].at # "idle"
    PROVE  /\ req[r].flow \in Flows /\ req[r].rev \in Revisions /\ req[r].seen \in Revisions
           /\ req[r] \in LifeRequests
BY DEF LifeTypeOK, LifeRequests

-----------------------------------------------------------------------------
(* Edits                                                                   *)

LEMMA CreateStep ==
    ASSUME LifeTypeOK, NEW r \in FlowRequests, NEW f \in Flows, CreateFlow(r, f)
    PROVE  LifeTypeOK' /\ Quiet
<1> DEFINE q == [Idle EXCEPT !.op = "create", !.at = "setup", !.flow = f, !.rev = revisions']
<1>1. revisions' \in Revisions /\ 0 \in Revisions
  BY DEF CreateFlow, LifeTypeOK, Revisions
<1>2. q \in LifeRequests /\ q.flow \in Flows /\ q.at # "set"
  BY <1>1, IdleRequest DEF LifeRequests
<1>3. Start(r, q) /\ link' = link
  BY DEF CreateFlow
<1> HIDE DEF q
<1>4. ReqOK' /\ Quiet
  BY <1>2, <1>3, StartQuietly
<1>5. DocsOK'
  BY <1>1, TypeParts DEF CreateFlow, DocsOK
<1> QED
  BY <1>4, <1>5, TypePartsNext

LEMMA UpdateStep ==
    ASSUME LifeTypeOK, NEW r \in FlowRequests, NEW f \in Flows, NEW content \in BOOLEAN,
           UpdateFlow(r, f, content)
    PROVE  LifeTypeOK' /\ Quiet
<1> DEFINE q == [Idle EXCEPT !.op = IF content THEN "update" ELSE "rename", !.at = "device",
                             !.flow = f, !.rev = IF content THEN revisions' ELSE 0,
                             !.seen = flow[f]]
<1>1. revisions' \in Revisions /\ 0 \in Revisions /\ flow[f] \in Revisions
  BY DEF UpdateFlow, LifeTypeOK, Revisions
<1>2. q \in LifeRequests /\ q.flow \in Flows /\ q.at # "set"
  <2>1. PICK op, n : op = (IF content THEN "update" ELSE "rename")
                     /\ n = IF content THEN revisions' ELSE 0
    OBVIOUS
  <2>2. op \in {"update", "rename"} /\ n \in Revisions
    BY <1>1, <2>1
  <2>3. q = [Idle EXCEPT !.op = op, !.at = "device", !.flow = f, !.rev = n, !.seen = flow[f]]
    BY <2>1
  <2>4. [Idle EXCEPT !.op = op, !.at = "device", !.flow = f, !.rev = n, !.seen = flow[f]]
          \in LifeRequests
    BY <1>1, <2>2, IdleRequest DEF LifeRequests
  <2> QED
    BY <2>3, <2>4, IdleRequest DEF LifeRequests
<1>3. Start(r, q) /\ link' = link
  BY DEF UpdateFlow
<1> HIDE DEF q
<1>4. ReqOK' /\ Quiet
  BY <1>2, <1>3, StartQuietly
<1>5. DocsOK'
  BY <1>1, TypeParts DEF UpdateFlow, DocsOK, docVars
<1> QED
  BY <1>4, <1>5, TypePartsNext

LEMMA ReadDeviceStep ==
    ASSUME LifeTypeOK, NEW r \in FlowRequests, ReadDevice(r)
    PROVE  LifeTypeOK' /\ Quiet
<1>1. PICK d \in ActiveDevice(req[r].flow) :
        req' = [req EXCEPT ![r].device = d,
                           ![r].at = IF req[r].op = "update" THEN "setup" ELSE "save"]
  BY DEF ReadDevice
<1>2. PICK at : at = IF req[r].op = "update" THEN "setup" ELSE "save"
  OBVIOUS
<1> DEFINE q == [req[r] EXCEPT !.device = d, !.at = at]
<1>3. d \in Devices \cup {"none"} /\ at \in {"setup", "save"} /\ req[r].at # "idle"
  BY <1>2 DEF ReadDevice, At, ActiveDevice, Linked
<1>4. q \in LifeRequests /\ q.at # "set" /\ q.flow \in Flows
  BY <1>3, UnderWay DEF LifeRequests
<1>5. req' = [req EXCEPT ![r] = q] /\ link' = link
  BY <1>1, <1>2, UnderWay, TypeParts DEF ReadDevice, ReqOK
<1> HIDE DEF q
<1>6. ReqOK' /\ Quiet
  BY <1>4, <1>5, ReplaceQuietly
<1>7. DocsOK'
  BY TypeParts DEF ReadDevice, DocsOK, docVars
<1> QED
  BY <1>6, <1>7, TypePartsNext

LEMMA WriteStep ==
    ASSUME LifeTypeOK, NEW r \in FlowRequests,
           WriteSetup(r) \/ WriteUi(r) \/ WriteLogic(r)
    PROVE  LifeTypeOK' /\ Quiet
<1>1. /\ req[r].at # "idle" /\ req[r].op \in {"create", "update"} /\ link' = link
      /\ Finish(r) \/ GoTo(r, "logic") \/ GoTo(r, After[req[r].op].setup)
         \/ GoTo(r, After[req[r].op].logic)
  BY DEF WriteSetup, WriteUi, WriteLogic, At, docVars
<1>2. /\ After[req[r].op].setup \in {"logic", "ui"} /\ After[req[r].op].logic \in {"ui", "save"}
  BY <1>1 DEF After
<1>3. ReqOK' /\ Quiet
  BY <1>1, <1>2, GoQuietly
<1>4. DocsOK'
  BY <1>1, UnderWay, TypeParts
     DEF WriteSetup, WriteUi, WriteLogic, DocsOK, docVars
<1> QED
  BY <1>3, <1>4, TypePartsNext

LEMMA SaveStep ==
    ASSUME LifeTypeOK, NEW r \in FlowRequests, SaveFlow(r)
    PROVE  LifeTypeOK' /\ Quiet
<1>1. /\ req[r].at # "idle" /\ link' = link
      /\ Finish(r) \/ GoTo(r, "publish")
  BY DEF SaveFlow, At
<1>2. ReqOK' /\ Quiet
  BY <1>1, GoQuietly
<1>3. flow' \in [Flows -> Revisions]
  BY <1>1, UnderWay, TypeParts DEF SaveFlow, DocsOK
<1>4. DocsOK'
  BY <1>3, TypeParts DEF SaveFlow, DocsOK
<1> QED
  BY <1>2, <1>4, TypePartsNext

-----------------------------------------------------------------------------
(* Links                                                                   *)

LEMMA LinkStart ==
    ASSUME LifeTypeOK, NEW r \in FlowRequests, NEW d \in Devices, NEW f \in Flows,
           LinkDevice(r, d, f) \/ UnlinkDevice(r, d)
    PROVE  LifeTypeOK' /\ Quiet
<1>1. PICK op, at, g :
        /\ Start(r, [Idle EXCEPT !.op = op, !.at = at, !.flow = g, !.device = d])
        /\ op \in {"link", "unlink"} /\ at \in {"others", "unset"} /\ g \in Flows
  <2>1. CASE LinkDevice(r, d, f)
    BY <2>1 DEF LinkDevice
  <2>2. CASE UnlinkDevice(r, d)
    BY <2>2 DEF UnlinkDevice
  <2> QED
    BY <2>1, <2>2
<1> DEFINE q == [Idle EXCEPT !.op = op, !.at = at, !.flow = g, !.device = d]
<1>2. q \in LifeRequests /\ q.flow \in Flows /\ q.at # "set"
  BY <1>1, IdleRequest DEF LifeRequests
<1>3. Start(r, q) /\ link' = link
  BY <1>1 DEF LinkDevice, UnlinkDevice
<1> HIDE DEF q
<1>4. ReqOK' /\ Quiet
  BY <1>2, <1>3, StartQuietly
<1>5. DocsOK'
  BY TypeParts DEF LinkDevice, UnlinkDevice, DocsOK, docVars
<1> QED
  BY <1>4, <1>5, TypePartsNext

LEMMA RebuildStep ==
    ASSUME LifeTypeOK, NEW r \in FlowRequests, ReadForUi(r) \/ RebuildUi(r)
    PROVE  LifeTypeOK' /\ Quiet
<1>1. req[r].at # "idle" /\ link' = link /\ 0 \in Revisions
  BY DEF ReadForUi, RebuildUi, At, Revisions
<1>2. DocsOK'
  BY <1>1, UnderWay, TypeParts DEF ReadForUi, RebuildUi, DocsOK, docVars
<1>3. CASE Finish(r) \/ GoTo(r, "publish")
  <2>1. ReqOK' /\ Quiet
    BY <1>1, <1>3, GoQuietly
  <2> QED
    BY <1>2, <2>1, TypePartsNext
<1>4. CASE req' = [req EXCEPT ![r].rev = flow[req[r].flow], ![r].at = "rebuilt"]
  <2> DEFINE q == [req[r] EXCEPT !.rev = flow[req[r].flow], !.at = "rebuilt"]
  <2>1. flow[req[r].flow] \in Revisions
    BY <1>1, UnderWay, TypeParts DEF DocsOK
  <2>2. q \in LifeRequests /\ q.flow \in Flows /\ q.at # "set"
    BY <1>1, <2>1, UnderWay DEF LifeRequests
  <2>3. req' = [req EXCEPT ![r] = q]
    BY <1>4, TypeParts DEF ReqOK
  <2> HIDE DEF q
  <2>4. ReqOK' /\ Quiet
    BY <1>1, <2>2, <2>3, ReplaceQuietly
  <2> QED
    BY <1>2, <2>4, TypePartsNext
<1> QED
  BY <1>3, <1>4 DEF ReadForUi, RebuildUi

LEMMA UnsetStep ==
    ASSUME LifeTypeOK, NEW r \in FlowRequests, Unset(r)
    PROVE  LifeTypeOK' /\ Quiet
<1>1. /\ req[r].at # "idle"
      /\ Finish(r) \/ GoTo(r, "publish") \/ GoTo(r, "remove")
      /\ link' = link \/ link' = [link EXCEPT ![req[r].device] = NoFlow]
  BY DEF Unset, At
<1>2. \A d \in Devices : link'[d] = link[d] \/ link'[d] = NoFlow
  BY <1>1, TypeParts DEF DocsOK
<1>3. ReqOK' /\ Quiet
  BY <1>1, <1>2, GoQuietly
<1>4. DocsOK'
  BY <1>1, TypeParts DEF Unset, DocsOK, docVars
<1> QED
  BY <1>3, <1>4, TypePartsNext

LEMMA PublishStep ==
    ASSUME LifeTypeOK, NEW r \in FlowRequests, Publish(r)
    PROVE  LifeTypeOK' /\ Quiet
<1>1. req[r].at # "idle" /\ link' = link /\ (Finish(r) \/ GoTo(r, "remove"))
  BY DEF Publish, At
<1>2. ReqOK' /\ Quiet
  BY <1>1, GoQuietly
<1>3. Empty \in Entries
  BY DEF Empty, Entries, Revisions
<1>4. DocsOK'
  BY <1>3, TypeParts DEF Publish, DocsOK, docVars
<1> QED
  BY <1>2, <1>4, TypePartsNext

-----------------------------------------------------------------------------
(* Deletion, the skipped path and messages                                 *)

LEMMA DeleteStart ==
    ASSUME LifeTypeOK, NEW r \in FlowRequests, NEW f \in Flows, DeleteFlow(r, f)
    PROVE  LifeTypeOK' /\ Quiet
<1>1. PICK d \in ActiveDevice(f) :
        Start(r, [Idle EXCEPT !.op = "delete", !.at = "unset", !.flow = f, !.device = d])
  BY DEF DeleteFlow
<1> DEFINE q == [Idle EXCEPT !.op = "delete", !.at = "unset", !.flow = f, !.device = d]
<1>2. d \in Devices \cup {"none"}
  BY DEF ActiveDevice, Linked
<1>3. q \in LifeRequests /\ q.flow \in Flows /\ q.at # "set"
  BY <1>2, IdleRequest DEF LifeRequests
<1>4. Start(r, q) /\ link' = link
  BY <1>1 DEF DeleteFlow
<1> HIDE DEF q
<1>5. ReqOK' /\ Quiet
  BY <1>3, <1>4, StartQuietly
<1>6. DocsOK'
  BY TypeParts DEF DeleteFlow, DocsOK, docVars
<1> QED
  BY <1>5, <1>6, TypePartsNext

LEMMA RemoveStep ==
    ASSUME LifeTypeOK, NEW r \in FlowRequests, RemoveFlow(r) \/ RemoveSetup(r) \/ RemoveLogic(r)
    PROVE  LifeTypeOK' /\ Quiet
<1>1. /\ req[r].at # "idle" /\ link' = link /\ 0 \in Revisions
      /\ Finish(r) \/ GoTo(r, "removeSetup") \/ GoTo(r, "removeLogic")
  BY DEF RemoveFlow, RemoveSetup, RemoveLogic, At, Revisions
<1>2. ReqOK' /\ Quiet
  BY <1>1, GoQuietly
<1>3. DocsOK'
  BY <1>1, TypeParts DEF RemoveFlow, RemoveSetup, RemoveLogic, DocsOK
<1> QED
  BY <1>2, <1>3, TypePartsNext

LEMMA SkipStart ==
    ASSUME LifeTypeOK, NEW r \in FlowRequests, NEW f \in Flows, SkipPath(r, f)
    PROVE  LifeTypeOK' /\ Quiet
<1> DEFINE q == [Idle EXCEPT !.op = "skip", !.at = "saveSkip", !.flow = f, !.seen = logic[f]]
<1>1. logic[f] \in Revisions
  BY TypeParts DEF DocsOK
<1>2. q \in LifeRequests /\ q.flow \in Flows /\ q.at # "set"
  BY <1>1, IdleRequest DEF LifeRequests
<1>3. Start(r, q) /\ link' = link
  BY DEF SkipPath
<1> HIDE DEF q
<1>4. ReqOK' /\ Quiet
  BY <1>2, <1>3, StartQuietly
<1>5. DocsOK'
  BY TypeParts DEF SkipPath, DocsOK, docVars
<1> QED
  BY <1>4, <1>5, TypePartsNext

LEMMA SkipStep ==
    ASSUME LifeTypeOK, NEW r \in FlowRequests, SaveSkip(r) \/ EvictSkipped(r)
    PROVE  LifeTypeOK' /\ Quiet
<1>1. /\ req[r].at # "idle" /\ link' = link /\ (Finish(r) \/ GoTo(r, "evict"))
      /\ Empty \in Entries
  BY DEF SaveSkip, EvictSkipped, At, docVars, Empty, Entries, Revisions
<1>2. ReqOK' /\ Quiet
  BY <1>1, GoQuietly
<1>3. /\ logic' \in [Flows -> Revisions] /\ cache' \in [Devices -> Entries]
      /\ UNCHANGED <<revisions, flow, setup, ui, link, linked, lookup>>
  BY <1>1, UnderWay, TypeParts DEF SaveSkip, EvictSkipped, DocsOK, docVars
<1>4. DocsOK'
  BY <1>3, TypeParts DEF DocsOK
<1> QED
  BY <1>2, <1>4, TypePartsNext

LEMMA FailStep ==
    ASSUME LifeTypeOK, NEW r \in FlowRequests, Fail(r)
    PROVE  LifeTypeOK' /\ Quiet
<1>1. ReqOK' /\ Quiet
  BY GoQuietly DEF Fail
<1>2. DocsOK'
  BY TypeParts DEF Fail, DocsOK, docVars
<1> QED
  BY <1>1, <1>2, TypePartsNext

MessageMoves ==
    \/ \E d \in Devices : Reconnect(d) \/ Expire(d)
    \/ \E m \in FlowMessages :
         \/ LookUp(m) \/ Store(m)
         \/ \E d \in Devices, f \in Flows : Receive(m, d, f)

\* A message moves: what it looks up keeps its device and flow, and is cached for the device.
LEMMA MessageStep ==
    ASSUME LifeTypeOK, MessageMoves
    PROVE  LifeTypeOK' /\ Quiet
<1>1. ReqOK' /\ Quiet
  BY TypeParts DEF MessageMoves, Reconnect, Expire, LookUp, Store, Receive, ReqOK, Quiet
<1>2. ASSUME NEW d \in Devices, Reconnect(d) \/ Expire(d) PROVE DocsOK'
  BY <1>2, NoLookupIs, TypeParts DEF Reconnect, Expire, DocsOK, docVars
<1>3. ASSUME NEW m \in FlowMessages, NEW l \in Lookups,
             l.at # "idle" => l.device \in Devices /\ l.entry.flow \in Flows,
             lookup' = [lookup EXCEPT ![m] = l], cache' \in [Devices -> Entries],
             UNCHANGED <<revisions, docVars, link, linked>>
      PROVE  DocsOK'
  BY <1>3, TypeParts DEF DocsOK, docVars
<1>4. ASSUME NEW m \in FlowMessages, NEW d \in Devices, NEW f \in Flows, Receive(m, d, f)
      PROVE  DocsOK'
  <2> DEFINE l == [at |-> "begun", device |-> d, entry |-> [flow |-> f, rev |-> 0]]
  <2>1. /\ l \in Lookups /\ l.device \in Devices /\ l.entry.flow \in Flows
        /\ lookup' = [lookup EXCEPT ![m] = l] /\ cache' \in [Devices -> Entries]
        /\ UNCHANGED <<revisions, docVars, link, linked>>
    BY <1>4, TypeParts DEF Receive, Lookups, Entries, Revisions, DocsOK
  <2> HIDE DEF l
  <2> QED
    BY <1>3, <2>1
<1>5. ASSUME NEW m \in FlowMessages, LookUp(m) PROVE DocsOK'
  <2>1. PICK o \in Lookups : o = lookup[m]
    BY TypeParts DEF DocsOK
  <2>2. o.device \in Devices /\ o.entry.flow \in Flows /\ o.entry \in Entries
    BY <1>5, <2>1, TypeParts DEF LookUp, DocsOK, Lookups
  <2>3. PICK v \in Revisions : v = logic[o.entry.flow]
    BY <2>2, TypeParts DEF DocsOK
  <2> DEFINE l == IF cache[o.device].flow = o.entry.flow THEN NoLookup
                  ELSE [o EXCEPT !.at = "read", !.entry.rev = v]
  <2>4. l \in Lookups /\ (l.at # "idle" => l.device \in Devices /\ l.entry.flow \in Flows)
    BY <2>1, <2>2, <2>3, NoLookupIs DEF Lookups, Entries
  <2>5. /\ lookup' = [lookup EXCEPT ![m] = l] /\ cache' \in [Devices -> Entries]
        /\ UNCHANGED <<revisions, docVars, link, linked>>
    BY <1>5, <2>1, <2>3, TypeParts DEF LookUp, DocsOK
  <2> HIDE DEF l
  <2> QED
    BY <1>3, <2>4, <2>5
<1>6. ASSUME NEW m \in FlowMessages, Store(m) PROVE DocsOK'
  <2>1. /\ lookup[m].entry \in Entries /\ lookup' = [lookup EXCEPT ![m] = NoLookup]
        /\ UNCHANGED <<revisions, docVars, link, linked>>
    BY <1>6, TypeParts DEF Store, DocsOK, Lookups
  <2>2. cache' \in [Devices -> Entries]
    BY <1>6, <2>1, TypeParts DEF Store, DocsOK
  <2> QED
    BY <1>3, <2>1, <2>2, NoLookupIs
<1> QED
  BY <1>1, <1>2, <1>4, <1>5, <1>6, TypePartsNext DEF MessageMoves

-----------------------------------------------------------------------------
(* The devices a flow has, or is about to get                              *)

\* Link requests that unlinked the other devices and have not linked their own.
Linking(f) == {r \in FlowRequests : req[r].op = "link" /\ req[r].at = "set" /\ req[r].flow = f}

Targeted(f) == Linked(f) \cup {req[r].device : r \in Linking(f)}

\* Unlinking leaves the devices such requests will link, one for each: no update adds to
\* what a flow has and is about to get.
TargetsBounded ==
    \A f \in Flows : /\ IsFiniteSet(Targeted(f))
                     /\ Cardinality(Targeted(f)) <= Cardinality(FlowRequests)

\* The devices of some requests are no more than the requests.
LEMMA DevicesOfRequests ==
    ASSUME NEW R \in SUBSET FlowRequests, NEW g, DOMAIN g = FlowRequests
    PROVE  /\ IsFiniteSet({g[r] : r \in R})
           /\ Cardinality({g[r] : r \in R}) <= Cardinality(FlowRequests)
<1> DEFINE h == [r \in R |-> g[r]]  T == {g[r] : r \in R}
<1>1. h \in Surjection(R, T)
  BY DEF Surjection
<1>2. IsFiniteSet(R) /\ Cardinality(R) <= Cardinality(FlowRequests)
  BY FS_Subset
<1> HIDE DEF h, T
<1>3. IsFiniteSet(T) /\ Cardinality(T) <= Cardinality(R)
  BY <1>1, <1>2, FS_Surjection
<1>4. Cardinality(T) \in Nat /\ Cardinality(R) \in Nat /\ Cardinality(FlowRequests) \in Nat
  BY <1>2, <1>3, FS_CardinalityType
<1>5. IsFiniteSet(T) /\ Cardinality(T) <= Cardinality(FlowRequests)
  BY <1>2, <1>3, <1>4
<1> QED
  BY <1>5 DEF T

\* A flow whose targets only get fewer stays within the bound.
LEMMA TargetsShrink ==
    ASSUME TargetsBounded, NEW f \in Flows, Targeted(f)' \subseteq Targeted(f)
    PROVE  /\ IsFiniteSet(Targeted(f)')
           /\ Cardinality(Targeted(f)') <= Cardinality(FlowRequests)
<1>1. IsFiniteSet(Targeted(f)) /\ Cardinality(Targeted(f)) <= Cardinality(FlowRequests)
  BY DEF TargetsBounded
<1>2. IsFiniteSet(Targeted(f)') /\ Cardinality(Targeted(f)') <= Cardinality(Targeted(f))
  BY <1>1, FS_Subset
<1>3. /\ Cardinality(Targeted(f)) \in Nat /\ Cardinality(Targeted(f)') \in Nat
      /\ Cardinality(FlowRequests) \in Nat
  BY <1>1, <1>2, FS_CardinalityType
<1> QED
  BY <1>1, <1>2, <1>3

LEMMA QuietKeepsTargets ==
    ASSUME LifeTypeOK, TargetsBounded, Quiet
    PROVE  TargetsBounded'
<1>1. ASSUME NEW f \in Flows PROVE Targeted(f)' \subseteq Targeted(f)
  <2>1. Linked(f)' \subseteq Linked(f)
    BY DEF Quiet, Linked
  <2>2. \A r \in Linking(f)' : r \in Linking(f) /\ req'[r].device = req[r].device
    BY DEF Quiet, Linking
  <2> QED
    BY <2>1, <2>2 DEF Targeted
<1> QED
  BY <1>1, TargetsShrink DEF TargetsBounded

LEMMA UnlinkOthersStep ==
    ASSUME LifeTypeOK, TargetsBounded, NEW r \in FlowRequests, UnlinkOthers(r)
    PROVE  LifeTypeOK' /\ TargetsBounded'
<1>1. PICK f, d : f = req[r].flow /\ d = req[r].device
  OBVIOUS
<1>2. /\ req[r].at # "idle" /\ req[r].at = "others" /\ req[r].op = "link" /\ GoTo(r, "set")
      /\ link' = [e \in Devices |-> IF link[e] = f /\ e # d THEN NoFlow ELSE link[e]]
  BY <1>1 DEF UnlinkOthers, At
<1>3. ReqOK' /\ Others(r) /\ req'[r] = [req[r] EXCEPT !.at = "set"]
  BY <1>2, ReqOfType, GoingOn
<1>4. DocsOK'
  BY <1>2, TypeParts DEF UnlinkOthers, DocsOK, docVars
<1>5. /\ req'[r].op = "link" /\ req'[r].at = "set" /\ req'[r].flow = f /\ req'[r].device = d
      /\ f \in Flows
  BY <1>1, <1>2, <1>3, UnderWay DEF LifeRequests
<1>6. ASSUME NEW g \in Flows, g # f PROVE Targeted(g)' \subseteq Targeted(g)
  <2>1. Linked(g)' \subseteq Linked(g)
    BY <1>2 DEF Linked
  <2>2. \A p \in Linking(g)' : p \in Linking(g) /\ req'[p].device = req[p].device
    BY <1>3, <1>5, <1>6 DEF Linking, Others, Similar
  <2> QED
    BY <2>1, <2>2 DEF Targeted
<1>7. /\ IsFiniteSet(Targeted(f)')
      /\ Cardinality(Targeted(f)') <= Cardinality(FlowRequests)
  <2> DEFINE R == {p \in FlowRequests : req'[p].op = "link" /\ req'[p].at = "set" /\ req'[p].flow = f}
             g == [p \in FlowRequests |-> req'[p].device]
  <2>1. R \in SUBSET FlowRequests /\ r \in R /\ DOMAIN g = FlowRequests /\ g[r] = d
    BY <1>5
  <2>2. Targeted(f)' = Linked(f)' \cup {g[p] : p \in R}
    BY DEF Targeted, Linking
  <2>3. Linked(f)' \subseteq {d}
    BY <1>2, <1>5 DEF Linked
  <2> HIDE DEF R, g
  <2>4. Targeted(f)' = {g[p] : p \in R}
    BY <2>1, <2>2, <2>3
  <2> QED
    BY <2>1, <2>4, DevicesOfRequests
<1>8. TargetsBounded'
  BY <1>6, <1>7, TargetsShrink DEF TargetsBounded
<1> QED
  BY <1>3, <1>4, <1>8, TypePartsNext

LEMMA SetLinkStep ==
    ASSUME LifeTypeOK, TargetsBounded, NEW r \in FlowRequests, SetLink(r)
    PROVE  LifeTypeOK' /\ TargetsBounded'
<1>1. PICK f, d : f = req[r].flow /\ d = req[r].device
  OBVIOUS
<1>2. /\ req[r].at # "idle" /\ req[r].at = "set" /\ req[r].op = "link" /\ GoTo(r, "rebuild")
      /\ link' = [link EXCEPT ![d] = f]
  BY <1>1 DEF SetLink, At
<1>3. ReqOK' /\ Others(r) /\ req'[r].at = "rebuild" /\ f \in Flows
  BY <1>1, <1>2, ReqOfType, GoingOn, UnderWay
<1>4. DocsOK'
  BY <1>2, <1>3, TypeParts DEF SetLink, DocsOK, docVars
<1>5. ASSUME NEW g \in Flows PROVE Targeted(g)' \subseteq Targeted(g)
  <2>1. \A p \in Linking(g)' : p \in Linking(g) /\ req'[p].device = req[p].device
    BY <1>3 DEF Linking, Others, Similar
  <2>2. g = f => d \in Targeted(g)
    BY <1>1, <1>2 DEF Targeted, Linking
  <2>3. \A e \in Linked(g)' : e \in Linked(g) \/ (e = d /\ g = f)
    BY <1>2, TypeParts DEF Linked, DocsOK
  <2> QED
    BY <2>1, <2>2, <2>3 DEF Targeted
<1>6. TargetsBounded'
  BY <1>5, TargetsShrink DEF TargetsBounded
<1> QED
  BY <1>3, <1>4, <1>6, TypePartsNext

-----------------------------------------------------------------------------

LEMMA LifeInitial == LifeInit => LifeTypeOK /\ TargetsBounded
<1> SUFFICES ASSUME LifeInit PROVE LifeTypeOK /\ TargetsBounded
  OBVIOUS
<1>1. \A f \in Flows : Targeted(f) = {}
  BY IdleRequest DEF LifeInit, Targeted, Linked, Linking
<1>2. Cardinality(FlowRequests) \in Nat
  BY FS_CardinalityType
<1> QED
  BY <1>1, <1>2, LifeTypeInit, FS_EmptySet DEF TargetsBounded

LEMMA LifeStep ==
    LifeTypeOK /\ TargetsBounded /\ [LifeNext]_lifeVars => LifeTypeOK' /\ TargetsBounded'
<1> SUFFICES ASSUME LifeTypeOK, TargetsBounded, [LifeNext]_lifeVars
             PROVE  LifeTypeOK' /\ TargetsBounded'
  OBVIOUS
<1>1. CASE UNCHANGED lifeVars
  <2>1. LifeTypeOK' /\ Quiet
    BY <1>1 DEF lifeVars, docVars, LifeTypeOK, Quiet
  <2> QED
    BY <2>1, QuietKeepsTargets
<1>2. ASSUME NEW r \in FlowRequests, RequestStep(r) PROVE LifeTypeOK' /\ TargetsBounded'
  <2>1. CASE UnlinkOthers(r) \/ SetLink(r)
    BY <2>1, UnlinkOthersStep, SetLinkStep
  <2>2. CASE ~(UnlinkOthers(r) \/ SetLink(r))
    <3>1. LifeTypeOK' /\ Quiet
      BY <1>2, <2>2, ReadDeviceStep, WriteStep, SaveStep, RebuildStep, UnsetStep, PublishStep,
         RemoveStep, SkipStep, FailStep DEF RequestStep
    <3> QED
      BY <3>1, QuietKeepsTargets
  <2> QED
    BY <2>1, <2>2
<1>3. ASSUME NEW r \in FlowRequests, NEW f \in Flows,
             \/ CreateFlow(r, f) \/ DeleteFlow(r, f) \/ SkipPath(r, f)
             \/ \E content \in BOOLEAN : UpdateFlow(r, f, content)
             \/ \E d \in Devices : LinkDevice(r, d, f)
      PROVE  LifeTypeOK' /\ TargetsBounded'
  BY <1>3, CreateStep, DeleteStart, SkipStart, UpdateStep, LinkStart, QuietKeepsTargets
<1>4. ASSUME NEW r \in FlowRequests, NEW d \in Devices, UnlinkDevice(r, d)
      PROVE  LifeTypeOK' /\ TargetsBounded'
  <2>1. PICK f \in Flows : f = link[d]
    BY <1>4 DEF UnlinkDevice
  <2> QED
    BY <1>4, <2>1, LinkStart, QuietKeepsTargets
<1>5. CASE MessageMoves
  BY <1>5, MessageStep, QuietKeepsTargets
<1> QED
  BY <1>1, <1>2, <1>3, <1>4, <1>5 DEF LifeNext, MessageMoves

\* However link requests of one flow overlap with each other and with everything else, it
\* never has more devices than requests that can overlap.
THEOREM LinksStayBounded == LifeSpec => []LinksBounded
<1>1. TargetsBounded => LinksBounded
  <2> SUFFICES ASSUME TargetsBounded, NEW f \in Flows
               PROVE  Cardinality(Linked(f)) <= Cardinality(FlowRequests)
    BY DEF LinksBounded
  <2>1. IsFiniteSet(Targeted(f)) /\ Cardinality(Targeted(f)) <= Cardinality(FlowRequests)
    BY DEF TargetsBounded
  <2>2. Linked(f) \in SUBSET Targeted(f)
    BY DEF Targeted
  <2>3. IsFiniteSet(Linked(f)) /\ Cardinality(Linked(f)) <= Cardinality(Targeted(f))
    BY <2>1, <2>2, FS_Subset
  <2>4. /\ Cardinality(Linked(f)) \in Nat /\ Cardinality(Targeted(f)) \in Nat
        /\ Cardinality(FlowRequests) \in Nat
    BY <2>1, <2>3, FS_CardinalityType
  <2> QED
    BY <2>1, <2>3, <2>4
<1> QED
  BY <1>1, LifeInitial, LifeStep, PTL DEF LifeSpec

-----------------------------------------------------------------------------
(* Requests on a flow that no other request meets                          *)

\* No other request works on the flow of a request that is alone, or, if that is an edit, on
\* one of its devices.
AloneApart ==
    \A r, p \in FlowRequests : r # p /\ Busy(r) /\ Busy(p) /\ req[r].alone =>
        /\ req[p].flow # req[r].flow
        /\ req[r].op = "update" /\ req[p].device \in Devices => link[req[p].device] # req[r].flow

\* What a link, an edit and a deletion know of their flow as long as they are alone.
LinkFacts(q) ==
    /\ q.device \in Devices
    /\ q.at \in {"set", "rebuild", "rebuilt", "publish"} =>
         \A e \in Devices : link[e] = q.flow => e = q.device
    /\ q.at = "rebuilt" => q.rev = flow[q.flow]
    /\ q.at = "publish" => ui[q.flow] = flow[q.flow]

EditFacts(q) ==
    /\ q.at # "device" => q.device \in ActiveDevice(q.flow)
    /\ q.at \in {"ui", "logic", "save", "publish"} => setup[q.flow] = q.rev
    /\ q.at \in {"logic", "save", "publish"} => ui[q.flow] = q.rev
    /\ q.at \in {"save", "publish"} => logic[q.flow] = q.rev
    /\ q.at = "publish" => flow[q.flow] = q.rev

DeleteFacts(q) ==
    /\ q.at \in {"unset", "publish", "remove"} => flow[q.flow] # 0
    /\ q.at \in {"publish", "remove", "removeSetup", "removeLogic"} /\ q.device \in Devices =>
         link[q.device] # q.flow
    /\ q.at \in {"removeSetup", "removeLogic"} => flow[q.flow] = 0
    /\ q.at = "removeLogic" => setup[q.flow] = 0

FactsOf(q) ==
    /\ q.op = "link" => LinkFacts(q)
    /\ q.op = "update" => EditFacts(q)
    /\ q.op = "delete" => DeleteFacts(q)

AloneFacts == \A r \in FlowRequests : Busy(r) /\ req[r].alone => FactsOf(req[r])

\* What a step leaves of a flow: its documents; at most its devices; exactly its devices.
Kept(f) == flow'[f] = flow[f] /\ setup'[f] = setup[f] /\ ui'[f] = ui[f] /\ logic'[f] = logic[f]
Fewer(f) == \A d \in Devices : link'[d] = f => link[d] = f
SameLinks(f) == \A d \in Devices : (link'[d] = f) <=> (link[d] = f)

\* A request that does not move keeps what it knows, if its flow is kept.
LEMMA FactsKept ==
    ASSUME NEW p \in FlowRequests, Similar(req'[p], req[p]), FactsOf(req[p]),
           Kept(req[p].flow), Fewer(req[p].flow),
           req[p].op = "update" => SameLinks(req[p].flow)
    PROVE  FactsOf(req[p])'
<1>1. PICK q : q = req[p]
  OBVIOUS
<1>2. PICK n : n = req'[p]
  OBVIOUS
<1>3. /\ n.op = q.op /\ n.at = q.at /\ n.flow = q.flow /\ n.device = q.device /\ n.rev = q.rev
      /\ FactsOf(q) /\ Kept(q.flow) /\ Fewer(q.flow) /\ (q.op = "update" => SameLinks(q.flow))
  BY <1>1, <1>2, Zenon DEF Similar
<1>4. q.op = "link" => LinkFacts(n)'
  BY <1>3 DEF FactsOf, LinkFacts, Kept, Fewer
<1>5. q.op = "update" => EditFacts(n)'
  BY <1>3 DEF FactsOf, EditFacts, Kept, SameLinks, ActiveDevice, Linked
<1>6. q.op = "delete" => DeleteFacts(n)'
  BY <1>3 DEF FactsOf, DeleteFacts, Kept, Fewer
<1>7. FactsOf(n)'
  BY <1>3, <1>4, <1>5, <1>6 DEF FactsOf
<1> QED
  BY <1>2, <1>7 DEF FactsOf, LinkFacts, EditFacts, DeleteFacts

-----------------------------------------------------------------------------
(* What a step of a request does to the others, and to what it works on     *)

LEMMA AtChanged ==
    ASSUME NEW q \in LifeRequests, NEW at
    PROVE  /\ [q EXCEPT !.at = at].at = at
           /\ [q EXCEPT !.at = at].op = q.op /\ [q EXCEPT !.at = at].flow = q.flow
           /\ [q EXCEPT !.at = at].device = q.device /\ [q EXCEPT !.at = at].rev = q.rev
           /\ [q EXCEPT !.at = at].alone = q.alone
BY Zenon DEF LifeRequests

\* A request that goes to another stage is otherwise the same.
LEMMA Moved ==
    ASSUME ReqOK, NEW r \in FlowRequests, NEW at, GoTo(r, at)
    PROVE  /\ \A p \in FlowRequests \ {r} : req'[p] = req[p]
           /\ req'[r].at = at /\ req'[r].op = req[r].op /\ req'[r].flow = req[r].flow
           /\ req'[r].device = req[r].device /\ req'[r].rev = req[r].rev
           /\ req'[r].alone = req[r].alone
<1>1. req'[r] = [req[r] EXCEPT !.at = at] /\ \A p \in FlowRequests \ {r} : req'[p] = req[p]
  BY DEF ReqOK, GoTo
<1>2. PICK q : q \in LifeRequests /\ q = req[r]
  BY DEF ReqOK
<1>3. PICK n : n = req'[r] /\ n = [q EXCEPT !.at = at]
  BY <1>1, <1>2
<1>4. LET m == [q EXCEPT !.at = at] IN
      /\ m.at = at /\ m.op = q.op /\ m.flow = q.flow /\ m.device = q.device /\ m.rev = q.rev
      /\ m.alone = q.alone
  BY <1>2, AtChanged
<1>5. /\ n.at = at /\ n.op = q.op /\ n.flow = q.flow /\ n.device = q.device /\ n.rev = q.rev
      /\ n.alone = q.alone
  BY <1>3, <1>4
<1> QED
  BY <1>1, <1>2, <1>3, <1>5, Zenon

LEMMA Finished ==
    ASSUME ReqOK, NEW r \in FlowRequests, Finish(r)
    PROVE  /\ \A p \in FlowRequests \ {r} : req'[p] = req[p]
           /\ req'[r].at = "idle"
<1>1. req'[r] = Idle /\ \A p \in FlowRequests \ {r} : req'[p] = req[p]
  BY DEF ReqOK, Finish
<1> QED
  BY <1>1, IdleRequest

\* A request that goes on has its operation and its flow, and its device or one of the flow's.
GoesOn(r) ==
    /\ req'[r].op = req[r].op /\ req'[r].flow = req[r].flow /\ req'[r].alone = req[r].alone
    /\ \/ req'[r].device = req[r].device
       \/ req'[r].device \in ActiveDevice(req[r].flow) /\ link' = link

\* It leaves the other flows their documents and, unless it works on one of them, their
\* devices.
Elsewhere(r) ==
    \A f \in Flows \ {req[r].flow} :
        /\ Kept(f) /\ Fewer(f)
        /\ (req[r].device \in Devices => link[req[r].device] # f) => SameLinks(f)

Works(r) ==
    /\ Busy(r)
    /\ \A p \in FlowRequests \ {r} : req'[p] = req[p]
    /\ Busy(r)' => GoesOn(r)
    /\ Elsewhere(r)
    /\ req[r].op = "update" => link' = link

LEMMA MovesOn ==
    ASSUME LifeTypeOK, NEW r \in FlowRequests, Finish(r) \/ \E at : GoTo(r, at)
    PROVE  /\ \A p \in FlowRequests \ {r} : req'[p] = req[p]
           /\ Busy(r)' => GoesOn(r)
<1>1. CASE Finish(r)
  BY <1>1, ReqOfType, Finished DEF Busy
<1>2. ASSUME NEW at, GoTo(r, at)
      PROVE  (\A p \in FlowRequests \ {r} : req'[p] = req[p]) /\ GoesOn(r)
  BY <1>2, ReqOfType, Moved, Zenon DEF GoesOn
<1> QED
  BY <1>1, <1>2

LEMMA DocsElsewhere ==
    ASSUME LifeTypeOK, NEW r \in FlowRequests, link' = link,
           \A f \in Flows \ {req[r].flow} : Kept(f)
    PROVE  Elsewhere(r)
BY DEF Elsewhere, Fewer, SameLinks

LEMMA EditWorks ==
    ASSUME LifeTypeOK, NEW r \in FlowRequests,
           WriteSetup(r) \/ WriteUi(r) \/ WriteLogic(r) \/ SaveFlow(r)
    PROVE  Works(r)
<1>1. /\ Busy(r) /\ link' = link /\ (Finish(r) \/ \E at : GoTo(r, at))
  BY DEF WriteSetup, WriteUi, WriteLogic, SaveFlow, At, Busy, docVars
<1>2. \A f \in Flows \ {req[r].flow} : Kept(f)
  BY TypeParts DEF WriteSetup, WriteUi, WriteLogic, SaveFlow, Kept, DocsOK, docVars
<1> QED
  BY <1>1, <1>2, MovesOn, DocsElsewhere DEF Works

LEMMA ReadWorks ==
    ASSUME LifeTypeOK, NEW r \in FlowRequests, ReadDevice(r)
    PROVE  /\ Works(r) /\ req'[r].device \in ActiveDevice(req[r].flow)
           /\ req'[r].at \in {"setup", "save"} /\ (req[r].op = "update" => req'[r].at = "setup")
<1>1. PICK d, at : /\ d \in ActiveDevice(req[r].flow)
                   /\ req' = [req EXCEPT ![r].device = d, ![r].at = at]
                   /\ at \in {"setup", "save"} /\ (req[r].op = "update" => at = "setup")
  BY DEF ReadDevice
<1>2. /\ req'[r] = [req[r] EXCEPT !.device = d, !.at = at]
      /\ \A p \in FlowRequests \ {r} : req'[p] = req[p]
  BY <1>1, ReqOfType DEF ReqOK
<1>3. PICK q \in LifeRequests : q = req[r]
  BY ReqOfType DEF ReqOK
<1>4. PICK n : n = req'[r] /\ n = [q EXCEPT !.device = d, !.at = at]
  BY <1>2, <1>3
<1>5. /\ n.at = at /\ n.device = d /\ n.op = q.op /\ n.flow = q.flow
  BY <1>3, <1>4 DEF LifeRequests
<1>6. n.alone = q.alone
  BY <1>3, <1>4, Zenon DEF LifeRequests
<1>7. /\ Busy(r) /\ link' = link /\ \A f \in Flows \ {req[r].flow} : Kept(f)
  BY DEF ReadDevice, At, Busy, Kept, docVars
<1>8. GoesOn(r)
  BY <1>1, <1>3, <1>4, <1>5, <1>6, <1>7, Zenon DEF GoesOn
<1> QED
  BY <1>1, <1>2, <1>4, <1>5, <1>7, <1>8, DocsElsewhere DEF Works

LEMMA ReadForUiWorks ==
    ASSUME LifeTypeOK, NEW r \in FlowRequests, ReadForUi(r)
    PROVE  /\ Works(r)
           /\ Busy(r)' => /\ req'[r].at = "rebuilt" /\ req'[r].rev = flow[req[r].flow]
                          /\ req'[r].device = req[r].device
<1>1. /\ Busy(r) /\ link' = link /\ \A f \in Flows \ {req[r].flow} : Kept(f)
      /\ req[r].op # "update"
  BY DEF ReadForUi, At, Busy, Kept, docVars
<1>2. CASE Finish(r)
  BY <1>1, <1>2, ReqOfType, Finished, DocsElsewhere DEF Works, Busy
<1>3. CASE req' = [req EXCEPT ![r].rev = flow[req[r].flow], ![r].at = "rebuilt"]
  <2>1. PICK v : v = flow[req[r].flow]
    OBVIOUS
  <2>2. /\ req'[r] = [req[r] EXCEPT !.rev = v, !.at = "rebuilt"]
        /\ \A p \in FlowRequests \ {r} : req'[p] = req[p]
    BY <1>3, <2>1, ReqOfType DEF ReqOK
  <2>3. PICK q \in LifeRequests : q = req[r]
    BY ReqOfType DEF ReqOK
  <2>4. PICK n : n = req'[r] /\ n = [q EXCEPT !.rev = v, !.at = "rebuilt"]
    BY <2>2, <2>3
  <2>5. n.at = "rebuilt" /\ n.rev = v /\ n.op = q.op /\ n.flow = q.flow /\ n.device = q.device
    BY <2>3, <2>4 DEF LifeRequests
  <2>6. n.alone = q.alone
    BY <2>3, <2>4, Zenon DEF LifeRequests
  <2>7. GoesOn(r)
    BY <2>3, <2>4, <2>5, <2>6, Zenon DEF GoesOn
  <2> QED
    BY <1>1, <2>1, <2>2, <2>3, <2>4, <2>5, <2>7, DocsElsewhere DEF Works
<1> QED
  BY <1>2, <1>3 DEF ReadForUi

LEMMA OtherWorks ==
    ASSUME LifeTypeOK, NEW r \in FlowRequests,
           \/ RebuildUi(r) \/ Publish(r) \/ RemoveFlow(r) \/ RemoveSetup(r) \/ RemoveLogic(r)
           \/ SaveSkip(r) \/ EvictSkipped(r) \/ Fail(r)
    PROVE  Works(r)
<1>1. /\ Busy(r) /\ link' = link /\ (Finish(r) \/ \E at : GoTo(r, at))
  BY DEF RebuildUi, Publish, RemoveFlow, RemoveSetup, RemoveLogic, SaveSkip, EvictSkipped, At,
         Fail, Busy, docVars
<1>2. \A f \in Flows \ {req[r].flow} : Kept(f)
  BY TypeParts DEF RebuildUi, Publish, RemoveFlow, RemoveSetup, RemoveLogic, SaveSkip,
     EvictSkipped, Fail, Kept, DocsOK, docVars
<1> QED
  BY <1>1, <1>2, MovesOn, DocsElsewhere DEF Works

LEMMA LinkWorks ==
    ASSUME LifeTypeOK, NEW r \in FlowRequests, UnlinkOthers(r) \/ SetLink(r) \/ Unset(r)
    PROVE  Works(r)
<1>1. /\ Busy(r) /\ req[r].op # "update" /\ (Finish(r) \/ \E at : GoTo(r, at))
  BY DEF UnlinkOthers, SetLink, Unset, At, Busy
<1>2. \A f \in Flows : Kept(f)
  BY DEF UnlinkOthers, SetLink, Unset, Kept, docVars
<1>3. PICK d, g : d = req[r].device /\ g = req[r].flow
  OBVIOUS
<1>4. \/ link' = [e \in Devices |-> IF link[e] = g /\ e # d THEN NoFlow ELSE link[e]]
      \/ link' = [link EXCEPT ![d] = g]
      \/ link' = [link EXCEPT ![d] = NoFlow]
      \/ link' = link
  BY <1>3 DEF UnlinkOthers, SetLink, Unset
<1>5. \A f \in Flows \ {g} : Fewer(f) /\ ((d \in Devices => link[d] # f) => SameLinks(f))
  <2> SUFFICES ASSUME NEW f \in Flows \ {g}
               PROVE  Fewer(f) /\ ((d \in Devices => link[d] # f) => SameLinks(f))
    OBVIOUS
  <2>1. \A e \in Devices : \/ link'[e] = link[e]
                           \/ link'[e] = NoFlow /\ (e = d \/ link[e] = g)
                           \/ link'[e] = g /\ e = d
    BY <1>4, TypeParts DEF DocsOK
  <2> QED
    BY <2>1 DEF Fewer, SameLinks
<1> QED
  BY <1>1, <1>2, <1>3, <1>5, MovesOn DEF Works, Elsewhere

LEMMA RequestWorks == ASSUME LifeTypeOK, NEW r \in FlowRequests, RequestStep(r) PROVE Works(r)
BY EditWorks, ReadWorks, ReadForUiWorks, OtherWorks, LinkWorks DEF RequestStep

-----------------------------------------------------------------------------
(* What a request learns from its own steps                                  *)

LEMMA FactsOfNext ==
    ASSUME NEW r \in FlowRequests, NEW n, n = req'[r], FactsOf(n)'
    PROVE  FactsOf(req[r])'
BY DEF FactsOf, LinkFacts, EditFacts, DeleteFacts

LEMMA FactsOfIdle ==
    ASSUME LifeTypeOK, NEW r \in FlowRequests, Finish(r)
    PROVE  FactsOf(req[r])'
<1>1. req'[r] = Idle
  BY ReqOfType DEF ReqOK, Finish
<1> QED
  BY <1>1, IdleRequest DEF FactsOf

LEMMA ReadLearns ==
    ASSUME LifeTypeOK, NEW r \in FlowRequests, ReadDevice(r)
    PROVE  FactsOf(req[r])'
<1>1. PICK q, n : q = req[r] /\ n = req'[r]
  OBVIOUS
<1>2. /\ q.op \in {"update", "rename"} /\ link' = link
      /\ n.op = q.op /\ n.flow = q.flow
      /\ n.device \in ActiveDevice(q.flow) /\ (q.op = "update" => n.at = "setup")
  BY <1>1, ReadWorks DEF ReadDevice, At, Works, GoesOn, Busy, docVars
<1>3. FactsOf(n)'
  BY <1>1, <1>2 DEF FactsOf, EditFacts, ActiveDevice, Linked
<1> QED
  BY <1>1, <1>3, FactsOfNext

LEMMA EditLearns ==
    ASSUME LifeTypeOK, NEW r \in FlowRequests, FactsOf(req[r]),
           WriteSetup(r) \/ WriteUi(r) \/ WriteLogic(r) \/ SaveFlow(r)
    PROVE  FactsOf(req[r])'
<1>1. PICK q, n, f : q = req[r] /\ n = req'[r] /\ f = q.flow
  OBVIOUS
<1>2. /\ link' = link /\ q.op \in {"create", "update", "rename"} /\ f \in Flows
  BY <1>1, UnderWay DEF WriteSetup, WriteUi, WriteLogic, SaveFlow, At, docVars
<1>3. CASE ~Finish(r)
  <2>1. PICK at : /\ GoTo(r, at)
                  /\ q.op = "update" =>
                       \/ q.at = "setup" /\ at = "ui" /\ setup' = [setup EXCEPT ![f] = q.rev]
                       \/ /\ q.at = "ui" /\ at = "logic" /\ ui' = [ui EXCEPT ![f] = q.rev]
                          /\ setup' = setup
                       \/ /\ q.at = "logic" /\ at = "save" /\ logic' = [logic EXCEPT ![f] = q.rev]
                          /\ setup' = setup /\ ui' = ui
                       \/ /\ q.at = "save" /\ at = "publish" /\ flow' = [flow EXCEPT ![f] = q.rev]
                          /\ setup' = setup /\ ui' = ui /\ logic' = logic
    BY <1>1, <1>3 DEF WriteSetup, WriteUi, WriteLogic, SaveFlow, At, After
  <2>2. n.at = at /\ n.op = q.op /\ n.flow = f /\ n.device = q.device /\ n.rev = q.rev
    BY <1>1, <2>1, ReqOfType, Moved
  <2>3. q.op = "update" => EditFacts(n)'
    BY <1>1, <1>2, <2>1, <2>2, TypeParts DEF FactsOf, EditFacts, DocsOK, ActiveDevice, Linked
  <2>4. FactsOf(n)'
    BY <1>2, <2>2, <2>3 DEF FactsOf
  <2> QED
    BY <1>1, <2>4, FactsOfNext
<1> QED
  BY <1>3, FactsOfIdle

LEMMA LinkLearns ==
    ASSUME LifeTypeOK, NEW r \in FlowRequests, FactsOf(req[r]),
           UnlinkOthers(r) \/ SetLink(r) \/ ReadForUi(r) \/ RebuildUi(r)
    PROVE  FactsOf(req[r])'
<1>1. PICK q, n, f, d : q = req[r] /\ n = req'[r] /\ f = q.flow /\ d = q.device
  OBVIOUS
<1>2. q.op = "link" /\ LinkFacts(q) /\ f \in Flows /\ d \in Devices
  BY <1>1, UnderWay DEF UnlinkOthers, SetLink, ReadForUi, RebuildUi, At, FactsOf, LinkFacts
<1>3. CASE UnlinkOthers(r) \/ SetLink(r) \/ RebuildUi(r)
  <2>1. PICK at :
          /\ GoTo(r, at)
          /\ \/ /\ at = "set" /\ q.at = "others"
                /\ link' = [e \in Devices |-> IF link[e] = f /\ e # d THEN NoFlow ELSE link[e]]
             \/ at = "rebuild" /\ q.at = "set" /\ link' = [link EXCEPT ![d] = f]
             \/ /\ at = "publish" /\ q.at = "rebuilt" /\ link' = link /\ flow' = flow
                /\ ui' = [ui EXCEPT ![f] = q.rev]
    BY <1>1, <1>3 DEF UnlinkOthers, SetLink, RebuildUi, At
  <2>2. n.at = at /\ n.op = q.op /\ n.flow = f /\ n.device = d /\ n.rev = q.rev
    BY <1>1, <2>1, ReqOfType, Moved
  <2>3. LinkFacts(n)'
    BY <1>1, <1>2, <2>1, <2>2, TypeParts DEF LinkFacts, DocsOK
  <2>4. FactsOf(n)'
    BY <1>2, <2>2, <2>3 DEF FactsOf
  <2> QED
    BY <1>1, <2>4, FactsOfNext
<1>4. CASE ReadForUi(r) /\ ~Finish(r)
  <2>1. Busy(r)'
    BY <1>4, ReqOfType DEF ReadForUi, ReqOK, Busy, LifeRequests
  <2>2. n.at = "rebuilt" /\ n.op = q.op /\ n.flow = f /\ n.device = d /\ n.rev = flow[f]
    BY <1>1, <1>4, <2>1, ReadForUiWorks DEF Works, GoesOn
  <2>3. q.at = "rebuild" /\ flow' = flow /\ link' = link
    BY <1>1, <1>4 DEF ReadForUi, At, docVars
  <2>4. FactsOf(n)'
    BY <1>1, <1>2, <2>2, <2>3 DEF FactsOf, LinkFacts
  <2> QED
    BY <1>1, <2>4, FactsOfNext
<1> QED
  BY <1>3, <1>4, FactsOfIdle

LEMMA DeleteLearns ==
    ASSUME LifeTypeOK, NEW r \in FlowRequests, FactsOf(req[r]),
           Unset(r) \/ Publish(r) \/ RemoveFlow(r) \/ RemoveSetup(r) \/ RemoveLogic(r)
    PROVE  FactsOf(req[r])'
<1>1. PICK q, n, f, d : q = req[r] /\ n = req'[r] /\ f = q.flow /\ d = q.device
  OBVIOUS
<1>2. f \in Flows /\ 0 \in Revisions
  BY <1>1, UnderWay
     DEF Unset, Publish, RemoveFlow, RemoveSetup, RemoveLogic, At, Revisions
<1>3. CASE ~Finish(r)
  <2>1. PICK at :
          /\ GoTo(r, at)
          /\ \/ q.op = "unlink"
             \/ /\ q.op = "delete"
                /\ \/ /\ q.at = "unset" /\ (at = "publish" \/ at = "remove") /\ flow' = flow
                      /\ \/ link' = [link EXCEPT ![d] = NoFlow]
                         \/ link' = link /\ (d \in Devices => link[d] \notin Flows)
                   \/ q.at = "publish" /\ at = "remove" /\ link' = link /\ flow' = flow
                   \/ /\ q.at = "remove" /\ at = "removeSetup" /\ link' = link
                      /\ flow' = [flow EXCEPT ![f] = 0]
                   \/ /\ q.at = "removeSetup" /\ at = "removeLogic" /\ link' = link
                      /\ flow' = flow /\ setup' = [setup EXCEPT ![f] = 0]
    <3>1. CASE Unset(r)
      <4>1. /\ q.op \in {"unlink", "delete"} /\ q.at = "unset" /\ flow' = flow
            /\ \/ GoTo(r, "publish") /\ link' = [link EXCEPT ![d] = NoFlow]
               \/ /\ q.op = "delete" /\ GoTo(r, "remove") /\ link' = link
                  /\ d \in Devices => link[d] \notin Flows
        BY <1>1, <1>3, <3>1 DEF Unset, At, docVars
      <4> QED
        BY <4>1
    <3>2. CASE Publish(r)
      BY <1>1, <1>3, <3>2 DEF Publish, At, docVars
    <3>3. CASE RemoveFlow(r) \/ RemoveSetup(r) \/ RemoveLogic(r)
      BY <1>1, <1>3, <3>3 DEF RemoveFlow, RemoveSetup, RemoveLogic, At
    <3> QED
      BY <3>1, <3>2, <3>3
  <2>2. n.at = at /\ n.op = q.op /\ n.flow = f /\ n.device = d
    BY <1>1, <2>1, ReqOfType, Moved
  <2>3. q.op = "delete" => DeleteFacts(n)'
    BY <1>1, <1>2, <2>1, <2>2, TypeParts DEF FactsOf, DeleteFacts, DocsOK
  <2>4. FactsOf(n)'
    BY <2>1, <2>2, <2>3 DEF FactsOf
  <2> QED
    BY <1>1, <2>4, FactsOfNext
<1> QED
  BY <1>3, FactsOfIdle

LEMMA RequestLearns ==
    ASSUME LifeTypeOK, NEW r \in FlowRequests, FactsOf(req[r]), RequestStep(r)
    PROVE  FactsOf(req[r])'
<1>1. CASE SaveSkip(r) \/ EvictSkipped(r)
  <2>1. req[r].op = "skip" /\ (Finish(r) \/ GoTo(r, "evict"))
    BY <1>1 DEF SaveSkip, EvictSkipped, At
  <2>2. GoTo(r, "evict") => req'[r].op = "skip"
    BY <2>1, ReqOfType, Moved
  <2> QED
    BY <2>1, <2>2, FactsOfIdle DEF FactsOf
<1>2. CASE Fail(r)
  BY <1>2, FactsOfIdle DEF Fail
<1> QED
  BY <1>1, <1>2, ReadLearns, EditLearns, LinkLearns, DeleteLearns DEF RequestStep

-----------------------------------------------------------------------------
(* Requests that are alone                                                   *)

LEMMA RequestsStayApart ==
    ASSUME LifeTypeOK, AloneApart, NEW r \in FlowRequests, Works(r)
    PROVE  AloneApart'
<1> SUFFICES ASSUME NEW a \in FlowRequests, NEW b \in FlowRequests, a # b, Busy(a)', Busy(b)',
                    req'[a].alone
             PROVE  /\ req'[b].flow # req'[a].flow
                    /\ req'[a].op = "update" /\ req'[b].device \in Devices =>
                         link'[req'[b].device] # req'[a].flow
  BY DEF AloneApart
<1>1. Busy(r) /\ Elsewhere(r) /\ \A p \in FlowRequests \ {r} : req'[p] = req[p]
  BY DEF Works
<1>2. CASE a = r
  <2>1. GoesOn(r) /\ (req[r].op = "update" => link' = link)
    BY <1>2 DEF Works
  <2>2. req[a].alone /\ req'[a].flow = req[a].flow /\ req'[a].op = req[a].op
    BY <1>2, <2>1, Zenon DEF GoesOn
  <2>3. req'[b] = req[b] /\ Busy(b) /\ Busy(a)
    BY <1>1, <1>2 DEF Busy
  <2> QED
    BY <1>2, <2>1, <2>2, <2>3 DEF AloneApart
<1>3. CASE a # r
  <2>1. req'[a] = req[a] /\ Busy(a) /\ req[a].alone /\ req[a].flow \in Flows
    BY <1>1, <1>3, UnderWay, Zenon DEF Busy
  <2>2. req[a].flow # req[r].flow
    BY <1>1, <1>3, <2>1 DEF AloneApart
  <2>3. Fewer(req[a].flow)
    BY <1>1, <2>1, <2>2 DEF Elsewhere
  <2>4. CASE b # r
    <3>1. req'[b] = req[b] /\ Busy(b)
      BY <1>1, <2>4 DEF Busy
    <3> QED
      BY <2>1, <2>3, <3>1 DEF AloneApart, Fewer
  <2>5. CASE b = r
    <3>1. /\ req'[b].flow = req[r].flow
          /\ \/ req'[b].device = req[r].device
             \/ req'[b].device \in ActiveDevice(req[r].flow) /\ link' = link
      BY <2>5 DEF Works, GoesOn
    <3>2. \A d \in Devices : d \in ActiveDevice(req[r].flow) => link[d] = req[r].flow
      BY DEF ActiveDevice, Linked
    <3> QED
      BY <1>1, <1>3, <2>1, <2>2, <2>3, <2>5, <3>1, <3>2 DEF AloneApart, Fewer
  <2> QED
    BY <2>4, <2>5
<1> QED
  BY <1>2, <1>3

LEMMA RequestKeepsFacts ==
    ASSUME LifeTypeOK, AloneApart, AloneFacts, NEW r \in FlowRequests, RequestStep(r)
    PROVE  AloneApart' /\ AloneFacts'
<1>1. Works(r)
  BY RequestWorks
<1>2. ASSUME NEW a \in FlowRequests, Busy(a)', req'[a].alone PROVE FactsOf(req[a])'
  <2>1. CASE a = r
    <3>1. req[r].alone /\ Busy(r)
      BY <1>1, <1>2, <2>1, Zenon DEF Works, GoesOn
    <3>2. FactsOf(req[r])
      BY <3>1 DEF AloneFacts
    <3> QED
      BY <2>1, <3>2, RequestLearns
  <2>2. CASE a # r
    <3>1. req'[a] = req[a] /\ Busy(a) /\ req[a].alone /\ req[a].flow \in Flows /\ Busy(r)
      BY <1>1, <1>2, <2>2, UnderWay, Zenon DEF Busy, Works
    <3>2. /\ req[r].flow # req[a].flow /\ FactsOf(req[a])
          /\ req[a].op = "update" /\ req[r].device \in Devices => link[req[r].device] # req[a].flow
      BY <2>2, <3>1 DEF AloneApart, AloneFacts
    <3>3. /\ Kept(req[a].flow) /\ Fewer(req[a].flow)
          /\ req[a].op = "update" => SameLinks(req[a].flow)
      BY <1>1, <3>1, <3>2 DEF Works, Elsewhere
    <3>4. Similar(req'[a], req[a])
      BY <3>1 DEF Similar
    <3> QED
      BY <3>2, <3>3, <3>4, FactsKept
  <2> QED
    BY <2>1, <2>2
<1> QED
  BY <1>1, <1>2, RequestsStayApart DEF AloneFacts

\* A request starts: it knows nothing yet but that its flow, if it will be deleted, exists.
LEMMA StartKeepsFacts ==
    ASSUME LifeTypeOK, AloneApart, AloneFacts, NEW r \in FlowRequests, NEW q \in LifeRequests,
           q.flow \in Flows, Start(r, q), link' = link,
           \A p \in FlowRequests : Busy(p) => Kept(req[p].flow),
           q.op = "link" => q.at = "others" /\ q.device \in Devices,
           q.op = "update" => q.at = "device",
           q.op = "delete" => q.at = "unset" /\ flow'[q.flow] # 0
    PROVE  AloneApart' /\ AloneFacts'
<1>1. /\ ReqOK' /\ Others(r) /\ req'[r].op = q.op /\ req'[r].at = q.at
      /\ req'[r].flow = q.flow /\ req'[r].device = q.device
      /\ \A p \in FlowRequests \ {r} :
           Busy(p) /\ (req'[p].alone \/ req'[r].alone) =>
               Touches(q) \cap Touches(req[p]) \cap Flows = {}
  BY ReqOfType, Starting
<1>2. ASSUME NEW p \in FlowRequests \ {r}
      PROVE  /\ Similar(req'[p], req[p]) /\ (Busy(p)' <=> Busy(p))
             /\ req'[p].flow = req[p].flow /\ req'[p].op = req[p].op
             /\ req'[p].device = req[p].device /\ (req'[p].alone => req[p].alone)
  BY <1>1, <1>2, Zenon DEF Others, Similar, Busy
<1>3. ASSUME NEW p \in FlowRequests \ {r}, Busy(p), req'[p].alone \/ req'[r].alone
      PROVE  /\ q.flow # req[p].flow
             /\ q.device \in Devices => link[q.device] # req[p].flow
             /\ req[p].device \in Devices => link[req[p].device] # q.flow
  <2>1. Touches(q) \cap Touches(req[p]) \cap Flows = {} /\ req[p].flow \in Flows
    BY <1>1, <1>3, UnderWay DEF Busy
  <2> QED
    BY <2>1 DEF Touches
<1>4. AloneApart'
  <2> SUFFICES ASSUME NEW a \in FlowRequests, NEW b \in FlowRequests, a # b, Busy(a)', Busy(b)',
                      req'[a].alone
               PROVE  /\ req'[b].flow # req'[a].flow
                      /\ req'[a].op = "update" /\ req'[b].device \in Devices =>
                           link[req'[b].device] # req'[a].flow
    BY DEF AloneApart
  <2>1. CASE a = r
    BY <1>1, <1>2, <1>3, <2>1
  <2>2. CASE b = r
    BY <1>1, <1>2, <1>3, <2>2
  <2>3. CASE a # r /\ b # r
    BY <1>2, <2>3 DEF AloneApart
  <2> QED
    BY <2>1, <2>2, <2>3
<1>5. ASSUME NEW a \in FlowRequests, Busy(a)', req'[a].alone PROVE FactsOf(req[a])'
  <2>1. CASE a = r
    <3>1. PICK n : n = req'[r]
      OBVIOUS
    <3>2. FactsOf(n)'
      BY <1>1, <3>1 DEF FactsOf, LinkFacts, EditFacts, DeleteFacts
    <3> QED
      BY <2>1, <3>1, <3>2, FactsOfNext
  <2>2. CASE a # r
    <3>1. Busy(a) /\ req[a].alone /\ Similar(req'[a], req[a])
      BY <1>2, <1>5, <2>2, Zenon
    <3>2. FactsOf(req[a]) /\ Kept(req[a].flow) /\ Fewer(req[a].flow) /\ SameLinks(req[a].flow)
      BY <3>1 DEF AloneFacts, Fewer, SameLinks
    <3> QED
      BY <3>1, <3>2, FactsKept
  <2> QED
    BY <2>1, <2>2
<1> QED
  BY <1>4, <1>5 DEF AloneFacts

\* A step of a message, or none, leaves requests, documents and links alone.
LEMMA MessageKeepsFacts ==
    ASSUME AloneApart, AloneFacts, UNCHANGED lifeVars \/ MessageMoves
    PROVE  AloneApart' /\ AloneFacts'
<1>1. UNCHANGED <<docVars, link, req>>
  BY DEF lifeVars, MessageMoves, Reconnect, Expire, LookUp, Store, Receive
<1>2. AloneApart'
  BY <1>1 DEF AloneApart, Busy
<1>3. ASSUME NEW r \in FlowRequests, FactsOf(req[r]) PROVE FactsOf(req[r])'
  BY <1>1, <1>3 DEF FactsOf, LinkFacts, EditFacts, DeleteFacts, ActiveDevice, Linked, docVars
<1> QED
  BY <1>1, <1>2, <1>3 DEF AloneFacts, Busy

LEMMA CreateKeepsFacts ==
    ASSUME LifeTypeOK, AloneApart, AloneFacts, NEW r \in FlowRequests, NEW f \in Flows,
           CreateFlow(r, f)
    PROVE  AloneApart' /\ AloneFacts'
<1> DEFINE q == [Idle EXCEPT !.op = "create", !.at = "setup", !.flow = f, !.rev = revisions']
<1>1. revisions' \in Revisions
  BY DEF CreateFlow, LifeTypeOK, Revisions
<1>2. q \in LifeRequests /\ q.flow = f /\ q.op = "create"
  BY <1>1, IdleRequest DEF LifeRequests
<1>3. Start(r, q) /\ link' = link
  BY DEF CreateFlow
<1>4. \A p \in FlowRequests : Busy(p) => Kept(req[p].flow)
  BY UnderWay, TypeParts DEF CreateFlow, Kept, DocsOK, Busy
<1> HIDE DEF q
<1> QED
  BY <1>2, <1>3, <1>4, StartKeepsFacts

LEMMA UpdateKeepsFacts ==
    ASSUME LifeTypeOK, AloneApart, AloneFacts, NEW r \in FlowRequests, NEW f \in Flows,
           NEW content \in BOOLEAN, UpdateFlow(r, f, content)
    PROVE  AloneApart' /\ AloneFacts'
<1>1. PICK op, n : /\ op = (IF content THEN "update" ELSE "rename")
                   /\ n = IF content THEN revisions' ELSE 0
  OBVIOUS
<1> DEFINE q == [Idle EXCEPT !.op = op, !.at = "device", !.flow = f, !.rev = n, !.seen = flow[f]]
<1>2. revisions' \in Revisions /\ 0 \in Revisions /\ flow[f] \in Revisions
  BY DEF UpdateFlow, LifeTypeOK, Revisions
<1>3. op \in {"update", "rename"} /\ n \in Revisions
  BY <1>1, <1>2
<1>4. q \in LifeRequests /\ q.flow = f /\ q.op = op /\ q.at = "device"
  BY <1>2, <1>3, IdleRequest DEF LifeRequests
<1>5. Start(r, q) /\ link' = link /\ \A p \in FlowRequests : Kept(req[p].flow)
  BY <1>1 DEF UpdateFlow, Kept, docVars
<1> HIDE DEF q
<1> QED
  BY <1>3, <1>4, <1>5, StartKeepsFacts

LEMMA LinksKeepFacts ==
    ASSUME LifeTypeOK, AloneApart, AloneFacts, NEW r \in FlowRequests,
           \/ \E d \in Devices, f \in Flows : LinkDevice(r, d, f)
           \/ \E d \in Devices : UnlinkDevice(r, d)
           \/ \E f \in Flows : DeleteFlow(r, f)
    PROVE  AloneApart' /\ AloneFacts'
<1>1. PICK op, at, f, d :
        /\ Start(r, [Idle EXCEPT !.op = op, !.at = at, !.flow = f, !.device = d])
        /\ f \in Flows /\ d \in Devices \cup {"none"}
        /\ \/ op = "link" /\ at = "others" /\ d \in Devices
           \/ op = "unlink" /\ at = "unset"
           \/ op = "delete" /\ at = "unset" /\ flow[f] # 0
  <2>1. ASSUME NEW d \in Devices, NEW f \in Flows, LinkDevice(r, d, f)
        PROVE  Start(r, [Idle EXCEPT !.op = "link", !.at = "others", !.flow = f, !.device = d])
    BY <2>1 DEF LinkDevice
  <2>2. ASSUME NEW d \in Devices, UnlinkDevice(r, d)
        PROVE  \E f \in Flows :
                 Start(r, [Idle EXCEPT !.op = "unlink", !.at = "unset", !.flow = f, !.device = d])
    BY <2>2 DEF UnlinkDevice
  <2>3. ASSUME NEW f \in Flows, DeleteFlow(r, f)
        PROVE  \E d \in Devices \cup {"none"} :
                 /\ Start(r, [Idle EXCEPT !.op = "delete", !.at = "unset", !.flow = f, !.device = d])
                 /\ flow[f] # 0
    BY <2>3 DEF DeleteFlow, ActiveDevice, Linked
  <2> QED
    BY <2>1, <2>2, <2>3
<1> DEFINE q == [Idle EXCEPT !.op = op, !.at = at, !.flow = f, !.device = d]
<1>2. q \in LifeRequests /\ q.flow = f /\ q.op = op /\ q.at = at /\ q.device = d
  BY <1>1, IdleRequest DEF LifeRequests
<1>3. Start(r, q) /\ flow' = flow /\ link' = link /\ \A p \in FlowRequests : Kept(req[p].flow)
  BY <1>1 DEF LinkDevice, UnlinkDevice, DeleteFlow, Kept, docVars
<1> HIDE DEF q
<1> QED
  BY <1>1, <1>2, <1>3, StartKeepsFacts

LEMMA SkipKeepsFacts ==
    ASSUME LifeTypeOK, AloneApart, AloneFacts, NEW r \in FlowRequests, NEW f \in Flows,
           SkipPath(r, f)
    PROVE  AloneApart' /\ AloneFacts'
<1> DEFINE q == [Idle EXCEPT !.op = "skip", !.at = "saveSkip", !.flow = f, !.seen = logic[f]]
<1>1. logic[f] \in Revisions
  BY TypeParts DEF DocsOK
<1>2. q \in LifeRequests /\ q.flow = f /\ q.op = "skip"
  BY <1>1, IdleRequest DEF LifeRequests
<1>3. Start(r, q) /\ link' = link /\ \A p \in FlowRequests : Kept(req[p].flow)
  BY DEF SkipPath, Kept, docVars
<1> HIDE DEF q
<1> QED
  BY <1>2, <1>3, StartKeepsFacts

AloneInv == LifeTypeOK /\ TargetsBounded /\ AloneApart /\ AloneFacts

LEMMA AloneInitial == LifeInit => AloneInv
BY LifeInitial, IdleRequest DEF AloneInv, AloneApart, AloneFacts, Busy, LifeInit

LEMMA AloneStep == AloneInv /\ [LifeNext]_lifeVars => AloneInv'
<1> SUFFICES ASSUME LifeTypeOK, TargetsBounded, AloneApart, AloneFacts, [LifeNext]_lifeVars
             PROVE  AloneApart' /\ AloneFacts'
  BY LifeStep DEF AloneInv
<1>1. ASSUME NEW r \in FlowRequests, RequestStep(r) PROVE AloneApart' /\ AloneFacts'
  BY <1>1, RequestKeepsFacts
<1>2. ASSUME NEW r \in FlowRequests, NEW f \in Flows,
             \/ CreateFlow(r, f) \/ DeleteFlow(r, f) \/ SkipPath(r, f)
             \/ \E content \in BOOLEAN : UpdateFlow(r, f, content)
             \/ \E d \in Devices : LinkDevice(r, d, f)
      PROVE  AloneApart' /\ AloneFacts'
  BY <1>2, CreateKeepsFacts, UpdateKeepsFacts, LinksKeepFacts, SkipKeepsFacts
<1>3. ASSUME NEW r \in FlowRequests, NEW d \in Devices, UnlinkDevice(r, d)
      PROVE  AloneApart' /\ AloneFacts'
  BY <1>3, LinksKeepFacts
<1> QED
  BY <1>1, <1>2, <1>3, MessageKeepsFacts DEF LifeNext, MessageMoves

-----------------------------------------------------------------------------
(* The ends of requests                                                      *)

\* A link that nothing overlapped leaves the flow to its device, with the UI of its revision
\* and no program cached from before.
THEOREM LinksAloneAreExclusive == LifeSpec => LinkAloneIsExclusive
<1>1. AloneInv =>
        [\A r \in FlowRequests : req[r].alone /\ req[r].op = "link" /\ Publish(r) =>
           LET f == req[r].flow d == req[r].device IN
           /\ \A e \in Devices : link'[e] = f => e = d
           /\ ui'[f] = flow'[f]
           /\ cache'[d] = Empty]_lifeVars
  <2> SUFFICES ASSUME AloneInv, NEW r \in FlowRequests,
                      req[r].alone, req[r].op = "link", Publish(r)
               PROVE  /\ \A e \in Devices : link'[e] = req[r].flow => e = req[r].device
                      /\ ui'[req[r].flow] = flow'[req[r].flow]
                      /\ cache'[req[r].device] = Empty
    OBVIOUS
  <2>1. req[r].at = "publish" /\ Busy(r)
    BY DEF Publish, At, Busy
  <2>2. LinkFacts(req[r])
    BY <2>1 DEF AloneInv, AloneFacts, FactsOf
  <2> QED
    BY <2>1, <2>2 DEF Publish, LinkFacts, docVars
<1> QED
  BY <1>1, AloneInitial, AloneStep, PTL DEF LifeSpec, LinkAloneIsExclusive

\* An edit that nothing overlapped leaves the four documents of its revision, and no program
\* cached for the one device of the flow, whatever was there before; a deletion leaves nothing
\* of the flow.
THEOREM EditsAloneAreWhole == LifeSpec => AloneIsWhole
<1>1. AloneInv =>
        [\A r \in FlowRequests : req[r].alone =>
           LET f == req[r].flow d == req[r].device IN
           /\ req[r].op = "update" /\ Publish(r) =>
                /\ Whole(f, req[r].rev)
                /\ \A e \in Devices : Linked(f) = {e} => cache'[e] = Empty
           /\ req[r].op = "delete" /\ RemoveLogic(r) =>
                /\ flow'[f] = 0 /\ setup'[f] = 0 /\ logic'[f] = 0
                /\ d \in Devices => link'[d] # f]_lifeVars
  <2> SUFFICES ASSUME AloneInv, NEW r \in FlowRequests, req[r].alone, NEW f, NEW d,
                      f = req[r].flow, d = req[r].device
               PROVE  /\ req[r].op = "update" /\ Publish(r) =>
                           /\ Whole(f, req[r].rev)
                           /\ \A e \in Devices : Linked(f) = {e} => cache'[e] = Empty
                      /\ req[r].op = "delete" /\ RemoveLogic(r) =>
                           /\ flow'[f] = 0 /\ setup'[f] = 0 /\ logic'[f] = 0
                           /\ d \in Devices => link'[d] # f
    OBVIOUS
  <2>1. Busy(r) => FactsOf(req[r]) /\ f \in Flows
    BY UnderWay DEF AloneInv, AloneFacts, Busy
  <2>2. ASSUME req[r].op = "delete", RemoveLogic(r)
        PROVE  /\ flow'[f] = 0 /\ setup'[f] = 0 /\ logic'[f] = 0
               /\ d \in Devices => link'[d] # f
    <3>1. req[r].at = "removeLogic" /\ Busy(r)
      BY <2>2 DEF RemoveLogic, At, Busy
    <3>2. flow[f] = 0 /\ setup[f] = 0 /\ (d \in Devices => link[d] # f)
      BY <2>1, <2>2, <3>1 DEF FactsOf, DeleteFacts
    <3> QED
      BY <2>1, <2>2, <3>1, <3>2, TypeParts DEF RemoveLogic, AloneInv, DocsOK
  <2>3. ASSUME req[r].op = "update", Publish(r)
        PROVE  Whole(f, req[r].rev) /\ \A e \in Devices : Linked(f) = {e} => cache'[e] = Empty
    <3>1. req[r].at = "publish" /\ Busy(r)
      BY <2>3 DEF Publish, At, Busy
    <3>2. /\ setup[f] = req[r].rev /\ ui[f] = req[r].rev /\ logic[f] = req[r].rev
          /\ flow[f] = req[r].rev /\ d \in ActiveDevice(f)
      BY <2>1, <2>3, <3>1 DEF FactsOf, EditFacts
    <3>3. Whole(f, req[r].rev)
      BY <2>3, <3>2 DEF Publish, Whole, docVars
    <3>4. ASSUME NEW e \in Devices, Linked(f) = {e} PROVE cache'[e] = Empty
      BY <2>3, <3>2, <3>4 DEF Publish, ActiveDevice
    <3> QED
      BY <3>3, <3>4
  <2> QED
    BY <2>2, <2>3
<1> QED
  BY <1>1, AloneInitial, AloneStep, PTL DEF LifeSpec, AloneIsWhole

HIDE FlowAssumption

-----------------------------------------------------------------------------
(* The rules of a flow's nodes and the policies that require them          *)

USE RuleAssumption

RuleRequest ==
    [op : {"none", "create", "update", "delete", "edit"},
     at : {"idle", "policy", "write", "stale", "insert", "save"},
     rule : RuleDocs \cup {NoRule}, seen : RuleDocs \cup {NoRule}, id : RuleIds \cup {0},
     ids : SUBSET RuleIds, taken : SUBSET (Nodes \X Keys), layout : Layouts, alone : BOOLEAN]

\* What a request that is under way holds.
WellFormed(q) ==
    /\ q.at \in {"policy", "write"} => q.op \in {"create", "update", "delete"} /\ q.rule \in RuleDocs
    /\ q.at \in {"stale", "insert", "save"} => q.op = "edit"
    /\ q.op \in {"update", "delete"} => q.id \in RuleIds
    /\ q.op = "edit" => q.at \in {"stale", "insert", "save"}

RuleDocsOK ==
    /\ ruleFlow \in {"saved", "gone", "clean"}
    /\ nodes \in Layouts
    /\ rules \in [RuleIds -> RuleDocs \cup {NoRule}]
    /\ policies \in [Modules \X Keys -> Policies]

RuleRequestsOK ==
    /\ rreq \in [RuleRequests -> RuleRequest]
    /\ \A r \in RuleRequests : WellFormed(rreq[r])

\* The unique index: no two rules have a node and a reading key in common.
RulesUnique ==
    \A i, j \in Live : rules[i].node = rules[j].node /\ rules[i].key = rules[j].key => i = j

\* What a request that is alone knows of the rules and the policies.
KnowsRule(q) ==
    /\ q.op \in {"create", "update"} /\ q.at = "write" => (RequiredNow(q.rule) => q.rule.enabled)
    /\ q.op = "update" => rules[q.id] = q.seen /\ q.seen \in RuleDocs
    /\ q.op = "delete" => rules[q.id] = q.rule
    /\ q.op = "delete" /\ q.at = "write" => ~RequiredNow(q.rule)

KnowsNodes(q) ==
    /\ q.at = "stale" => /\ q.ids = {i \in Live : q.layout[rules[i].node] = NoModule}
                         /\ q.taken = {<<rules[i].node, rules[i].key>> : i \in Live}
    /\ q.at \in {"insert", "save"} => \A i \in Live : q.layout[rules[i].node] # NoModule
    /\ q.at = "insert" =>
         \A nk \in q.taken : q.layout[nk[1]] # NoModule => RulesAt(nk[1], nk[2]) # {}
    /\ q.at = "save" =>
         \A n \in Nodes, k \in Keys :
           q.layout[n] # NoModule /\ policies[<<q.layout[n], k>>] # NoPolicy => RulesAt(n, k) # {}

Knows(q) == KnowsRule(q) /\ (q.op = "edit" => KnowsNodes(q))

Working(r) == rreq[r].at # "idle"

AloneKnows ==
    \A r \in RuleRequests : Working(r) /\ rreq[r].alone =>
        /\ \A p \in RuleRequests \ {r} : ~Working(p)
        /\ ruleFlow = "saved"
        /\ Knows(rreq[r])

-----------------------------------------------------------------------------
(* Documents and requests of their types                                     *)

LEMMA NoRuleIsNone == NoRule \notin RuleDocs
BY DEF NoRule, RuleDocs

LEMMA RestingRequest == Resting \in RuleRequest /\ Resting.at = "idle" /\ WellFormed(Resting)
<1> DEFINE yes == TRUE
           none == [n \in Nodes |-> NoModule]
<1>1. yes \in BOOLEAN /\ none \in Layouts
  BY DEF Layouts
<1> HIDE DEF yes, none
<1>2. [op |-> "none", at |-> "idle", rule |-> NoRule, seen |-> NoRule, id |-> 0,
       ids |-> {}, taken |-> {}, layout |-> none, alone |-> yes] \in RuleRequest
  BY <1>1 DEF RuleRequest
<1>3. Resting = [op |-> "none", at |-> "idle", rule |-> NoRule, seen |-> NoRule, id |-> 0,
                 ids |-> {}, taken |-> {}, layout |-> none, alone |-> yes]
  BY DEF Resting, yes, none
<1> QED
  BY <1>2, <1>3 DEF WellFormed

LEMMA SolitudeSet ==
    ASSUME NEW q \in RuleRequest, NEW a \in BOOLEAN
    PROVE  /\ [q EXCEPT !.alone = a] \in RuleRequest
           /\ [q EXCEPT !.alone = a].op = q.op /\ [q EXCEPT !.alone = a].at = q.at
           /\ [q EXCEPT !.alone = a].rule = q.rule /\ [q EXCEPT !.alone = a].seen = q.seen
           /\ [q EXCEPT !.alone = a].id = q.id /\ [q EXCEPT !.alone = a].ids = q.ids
           /\ [q EXCEPT !.alone = a].taken = q.taken /\ [q EXCEPT !.alone = a].layout = q.layout
           /\ [q EXCEPT !.alone = a].alone = a
BY Zenon DEF RuleRequest

\* Two requests that differ in their solitude only.
Alike(q, p) ==
    /\ q.op = p.op /\ q.at = p.at /\ q.rule = p.rule /\ q.seen = p.seen /\ q.id = p.id
    /\ q.ids = p.ids /\ q.taken = p.taken /\ q.layout = p.layout

LEMMA Changed ==
    ASSUME NEW q \in RuleRequest, NEW a \in BOOLEAN, NEW n, n = [q EXCEPT !.alone = a]
    PROVE  n \in RuleRequest /\ Alike(n, q) /\ n.alone = a
<1>1. LET m == [q EXCEPT !.alone = a] IN
      /\ m \in RuleRequest /\ m.op = q.op /\ m.at = q.at /\ m.rule = q.rule /\ m.seen = q.seen
      /\ m.id = q.id /\ m.ids = q.ids /\ m.taken = q.taken /\ m.layout = q.layout /\ m.alone = a
  BY SolitudeSet
<1>2. /\ n \in RuleRequest /\ n.op = q.op /\ n.at = q.at /\ n.rule = q.rule /\ n.seen = q.seen
      /\ n.id = q.id /\ n.ids = q.ids /\ n.taken = q.taken /\ n.layout = q.layout /\ n.alone = a
  BY <1>1
<1> QED
  BY <1>2, Zenon DEF Alike

LEMMA AlikeWellFormed ==
    ASSUME NEW q, NEW p, Alike(q, p), WellFormed(p) PROVE WellFormed(q)
BY DEF Alike, WellFormed

\* A request opens: one that is under way is no longer alone, and the new one is if it is
\* the only one.
LEMMA Opened ==
    ASSUME RuleRequestsOK, NEW r \in RuleRequests, NEW q \in RuleRequest, WellFormed(q), Open(r, q)
    PROVE  /\ RuleRequestsOK' /\ ruleFlow = "saved"
           /\ Alike(rreq'[r], q)
           /\ rreq'[r].alone => \A p \in RuleRequests \ {r} : ~Working(p)'
           /\ \A p \in RuleRequests \ {r} :
                /\ Alike(rreq'[p], rreq[p])
                /\ ~(Working(p)' /\ rreq'[p].alone)
<1> DEFINE others == {p \in RuleRequests \ {r} : rreq[p].at # "idle"}
           a == others = {}
           no == FALSE
<1>1. /\ ruleFlow = "saved"
      /\ rreq' = [p \in RuleRequests |->
                    IF p = r THEN [q EXCEPT !.alone = a]
                    ELSE IF p \in others THEN [rreq[p] EXCEPT !.alone = no] ELSE rreq[p]]
  BY DEF Open
<1>2. a \in BOOLEAN /\ no \in BOOLEAN /\ ~no /\ (a => others = {})
  OBVIOUS
<1>3. \A p \in RuleRequests \ {r} : (p \in others) <=> Working(p)
  BY DEF Working
<1> HIDE DEF others, a, no
<1>4. rreq'[r] = [q EXCEPT !.alone = a]
  BY <1>1
<1>5. PICK n : n = rreq'[r]
  OBVIOUS
<1>6. n \in RuleRequest /\ Alike(n, q) /\ n.alone = a
  BY <1>2, <1>4, <1>5, Changed
<1>7. ASSUME NEW p \in RuleRequests \ {r}
      PROVE  /\ rreq'[p] \in RuleRequest /\ Alike(rreq'[p], rreq[p])
             /\ (Working(p)' <=> Working(p)) /\ ~(Working(p)' /\ rreq'[p].alone)
  <2>1. PICK o \in RuleRequest : o = rreq[p]
    BY DEF RuleRequestsOK
  <2>2. CASE p \in others
    <3>1. PICK m : m = rreq'[p] /\ m = [o EXCEPT !.alone = no]
      BY <1>1, <2>1, <2>2
    <3>2. m \in RuleRequest /\ Alike(m, o) /\ m.alone = no
      BY <1>2, <2>1, <3>1, Changed
    <3>3. rreq'[p] \in RuleRequest /\ Alike(rreq'[p], rreq[p])
      BY <2>1, <3>1, <3>2
    <3>4. ~rreq'[p].alone
      BY <1>2, <3>1, <3>2, Zenon
    <3> QED
      BY <3>3, <3>4 DEF Alike, Working
  <2>3. CASE p \notin others
    <3>1. rreq'[p] = rreq[p] /\ rreq[p] \in RuleRequest /\ ~Working(p)
      BY <1>1, <1>3, <2>1, <2>3
    <3> QED
      BY <3>1 DEF Alike, Working
  <2> QED
    BY <2>2, <2>3
<1>8. \A p \in RuleRequests : rreq'[p] \in RuleRequest /\ WellFormed(rreq'[p])
  BY <1>5, <1>6, <1>7, AlikeWellFormed DEF RuleRequestsOK
<1>9. RuleRequestsOK'
  BY <1>1, <1>8 DEF RuleRequestsOK, WellFormed
<1>10. rreq'[r].alone => others = {}
  BY <1>2, <1>5, <1>6, Zenon
<1>11. rreq'[r].alone => \A p \in RuleRequests \ {r} : ~Working(p)'
  BY <1>3, <1>7, <1>10
<1> QED
  BY <1>1, <1>5, <1>6, <1>7, <1>9, <1>11

\* A request that goes on is the same but for where it stands and the ids it has read.
LEMMA Proceeding ==
    ASSUME RuleRequestsOK, NEW r \in RuleRequests,
           NEW at \in {"write", "insert", "save"}, NEW ids \in SUBSET RuleIds,
           (Move(r, at) /\ ids = rreq[r].ids) \/ rreq' = [rreq EXCEPT ![r].at = at, ![r].ids = ids],
           at = "write" => rreq[r].at = "policy",
           at # "write" => rreq[r].op = "edit"
    PROVE  /\ RuleRequestsOK'
           /\ \A p \in RuleRequests \ {r} : rreq'[p] = rreq[p]
           /\ LET n == rreq'[r] q == rreq[r] IN
              /\ n.at = at /\ n.ids = ids
              /\ n.op = q.op /\ n.rule = q.rule /\ n.seen = q.seen /\ n.id = q.id
              /\ n.taken = q.taken /\ n.layout = q.layout /\ (n.alone => q.alone)
<1>1. PICK q \in RuleRequest : q = rreq[r] /\ WellFormed(q)
  BY DEF RuleRequestsOK
<1>2. PICK n : n = rreq'[r]
  OBVIOUS
<1>3. n = [q EXCEPT !.at = at, !.ids = ids]
  <2>1. CASE Move(r, at) /\ ids = q.ids
    BY <1>1, <1>2, <2>1 DEF Move, RuleRequestsOK, RuleRequest
  <2>2. CASE rreq' = [rreq EXCEPT ![r].at = at, ![r].ids = ids]
    BY <1>1, <1>2, <2>2 DEF RuleRequestsOK
  <2> QED
    BY <1>1, <2>1, <2>2
<1>4. /\ n \in RuleRequest /\ n.at = at /\ n.ids = ids
      /\ n.op = q.op /\ n.rule = q.rule /\ n.seen = q.seen /\ n.id = q.id
      /\ n.taken = q.taken /\ n.layout = q.layout /\ (n.alone => q.alone)
  <2>1. /\ n \in RuleRequest /\ n.at = at /\ n.ids = ids
        /\ n.op = q.op /\ n.rule = q.rule /\ n.seen = q.seen /\ n.id = q.id
        /\ n.taken = q.taken /\ n.layout = q.layout
    BY <1>1, <1>3 DEF RuleRequest
  <2>2. n.alone = q.alone
    BY <1>1, <1>3, Zenon DEF RuleRequest
  <2> QED
    BY <2>1, <2>2
<1>5. \A p \in RuleRequests \ {r} : rreq'[p] = rreq[p]
  BY DEF Move, RuleRequestsOK
<1>6. WellFormed(n)
  BY <1>1, <1>4 DEF WellFormed
<1>7. /\ DOMAIN rreq' = RuleRequests /\ rreq' = [p \in RuleRequests |-> rreq'[p]]
      /\ \A p \in RuleRequests : rreq'[p] \in RuleRequest /\ WellFormed(rreq'[p])
  BY <1>2, <1>4, <1>5, <1>6 DEF RuleRequestsOK, Move
<1>8. RuleRequestsOK'
  BY <1>7 DEF RuleRequestsOK, WellFormed
<1> QED
  BY <1>1, <1>2, <1>4, <1>5, <1>8

LEMMA Closing ==
    ASSUME RuleRequestsOK, NEW r \in RuleRequests, Close(r)
    PROVE  /\ RuleRequestsOK' /\ ~Working(r)'
           /\ \A p \in RuleRequests \ {r} : rreq'[p] = rreq[p]
<1>1. rreq'[r] = Resting /\ \A p \in RuleRequests \ {r} : rreq'[p] = rreq[p]
  BY DEF RuleRequestsOK, Close
<1>2. \A p \in RuleRequests : rreq'[p] \in RuleRequest /\ WellFormed(rreq'[p])
  BY <1>1, RestingRequest DEF RuleRequestsOK
<1>3. rreq' \in [RuleRequests -> RuleRequest]
  BY <1>2 DEF RuleRequestsOK, Close
<1> QED
  BY <1>1, <1>2, <1>3, RestingRequest DEF RuleRequestsOK, WellFormed, Working

-----------------------------------------------------------------------------
(* Requests that are alone                                                   *)

LEMMA StepKeepsKnows ==
    ASSUME AloneKnows, NEW r \in RuleRequests, Working(r), ruleFlow' = ruleFlow,
           \A p \in RuleRequests \ {r} : rreq'[p] = rreq[p],
           Working(r)' /\ rreq'[r].alone => rreq[r].alone /\ Knows(rreq[r])'
    PROVE  AloneKnows'
<1> SUFFICES ASSUME NEW a \in RuleRequests, Working(a)', rreq'[a].alone
             PROVE  /\ \A p \in RuleRequests \ {a} : ~Working(p)'
                    /\ ruleFlow' = "saved" /\ Knows(rreq[a])'
  BY DEF AloneKnows
<1>1. CASE a = r
  BY <1>1 DEF AloneKnows, Working
<1>2. CASE a # r
  <2>1. Working(a) /\ rreq[a].alone
    BY <1>2, Zenon DEF Working
  <2> QED
    BY <1>2, <2>1 DEF AloneKnows
<1> QED
  BY <1>1, <1>2

LEMMA OpenKeepsKnows ==
    ASSUME RuleRequestsOK, NEW r \in RuleRequests, NEW q \in RuleRequest, WellFormed(q), Open(r, q),
           ruleFlow' = ruleFlow, rules' = rules, policies' = policies, Knows(q)
    PROVE  RuleRequestsOK' /\ AloneKnows'
<1>1. /\ RuleRequestsOK' /\ ruleFlow = "saved" /\ Alike(rreq'[r], q)
      /\ rreq'[r].alone => \A p \in RuleRequests \ {r} : ~Working(p)'
      /\ \A p \in RuleRequests \ {r} : ~(Working(p)' /\ rreq'[p].alone)
  BY Opened
<1>2. PICK n : n = rreq'[r]
  OBVIOUS
<1>3. Knows(n)'
  BY <1>1, <1>2 DEF Knows, KnowsRule, KnowsNodes, Alike, Live, RulesAt, RequiredNow
<1>4. Knows(rreq[r])'
  BY <1>2, <1>3 DEF Knows, KnowsRule, KnowsNodes
<1> QED
  BY <1>1, <1>4 DEF AloneKnows

RuleInv == RuleDocsOK /\ RuleRequestsOK /\ RulesUnique /\ AloneKnows

-----------------------------------------------------------------------------
(* Rules that come and go                                                    *)

LEMMA RulesLive ==
    ASSUME RuleDocsOK
    PROVE  \A i \in RuleIds : rules[i] \in RuleDocs \cup {NoRule} /\ (i \in Live <=> rules[i] \in RuleDocs)
BY NoRuleIsNone DEF RuleDocsOK, Live

LEMMA RuleWritten ==
    ASSUME RuleDocsOK, RulesUnique, NEW i \in RuleIds, NEW doc \in RuleDocs,
           RulesAt(doc.node, doc.key) \subseteq {i}, rules' = [rules EXCEPT ![i] = doc]
    PROVE  rules' \in [RuleIds -> RuleDocs \cup {NoRule}] /\ RulesUnique'
<1>1. \A j \in RuleIds : rules'[j] = IF j = i THEN doc ELSE rules[j]
  BY DEF RuleDocsOK
<1>2. \A j \in Live : rules[j].node = doc.node /\ rules[j].key = doc.key => j = i
  BY DEF RulesAt
<1>3. \A j \in RuleIds : j # i => (j \in Live' <=> j \in Live)
  BY <1>1 DEF Live
<1>4. Live' \subseteq RuleIds
  BY DEF Live
<1>5. RulesUnique'
  BY <1>1, <1>2, <1>3, <1>4 DEF RulesUnique
<1> QED
  BY <1>5 DEF RuleDocsOK

LEMMA RulesRemoved ==
    ASSUME RuleDocsOK, RulesUnique, NEW ids, rules' = [i \in RuleIds |-> IF i \in ids THEN NoRule ELSE rules[i]]
    PROVE  rules' \in [RuleIds -> RuleDocs \cup {NoRule}] /\ RulesUnique' /\ Live' = Live \ ids
<1>1. Live' = Live \ ids
  BY DEF Live
<1>2. Live \subseteq RuleIds
  BY DEF Live
<1>3. RulesUnique'
  BY <1>1, <1>2 DEF RulesUnique
<1> QED
  BY <1>1, <1>3 DEF RuleDocsOK

-----------------------------------------------------------------------------
(* Requests on one rule                                                      *)

LEMMA OpenStep ==
    ASSUME RuleInv, NEW r \in RuleRequests, NEW q \in RuleRequest, WellFormed(q), Open(r, q), Knows(q),
           UNCHANGED <<ruleFlow, nodes, rules, policies>>
    PROVE  RuleInv'
<1>1. RuleRequestsOK' /\ AloneKnows'
  BY OpenKeepsKnows DEF RuleInv
<1>2. RuleDocsOK' /\ RulesUnique'
  BY DEF RuleInv, RuleDocsOK, RulesUnique, Live
<1> QED
  BY <1>1, <1>2 DEF RuleInv

LEMMA WriteOpens ==
    ASSUME RuleInv, NEW r \in RuleRequests, NEW n \in Nodes, NEW k \in Keys, NEW e \in BOOLEAN,
           CreateRule(r, n, k, e) \/ \E i \in RuleIds : UpdateRule(r, i, n, k, e)
    PROVE  RuleInv'
<1>1. nodes[n] \in Modules
  BY DEF CreateRule, UpdateRule, RuleInv, RuleDocsOK, Layouts
<1>2. PICK doc : doc = [node |-> n, module |-> nodes[n], key |-> k, enabled |-> e]
  OBVIOUS
<1>3. doc \in RuleDocs
  BY <1>1, <1>2 DEF RuleDocs
<1>4. CASE CreateRule(r, n, k, e)
  <2> DEFINE q == [Resting EXCEPT !.op = "create", !.at = "policy", !.rule = doc]
  <2>1. q \in RuleRequest /\ q.op = "create" /\ q.at = "policy" /\ q.rule = doc
    BY <1>3, RestingRequest DEF RuleRequest
  <2>2. Open(r, q) /\ UNCHANGED <<ruleFlow, nodes, rules, policies>>
    BY <1>2, <1>4 DEF CreateRule
  <2> HIDE DEF q
  <2>3. WellFormed(q) /\ Knows(q)
    BY <1>3, <2>1 DEF WellFormed, Knows, KnowsRule
  <2> QED
    BY <2>1, <2>2, <2>3, OpenStep
<1>5. ASSUME NEW i \in RuleIds, UpdateRule(r, i, n, k, e) PROVE RuleInv'
  <2> DEFINE q == [Resting EXCEPT !.op = "update", !.at = "policy", !.id = i, !.seen = rules[i],
                                  !.rule = doc]
  <2>1. rules[i] \in RuleDocs
    BY <1>5, RulesLive DEF UpdateRule, RuleInv
  <2>2. /\ q \in RuleRequest /\ q.op = "update" /\ q.at = "policy" /\ q.rule = doc /\ q.id = i
        /\ q.seen = rules[i]
    BY <1>3, <2>1, RestingRequest DEF RuleRequest
  <2>3. Open(r, q) /\ UNCHANGED <<ruleFlow, nodes, rules, policies>>
    BY <1>2, <1>5 DEF UpdateRule
  <2> HIDE DEF q
  <2>4. WellFormed(q) /\ Knows(q)
    BY <1>3, <2>1, <2>2 DEF WellFormed, Knows, KnowsRule
  <2> QED
    BY <2>2, <2>3, <2>4, OpenStep
<1> QED
  BY <1>4, <1>5

LEMMA DeleteOpens ==
    ASSUME RuleInv, NEW r \in RuleRequests, NEW i \in RuleIds, DeleteRule(r, i)
    PROVE  RuleInv'
<1> DEFINE q == [Resting EXCEPT !.op = "delete", !.at = "policy", !.id = i, !.rule = rules[i]]
<1>1. rules[i] \in RuleDocs
  BY RulesLive DEF DeleteRule, RuleInv
<1>2. q \in RuleRequest /\ q.op = "delete" /\ q.at = "policy" /\ q.rule = rules[i] /\ q.id = i
  BY <1>1, RestingRequest DEF RuleRequest
<1>3. Open(r, q) /\ UNCHANGED <<ruleFlow, nodes, rules, policies>>
  BY DEF DeleteRule
<1> HIDE DEF q
<1>4. WellFormed(q) /\ Knows(q)
  BY <1>1, <1>2 DEF WellFormed, Knows, KnowsRule
<1> QED
  BY <1>2, <1>3, <1>4, OpenStep

LEMMA EditOpens ==
    ASSUME RuleInv, NEW r \in RuleRequests, NEW layout \in Layouts, EditFlow(r, layout)
    PROVE  RuleInv'
<1> DEFINE ids == {i \in Live : layout[rules[i].node] = NoModule}
           taken == {<<rules[i].node, rules[i].key>> : i \in Live}
           q == [Resting EXCEPT !.op = "edit", !.at = "stale", !.layout = layout, !.ids = ids,
                                !.taken = taken]
<1>1. Open(r, q) /\ UNCHANGED <<ruleFlow, nodes, rules, policies>>
  BY DEF EditFlow
<1>2. ids \in SUBSET RuleIds /\ taken \in SUBSET (Nodes \X Keys)
  BY RulesLive DEF RuleInv, Live, RuleDocs
<1>3. PICK s, t : s = ids /\ t = taken
  OBVIOUS
<1> HIDE DEF ids, taken
<1>4. /\ q \in RuleRequest /\ q.op = "edit" /\ q.at = "stale" /\ q.layout = layout /\ q.ids = ids
      /\ q.taken = taken
  BY <1>2, RestingRequest DEF RuleRequest
<1> HIDE DEF q
<1>5. WellFormed(q) /\ Knows(q)
  BY <1>4 DEF WellFormed, Knows, KnowsRule, KnowsNodes, ids, taken
<1> QED
  BY <1>1, <1>4, <1>5, OpenStep

LEMMA ReadPolicyStep ==
    ASSUME RuleInv, NEW r \in RuleRequests, ReadPolicy(r)
    PROVE  RuleInv'
<1>1. /\ Working(r) /\ UNCHANGED <<ruleFlow, nodes, rules, policies>>
      /\ rreq[r].at = "policy" /\ rreq[r].op \in {"create", "update", "delete"}
  BY DEF ReadPolicy, Working
<1>2. RuleDocsOK' /\ RulesUnique'
  BY <1>1 DEF RuleInv, RuleDocsOK, RulesUnique, Live
<1>3. CASE Close(r)
  BY <1>1, <1>2, <1>3, Closing, StepKeepsKnows DEF RuleInv
<1>4. CASE ~Close(r)
  <2>1. /\ Move(r, "write")
        /\ RequiredNow(rreq[r].rule) => rreq[r].op # "delete" /\ rreq[r].rule.enabled
    BY <1>4 DEF ReadPolicy, RequiredNow
  <2>2. PICK q : q = rreq[r]
    OBVIOUS
  <2>3. PICK n : n = rreq'[r]
    OBVIOUS
  <2>4. q.ids \in SUBSET RuleIds
    BY <2>2 DEF RuleInv, RuleRequestsOK, RuleRequest
  <2>5. /\ RuleRequestsOK' /\ \A p \in RuleRequests \ {r} : rreq'[p] = rreq[p]
        /\ n.at = "write" /\ n.op = q.op /\ n.rule = q.rule /\ n.seen = q.seen /\ n.id = q.id
        /\ (n.alone => q.alone)
    BY <1>1, <2>1, <2>2, <2>3, <2>4, Proceeding DEF RuleInv
  <2>6. q.alone => KnowsRule(q)
    BY <1>1, <2>2 DEF RuleInv, AloneKnows, Knows
  <2>7. q.alone => Knows(n)'
    BY <1>1, <2>1, <2>2, <2>5, <2>6 DEF Knows, KnowsRule, RequiredNow
  <2>8. Working(r)' /\ rreq'[r].alone => rreq[r].alone /\ Knows(rreq[r])'
    BY <2>2, <2>3, <2>5, <2>7 DEF Knows, KnowsRule, KnowsNodes
  <2> QED
    BY <1>1, <1>2, <2>5, <2>8, StepKeepsKnows DEF RuleInv
<1> QED
  BY <1>3, <1>4

\* A request ends over rules that are still of their type and unique.
LEMMA CloseStep ==
    ASSUME RuleInv, NEW r \in RuleRequests, Working(r), Close(r), ruleFlow' = ruleFlow,
           policies' = policies, nodes' \in Layouts,
           rules' \in [RuleIds -> RuleDocs \cup {NoRule}] /\ RulesUnique'
    PROVE  RuleInv'
<1>1. RuleRequestsOK' /\ AloneKnows'
  BY Closing, StepKeepsKnows DEF RuleInv
<1>2. RuleDocsOK'
  BY DEF RuleInv, RuleDocsOK
<1> QED
  BY <1>1, <1>2 DEF RuleInv

LEMMA SameRules ==
    ASSUME RuleInv, rules' = rules
    PROVE  rules' \in [RuleIds -> RuleDocs \cup {NoRule}] /\ RulesUnique' /\ Live' = Live
BY DEF RuleInv, RuleDocsOK, RulesUnique, Live

LEMMA NewRuleStep ==
    ASSUME RuleInv, NEW r \in RuleRequests, WriteNewRule(r)
    PROVE  RuleInv'
<1>1. PICK doc : doc = rreq[r].rule
  OBVIOUS
<1>2. /\ Working(r) /\ Close(r) /\ UNCHANGED <<ruleFlow, nodes, policies>> /\ doc \in RuleDocs
  BY <1>1 DEF WriteNewRule, Standing, Working, RuleInv, RuleRequestsOK, WellFormed
<1>3. rules' \in [RuleIds -> RuleDocs \cup {NoRule}] /\ RulesUnique'
  <2>1. CASE rules' = rules
    BY <2>1, SameRules
  <2>2. CASE Free(doc, 0) /\ \E i \in Least(1) : rules' = [rules EXCEPT ![i] = doc]
    <3>1. PICK i \in RuleIds : rules' = [rules EXCEPT ![i] = doc]
      BY <2>2 DEF Least, FreshIds
    <3>2. RulesAt(doc.node, doc.key) \subseteq {i}
      BY <2>2 DEF Free, RulesAt, Live
    <3> QED
      BY <1>2, <3>1, <3>2, RuleWritten DEF RuleInv
  <2> QED
    BY <1>1, <2>1, <2>2 DEF WriteNewRule
<1> QED
  BY <1>2, <1>3, CloseStep DEF RuleInv, RuleDocsOK

\* What an update writes: the fields that it changes, of a rule that may have changed.
LEMMA Merged ==
    ASSUME NEW rule \in RuleDocs, NEW seen, NEW now \in RuleDocs, NEW new,
           new = [f \in DOMAIN rule |-> IF rule[f] # seen[f] THEN rule[f] ELSE now[f]]
    PROVE  new \in RuleDocs /\ (now = seen => new = rule)
<1>1. DOMAIN rule = {"node", "module", "key", "enabled"} /\ DOMAIN now = DOMAIN rule
  BY DEF RuleDocs
<1>2. /\ rule["node"] \in Nodes /\ rule["module"] \in Modules /\ rule["key"] \in Keys
      /\ now["node"] \in Nodes /\ now["module"] \in Modules /\ now["key"] \in Keys
      /\ rule["enabled"] \in BOOLEAN /\ now["enabled"] \in BOOLEAN
  BY DEF RuleDocs
<1>3. /\ DOMAIN new = {"node", "module", "key", "enabled"}
      /\ new["node"] \in Nodes /\ new["module"] \in Modules /\ new["key"] \in Keys
      /\ new["enabled"] \in BOOLEAN /\ new = [f \in DOMAIN new |-> new[f]]
  BY <1>1, <1>2
<1>4. new \in RuleDocs
  BY <1>3 DEF RuleDocs
<1>5. now = seen => new = [f \in DOMAIN rule |-> rule[f]]
  OBVIOUS
<1>6. rule = [f \in DOMAIN rule |-> rule[f]]
  BY DEF RuleDocs
<1> QED
  BY <1>4, <1>5, <1>6

LEMMA WriteRuleStep ==
    ASSUME RuleInv, NEW r \in RuleRequests, WriteRule(r)
    PROVE  RuleInv'
<1>1. PICK q : q = rreq[r]
  OBVIOUS
<1>2. PICK new : new = [f \in DOMAIN q.rule |->
                          IF q.rule[f] # q.seen[f] THEN q.rule[f] ELSE rules[q.id][f]]
  OBVIOUS
<1>3. /\ Working(r) /\ Close(r) /\ UNCHANGED <<ruleFlow, nodes, policies>> /\ q.rule \in RuleDocs
      /\ q.id \in RuleIds
      /\ rules' = IF q.id \in Live /\ Free(new, q.id) THEN [rules EXCEPT ![q.id] = new] ELSE rules
  BY <1>1, <1>2 DEF WriteRule, Standing, Working, RuleInv, RuleRequestsOK, WellFormed
<1>4. rules' \in [RuleIds -> RuleDocs \cup {NoRule}] /\ RulesUnique'
  <2>1. CASE rules' = rules
    BY <2>1, SameRules
  <2>2. CASE q.id \in Live /\ Free(new, q.id) /\ rules' = [rules EXCEPT ![q.id] = new]
    <3>1. rules[q.id] \in RuleDocs
      BY <1>3, <2>2, RulesLive DEF RuleInv
    <3>2. new \in RuleDocs
      BY <1>2, <1>3, <3>1, Merged
    <3> QED
      BY <1>3, <2>2, <3>2, RuleWritten DEF RuleInv, Free
  <2> QED
    BY <1>3, <2>1, <2>2
<1> QED
  BY <1>3, <1>4, CloseStep DEF RuleInv, RuleDocsOK

LEMMA RemoveRuleStep ==
    ASSUME RuleInv, NEW r \in RuleRequests, RemoveRule(r)
    PROVE  RuleInv'
<1>1. PICK d : d = rreq[r].id
  OBVIOUS
<1>2. /\ Working(r) /\ Close(r) /\ UNCHANGED <<ruleFlow, nodes, policies>> /\ d \in RuleIds
      /\ rules' = [rules EXCEPT ![d] = NoRule]
  BY <1>1 DEF RemoveRule, Standing, Working, RuleInv, RuleRequestsOK, WellFormed
<1>3. rules' = [i \in RuleIds |-> IF i \in {d} THEN NoRule ELSE rules[i]]
  BY <1>2 DEF RuleInv, RuleDocsOK
<1>4. rules' \in [RuleIds -> RuleDocs \cup {NoRule}] /\ RulesUnique'
  BY <1>3, RulesRemoved DEF RuleInv
<1> QED
  BY <1>2, <1>4, CloseStep DEF RuleInv, RuleDocsOK

-----------------------------------------------------------------------------
(* The edit of the flow                                                      *)

LEMMA RemoveStaleStep ==
    ASSUME RuleInv, NEW r \in RuleRequests, RemoveStale(r)
    PROVE  RuleInv'
<1>1. PICK q, n : q = rreq[r] /\ n = rreq'[r]
  OBVIOUS
<1>2. /\ Working(r) /\ UNCHANGED <<ruleFlow, nodes, policies>> /\ q.op = "edit" /\ q.at = "stale"
      /\ rules' = [i \in RuleIds |-> IF i \in q.ids THEN NoRule ELSE rules[i]]
      /\ rreq' = [rreq EXCEPT ![r].at = "insert", ![r].ids = {}]
  BY <1>1 DEF RemoveStale, Standing, Working
<1>3. /\ RuleRequestsOK' /\ \A p \in RuleRequests \ {r} : rreq'[p] = rreq[p]
      /\ n.at = "insert" /\ n.op = q.op /\ n.taken = q.taken /\ n.layout = q.layout
      /\ (n.alone => q.alone)
  <2>1. PICK none \in SUBSET RuleIds : rreq' = [rreq EXCEPT ![r].at = "insert", ![r].ids = none]
    BY <1>2
  <2> QED
    BY <1>1, <1>2, <2>1, Proceeding DEF RuleInv
<1>4. rules' \in [RuleIds -> RuleDocs \cup {NoRule}] /\ RulesUnique' /\ Live' = Live \ q.ids
  BY <1>2, RulesRemoved DEF RuleInv
<1>5. RuleDocsOK'
  BY <1>2, <1>4 DEF RuleInv, RuleDocsOK
<1>6. ASSUME q.alone PROVE Knows(n)'
  <2>1. /\ q.ids = {i \in Live : q.layout[rules[i].node] = NoModule}
        /\ q.taken = {<<rules[i].node, rules[i].key>> : i \in Live}
    BY <1>1, <1>2, <1>6 DEF RuleInv, AloneKnows, Knows, KnowsNodes
  <2>2. \A i \in Live' : i \in RuleIds /\ i \notin q.ids /\ rules'[i] = rules[i]
    BY <1>2, <1>4 DEF Live
  <2>3. \A i \in Live' : q.layout[rules'[i].node] # NoModule
    BY <1>4, <2>1, <2>2
  <2>4. ASSUME NEW nk \in q.taken, q.layout[nk[1]] # NoModule PROVE RulesAt(nk[1], nk[2])' # {}
    <3>1. PICK i \in Live : nk = <<rules[i].node, rules[i].key>>
      BY <2>1
    <3>2. i \in Live' /\ rules'[i] = rules[i]
      BY <1>4, <2>1, <2>2, <2>4, <3>1
    <3> QED
      BY <3>1, <3>2 DEF RulesAt
  <2> QED
    BY <1>2, <1>3, <2>3, <2>4 DEF Knows, KnowsRule, KnowsNodes
<1>7. Working(r)' /\ rreq'[r].alone => rreq[r].alone /\ Knows(rreq[r])'
  BY <1>1, <1>3, <1>6 DEF Knows, KnowsRule, KnowsNodes
<1> QED
  BY <1>2, <1>3, <1>4, <1>5, <1>7, StepKeepsKnows DEF RuleInv

\* As many free ids as there are rules to insert: each id gets one of them, and each of them
\* one id.
LEMMA IdsChosen ==
    ASSUME NEW L \in SUBSET RuleIds, NEW new \in SUBSET (Nodes \X Keys),
           Cardinality(L) = Cardinality(new)
    PROVE  /\ \E at \in [L -> new] : {at[i] : i \in DOMAIN at} = new
           /\ \A at \in [L -> new] : {at[i] : i \in DOMAIN at} = new =>
                /\ \A nk \in new : \E i \in L : at[i] = nk
                /\ \A i, j \in L : at[i] = at[j] => i = j
<1>1. IsFiniteSet(L) /\ IsFiniteSet(new)
  BY FS_Subset, FS_Product
<1>2. PICK b : b \in Bijection(L, new)
  BY <1>1, FS_SameCardinalityBij DEF ExistsBijection
<1>3. b \in [L -> new] /\ {b[i] : i \in DOMAIN b} = new
  <2>1. b \in [L -> new] /\ \A nk \in new : \E i \in L : b[i] = nk
    BY <1>2, Zenon DEF Bijection, Injection, Surjection
  <2>2. DOMAIN b = L /\ \A i \in L : b[i] \in new
    BY <2>1
  <2> QED
    BY <2>1, <2>2
<1>4. ASSUME NEW at \in [L -> new], {at[i] : i \in DOMAIN at} = new
      PROVE  /\ \A nk \in new : \E i \in L : at[i] = nk
             /\ \A i, j \in L : at[i] = at[j] => i = j
  <2>1. \A nk \in new : \E i \in L : at[i] = nk
    BY <1>4
  <2>2. at \in Surjection(L, new)
    BY <2>1 DEF Surjection
  <2>3. at \in Injection(L, new)
    BY <1>1, <2>2, FS_SurjSameCardinalityImpliesInj
  <2> QED
    BY <2>1, <2>3 DEF Injection, IsInjective
<1> QED
  BY <1>3, <1>4

\* Rules for pairs of a node and a key that have none.
LEMMA InsertedRules ==
    ASSUME RuleDocsOK, NEW layout \in Layouts, NEW L \in SUBSET RuleIds, NEW new,
           \A nk \in new : nk \in Nodes \X Keys /\ layout[nk[1]] # NoModule,
           NEW at \in [L -> new], NEW i \in L, NEW rule,
           rule = [node |-> at[i][1], module |-> layout[at[i][1]], key |-> at[i][2],
                   enabled |-> policies[<<layout[at[i][1]], at[i][2]>>].enabled]
    PROVE  rule \in RuleDocs /\ rule.node = at[i][1] /\ rule.key = at[i][2]
<1>1. PICK n \in Nodes, k \in Keys : at[i] = <<n, k>> /\ layout[n] # NoModule
  <2>1. at[i] \in new
    OBVIOUS
  <2> QED
    BY <2>1
<1>2. PICK m : m = layout[n] /\ m \in Modules
  BY <1>1 DEF Layouts
<1>3. PICK p, e : p = policies[<<m, k>>] /\ e = p.enabled
  OBVIOUS
<1>4. p \in Policies
  BY <1>2, <1>3 DEF RuleDocsOK
<1>5. e \in BOOLEAN
  <2> DEFINE no == FALSE
  <2>1. no \in BOOLEAN /\ NoPolicy = [required |-> no, enabled |-> no, active |-> no]
    BY DEF NoPolicy
  <2> HIDE DEF no
  <2>2. p = NoPolicy => e = no
    BY <1>3, <2>1
  <2>3. p \in [required : BOOLEAN, enabled : BOOLEAN, active : {TRUE}] => e \in BOOLEAN
    BY <1>3
  <2> QED
    BY <1>4, <2>1, <2>2, <2>3, Zenon DEF Policies
<1>6. rule = [node |-> n, module |-> m, key |-> k, enabled |-> e]
  BY <1>1, <1>2, <1>3
<1>7. /\ [node |-> n, module |-> m, key |-> k, enabled |-> e] \in RuleDocs
      /\ rule.node = n /\ rule.key = k
  BY <1>2, <1>5, <1>6 DEF RuleDocs
<1> QED
  BY <1>1, <1>6, <1>7

LEMMA InsertedUnique ==
    ASSUME RuleDocsOK, RulesUnique, NEW L \in SUBSET (RuleIds \ Live), NEW new,
           \A nk \in new : nk \in Nodes \X Keys /\ RulesAt(nk[1], nk[2]) = {},
           NEW at \in [L -> new], \A i, j \in L : at[i] = at[j] => i = j,
           DOMAIN rules' = RuleIds, rules' = [i \in RuleIds |-> rules'[i]],
           \A i \in RuleIds \ L : rules'[i] = rules[i],
           \A i \in L : /\ rules'[i] \in RuleDocs
                       /\ rules'[i].node = at[i][1] /\ rules'[i].key = at[i][2]
    PROVE  /\ rules' \in [RuleIds -> RuleDocs \cup {NoRule}] /\ RulesUnique'
           /\ Live' = Live \cup L /\ \A i \in Live : rules'[i] = rules[i]
<1>1. rules' \in [RuleIds -> RuleDocs \cup {NoRule}]
  BY DEF RuleDocsOK
<1>2. Live' = Live \cup L
  BY NoRuleIsNone DEF Live
<1>3. \A i \in Live : i \in RuleIds \ L /\ rules'[i] = rules[i]
  BY DEF Live
<1>4. \A i \in Live, j \in L : ~(rules'[i].node = rules'[j].node /\ rules'[i].key = rules'[j].key)
  <2> SUFFICES ASSUME NEW i \in Live, NEW j \in L,
                      rules'[i].node = rules'[j].node, rules'[i].key = rules'[j].key
               PROVE  FALSE
    OBVIOUS
  <2>1. at[j] \in new /\ RulesAt(at[j][1], at[j][2]) = {}
    OBVIOUS
  <2>2. rules[i].node = at[j][1] /\ rules[i].key = at[j][2]
    BY <1>3
  <2> QED
    BY <2>1, <2>2 DEF RulesAt
<1>5. \A i, j \in L : rules'[i].node = rules'[j].node /\ rules'[i].key = rules'[j].key => i = j
  <2> SUFFICES ASSUME NEW i \in L, NEW j \in L,
                      rules'[i].node = rules'[j].node, rules'[i].key = rules'[j].key
               PROVE  at[i] = at[j]
    OBVIOUS
  <2>1. at[i] \in new /\ at[j] \in new
    OBVIOUS
  <2>2. at[i] \in Nodes \X Keys /\ at[j] \in Nodes \X Keys
    BY <2>1
  <2>3. at[i][1] = at[j][1] /\ at[i][2] = at[j][2]
    OBVIOUS
  <2> QED
    BY <2>2, <2>3
<1>6. RulesUnique'
  <2> SUFFICES ASSUME NEW i \in Live', NEW j \in Live',
                      rules'[i].node = rules'[j].node, rules'[i].key = rules'[j].key
               PROVE  i = j
    BY DEF RulesUnique
  <2>1. CASE i \in Live /\ j \in Live
    BY <1>3, <2>1 DEF RulesUnique
  <2> QED
    BY <1>2, <1>4, <1>5, <2>1
<1> QED
  BY <1>1, <1>2, <1>3, <1>6

LEMMA InsertRulesStep ==
    ASSUME RuleInv, NEW r \in RuleRequests, InsertRules(r)
    PROVE  RuleInv'
<1>1. PICK q : q = rreq[r]
  OBVIOUS
<1>2. PICK new : new = {nk \in Wanted(q) : RulesAt(nk[1], nk[2]) = {}}
  OBVIOUS
<1>3. PICK L : L = Least(Cardinality(new))
  OBVIOUS
<1>4. PICK at : at = CHOOSE f \in [L -> new] : {f[i] : i \in DOMAIN f} = new
  OBVIOUS
<1>5. /\ Working(r) /\ UNCHANGED <<ruleFlow, nodes, policies>> /\ q.op = "edit" /\ q.at = "insert"
      /\ Cardinality(L) = Cardinality(new)
      /\ rules' = [i \in RuleIds |->
                     IF i \notin DOMAIN at THEN rules[i]
                     ELSE [node |-> at[i][1], module |-> q.layout[at[i][1]], key |-> at[i][2],
                           enabled |-> policies[<<q.layout[at[i][1]], at[i][2]>>].enabled]]
      /\ IF new = Wanted(q) THEN Move(r, "save") ELSE Close(r)
  BY <1>1, <1>2, <1>3, <1>4 DEF InsertRules, Standing, Working
<1>6. q \in RuleRequest /\ q.layout \in Layouts /\ q.ids \in SUBSET RuleIds
  BY <1>1 DEF RuleInv, RuleRequestsOK, RuleRequest
<1>7. /\ L \in SUBSET (RuleIds \ Live) /\ new \in SUBSET (Nodes \X Keys)
      /\ \A nk \in new : /\ nk \in Nodes \X Keys /\ q.layout[nk[1]] # NoModule
                         /\ RulesAt(nk[1], nk[2]) = {}
  BY <1>2, <1>3 DEF Least, FreshIds, Wanted
<1>8. /\ at \in [L -> new] /\ \A nk \in new : \E i \in L : at[i] = nk
      /\ \A i, j \in L : at[i] = at[j] => i = j
  <2>1. /\ L \in SUBSET RuleIds /\ new \in SUBSET (Nodes \X Keys)
        /\ Cardinality(L) = Cardinality(new)
    BY <1>5, <1>7
  <2>2. \E f \in [L -> new] : {f[i] : i \in DOMAIN f} = new
    BY <2>1, IdsChosen, Zenon
  <2>3. at \in [L -> new] /\ {at[i] : i \in DOMAIN at} = new
    BY <1>4, <2>2
  <2> QED
    <3>1. \A f \in [L -> new] : {f[i] : i \in DOMAIN f} = new =>
            /\ \A nk \in new : \E i \in L : f[i] = nk
            /\ \A i, j \in L : f[i] = f[j] => i = j
      BY <2>1, IdsChosen, Zenon
    <3> QED
      BY <2>3, <3>1, Zenon
<1>9. /\ rules' \in [RuleIds -> RuleDocs \cup {NoRule}] /\ RulesUnique'
      /\ Live' = Live \cup L /\ \A i \in Live : rules'[i] = rules[i]
      /\ \A i \in L : rules'[i].node = at[i][1] /\ rules'[i].key = at[i][2]
  <2>1. DOMAIN at = L /\ DOMAIN rules' = RuleIds /\ rules' = [i \in RuleIds |-> rules'[i]]
    BY <1>5, <1>8
  <2>2. \A i \in RuleIds \ L : rules'[i] = rules[i]
    BY <1>5, <2>1
  <2>3. ASSUME NEW i \in L
        PROVE  /\ rules'[i] \in RuleDocs
               /\ rules'[i].node = at[i][1] /\ rules'[i].key = at[i][2]
    <3>1. PICK rule : rule = rules'[i]
      OBVIOUS
    <3>2. rule = [node |-> at[i][1], module |-> q.layout[at[i][1]], key |-> at[i][2],
                  enabled |-> policies[<<q.layout[at[i][1]], at[i][2]>>].enabled]
      BY <1>5, <1>7, <2>1, <3>1
    <3>3. L \in SUBSET RuleIds /\ \A nk \in new : nk \in Nodes \X Keys /\ q.layout[nk[1]] # NoModule
      BY <1>7
    <3>4. rule \in RuleDocs /\ rule.node = at[i][1] /\ rule.key = at[i][2]
      <4>1. RuleDocsOK /\ q.layout \in Layouts /\ at \in [L -> new] /\ i \in L
        BY <1>6, <1>8 DEF RuleInv
      <4> QED
        BY <3>2, <3>3, <4>1, InsertedRules, Zenon
    <3> QED
      BY <3>1, <3>4
  <2> QED
    BY <1>7, <1>8, <2>1, <2>2, <2>3, InsertedUnique DEF RuleInv
<1>10. CASE Close(r)
  BY <1>5, <1>9, <1>10, CloseStep DEF RuleInv, RuleDocsOK
<1>11. CASE ~Close(r)
  <2>1. new = Wanted(q) /\ Move(r, "save")
    BY <1>5, <1>11
  <2>2. PICK n : n = rreq'[r]
    OBVIOUS
  <2>3. /\ RuleRequestsOK' /\ \A p \in RuleRequests \ {r} : rreq'[p] = rreq[p]
        /\ n.at = "save" /\ n.op = q.op /\ n.layout = q.layout /\ (n.alone => q.alone)
    BY <1>1, <1>5, <1>6, <2>1, <2>2, Proceeding DEF RuleInv
  <2>4. RuleDocsOK'
    BY <1>5, <1>9 DEF RuleInv, RuleDocsOK
  <2>5. ASSUME q.alone PROVE Knows(n)'
    <3>1. /\ \A i \in Live : q.layout[rules[i].node] # NoModule
          /\ \A nk \in q.taken : q.layout[nk[1]] # NoModule => RulesAt(nk[1], nk[2]) # {}
      BY <1>1, <1>5, <2>5 DEF RuleInv, AloneKnows, Knows, KnowsNodes
    <3>2. \A i \in Live' : q.layout[rules'[i].node] # NoModule
      <4>1. ASSUME NEW i \in L PROVE q.layout[rules'[i].node] # NoModule
        <5>1. at[i] \in new
          BY <1>8
        <5> QED
          BY <1>7, <1>9, <5>1
      <4> QED
        BY <1>9, <3>1, <4>1
    <3>3. ASSUME NEW m \in Nodes, NEW k \in Keys, q.layout[m] # NoModule,
                 policies[<<q.layout[m], k>>] # NoPolicy
          PROVE  RulesAt(m, k)' # {}
      <4>1. CASE <<m, k>> \in q.taken
        <5>1. PICK i \in Live : rules[i].node = m /\ rules[i].key = k
          BY <3>1, <3>3, <4>1 DEF RulesAt
        <5> QED
          BY <1>9, <5>1 DEF RulesAt
      <4>2. CASE <<m, k>> \notin q.taken
        <5>1. <<m, k>> \in new
          BY <2>1, <3>3, <4>2 DEF Wanted
        <5>2. PICK i \in L : at[i] = <<m, k>>
          BY <1>8, <5>1
        <5> QED
          BY <1>9, <5>2 DEF RulesAt
      <4> QED
        BY <4>1, <4>2
    <3> QED
      BY <1>5, <2>3, <3>2, <3>3 DEF Knows, KnowsRule, KnowsNodes
  <2>6. Working(r)' /\ rreq'[r].alone => rreq[r].alone /\ Knows(rreq[r])'
    BY <1>1, <2>2, <2>3, <2>5 DEF Knows, KnowsRule, KnowsNodes
  <2> QED
    BY <1>5, <1>9, <2>3, <2>4, <2>6, StepKeepsKnows DEF RuleInv
<1> QED
  BY <1>10, <1>11

LEMMA AbandonStep ==
    ASSUME RuleInv, NEW r \in RuleRequests, Abandon(r)
    PROVE  RuleInv'
<1>1. /\ Working(r) /\ Close(r) /\ UNCHANGED <<ruleFlow, rules, policies>> /\ nodes' \in Layouts
  BY DEF Abandon, Working, RuleInv, RuleDocsOK
<1> QED
  BY <1>1, SameRules, CloseStep

LEMMA SaveNodesStep ==
    ASSUME RuleInv, NEW r \in RuleRequests, SaveNodes(r)
    PROVE  RuleInv'
<1>1. PICK layout : layout = rreq[r].layout
  OBVIOUS
<1>2. /\ Working(r) /\ Close(r) /\ UNCHANGED <<ruleFlow, rules, policies>>
      /\ nodes' = IF ruleFlow = "saved" THEN layout ELSE nodes
  BY <1>1 DEF SaveNodes, Standing, Working
<1>3. layout \in Layouts
  BY <1>1 DEF RuleInv, RuleRequestsOK, RuleRequest
<1>4. nodes' \in Layouts
  BY <1>2, <1>3 DEF RuleInv, RuleDocsOK
<1> QED
  BY <1>2, <1>4, SameRules, CloseStep

-----------------------------------------------------------------------------
(* The policies and the flow's deletion: no request at work is alone then    *)

LEMMA Disturbed ==
    ASSUME RuleRequestsOK,
           rreq' = [r \in RuleRequests |-> [rreq[r] EXCEPT !.alone = rreq[r].at = "idle"]]
    PROVE  RuleRequestsOK' /\ \A r \in RuleRequests : ~(Working(r)' /\ rreq'[r].alone)
<1>1. ASSUME NEW r \in RuleRequests
      PROVE  /\ rreq'[r] \in RuleRequest /\ WellFormed(rreq'[r])
             /\ ~(Working(r)' /\ rreq'[r].alone)
  <2>1. PICK q \in RuleRequest : q = rreq[r] /\ WellFormed(q)
    BY DEF RuleRequestsOK
  <2> DEFINE a == q.at = "idle"
  <2>2. a \in BOOLEAN /\ (q.at # "idle" => ~a)
    OBVIOUS
  <2>3. rreq'[r] = [q EXCEPT !.alone = a]
    BY <2>1
  <2> HIDE DEF a
  <2>4. PICK n : n = rreq'[r]
    OBVIOUS
  <2>5. n \in RuleRequest /\ Alike(n, q) /\ n.alone = a
    BY <2>1, <2>2, <2>3, <2>4, Changed
  <2>6. WellFormed(n)
    BY <2>1, <2>5, AlikeWellFormed
  <2>7. n.at # "idle" => ~a
    BY <2>2, <2>5 DEF Alike
  <2>8. ~(n.at # "idle" /\ n.alone)
    BY <2>5, <2>7, Zenon
  <2>9. ~(Working(r)' /\ rreq'[r].alone)
    BY <2>4, <2>8, Zenon DEF Working
  <2> QED
    BY <2>4, <2>5, <2>6, <2>9
<1> QED
  BY <1>1 DEF RuleRequestsOK, WellFormed

LEMMA DisturbedStep ==
    ASSUME RuleInv, UNCHANGED <<nodes, rules>>,
           rreq' = [r \in RuleRequests |-> [rreq[r] EXCEPT !.alone = rreq[r].at = "idle"]],
           ruleFlow' \in {"saved", "gone", "clean"}, policies' \in [Modules \X Keys -> Policies]
    PROVE  RuleInv'
<1>1. RuleRequestsOK' /\ \A r \in RuleRequests : ~(Working(r)' /\ rreq'[r].alone)
  BY Disturbed DEF RuleInv
<1>2. AloneKnows'
  BY <1>1 DEF AloneKnows
<1>3. RuleDocsOK' /\ RulesUnique'
  BY DEF RuleInv, RuleDocsOK, RulesUnique, Live
<1> QED
  BY <1>1, <1>2, <1>3 DEF RuleInv

LEMMA CleanupStep ==
    ASSUME RuleInv, CleanupFlow
    PROVE  RuleInv'
<1>1. /\ ruleFlow = "gone" /\ ruleFlow' = "clean" /\ UNCHANGED <<nodes, policies, rreq>>
      /\ rules' = [i \in RuleIds |-> IF i \in RuleIds THEN NoRule ELSE rules[i]]
  BY DEF CleanupFlow
<1>2. rules' \in [RuleIds -> RuleDocs \cup {NoRule}] /\ RulesUnique'
  BY <1>1, RulesRemoved DEF RuleInv
<1>3. \A r \in RuleRequests : ~(Working(r) /\ rreq[r].alone)
  BY <1>1, Zenon DEF RuleInv, AloneKnows
<1>4. AloneKnows'
  BY <1>1, <1>3, Zenon DEF AloneKnows, Working
<1>5. RuleDocsOK' /\ RuleRequestsOK'
  BY <1>1, <1>2 DEF RuleInv, RuleDocsOK, RuleRequestsOK, WellFormed
<1> QED
  BY <1>2, <1>4, <1>5 DEF RuleInv

LEMMA StutterStep ==
    ASSUME RuleInv, UNCHANGED ruleVars PROVE RuleInv'
BY DEF RuleInv, ruleVars, RuleDocsOK, RuleRequestsOK, WellFormed, RulesUnique, Live, AloneKnows,
       Working, Knows, KnowsRule, KnowsNodes, RequiredNow, RulesAt

LEMMA RuleInitial == RulesInit => RuleInv
<1> SUFFICES ASSUME RulesInit PROVE RuleInv
  OBVIOUS
<1>1. ruleFlow = "saved" /\ nodes \in Layouts /\ rules \in [RuleIds -> RuleDocs \cup {NoRule}]
  BY DEF RulesInit, Layouts
<1>2. policies \in [Modules \X Keys -> Policies]
  <2>1. \A mk \in Modules \X Keys :
          [required |-> mk[2] = RequiredKey, enabled |-> TRUE, active |-> TRUE] \in Policies
    BY DEF Policies
  <2> QED
    BY <2>1 DEF RulesInit
<1>3. RuleRequestsOK /\ \A r \in RuleRequests : ~Working(r)
  BY RestingRequest DEF RulesInit, RuleRequestsOK, Working
<1>4. Live = {}
  BY DEF RulesInit, Live
<1> QED
  BY <1>1, <1>2, <1>3, <1>4 DEF RuleInv, RuleDocsOK, RulesUnique, AloneKnows

LEMMA RuleStep == RuleInv /\ [RulesNext]_ruleVars => RuleInv'
<1> SUFFICES ASSUME RuleInv, [RulesNext]_ruleVars PROVE RuleInv'
  OBVIOUS
<1>1. ASSUME NEW r \in RuleRequests, NEW n \in Nodes, NEW k \in Keys, NEW e \in BOOLEAN,
             CreateRule(r, n, k, e) \/ \E i \in RuleIds : UpdateRule(r, i, n, k, e)
      PROVE  RuleInv'
  BY <1>1, WriteOpens
<1>2. ASSUME NEW r \in RuleRequests, \E i \in RuleIds : DeleteRule(r, i) PROVE RuleInv'
  BY <1>2, DeleteOpens
<1>3. ASSUME NEW r \in RuleRequests, \E layout \in Layouts : EditFlow(r, layout) PROVE RuleInv'
  BY <1>3, EditOpens
<1>4. ASSUME NEW r \in RuleRequests,
             \/ ReadPolicy(r) \/ WriteNewRule(r) \/ WriteRule(r) \/ RemoveRule(r)
             \/ RemoveStale(r) \/ InsertRules(r) \/ SaveNodes(r) \/ Abandon(r)
      PROVE  RuleInv'
  BY <1>4, ReadPolicyStep, NewRuleStep, WriteRuleStep, RemoveRuleStep, RemoveStaleStep,
     InsertRulesStep, SaveNodesStep, AbandonStep
<1>5. ASSUME NEW m \in Modules, NEW k \in Keys, NEW p \in Policies, SetPolicy(m, k, p)
      PROVE  RuleInv'
  <2>1. policies' \in [Modules \X Keys -> Policies]
    BY <1>5 DEF SetPolicy, RuleInv, RuleDocsOK
  <2> QED
    BY <1>5, <2>1, DisturbedStep DEF SetPolicy, RuleInv, RuleDocsOK
<1>6. CASE DeleteRuleFlow
  BY <1>6, DisturbedStep DEF DeleteRuleFlow, RuleInv, RuleDocsOK
<1>7. CASE CleanupFlow
  BY <1>7, CleanupStep
<1>8. CASE UNCHANGED ruleVars
  BY <1>8, StutterStep
<1> QED
  BY <1>1, <1>2, <1>3, <1>4, <1>5, <1>6, <1>7, <1>8 DEF RulesNext

-----------------------------------------------------------------------------
(* How a request that is alone ends                                          *)

\* A request that stops working took a step of its own.
LEMMA EndsByOwnStep ==
    ASSUME RuleInv, [RulesNext]_ruleVars, NEW r \in RuleRequests, Working(r), ~Working(r)'
    PROVE  ReadPolicy(r) \/ WriteNewRule(r) \/ WriteRule(r) \/ RemoveRule(r) \/ RemoveStale(r)
           \/ InsertRules(r) \/ SaveNodes(r) \/ Abandon(r)
<1> SUFFICES ASSUME ~(ReadPolicy(r) \/ WriteNewRule(r) \/ WriteRule(r) \/ RemoveRule(r)
                      \/ RemoveStale(r) \/ InsertRules(r) \/ SaveNodes(r) \/ Abandon(r))
             PROVE  FALSE
  OBVIOUS
<1>1. ASSUME NEW p \in RuleRequests, NEW q, Open(p, q) PROVE FALSE
  <2>1. rreq[p].at = "idle" /\ p # r
    BY <1>1 DEF Open, Working
  <2>2. rreq'[r] = [rreq[r] EXCEPT !.alone = FALSE] \/ rreq'[r] = rreq[r]
    BY <1>1, <2>1 DEF Open
  <2>3. [rreq[r] EXCEPT !.alone = FALSE].at = rreq[r].at
    BY Zenon DEF RuleInv, RuleRequestsOK, RuleRequest
  <2> QED
    BY <2>2, <2>3 DEF Working
<1>2. ASSUME NEW p \in RuleRequests, p # r,
             \/ ReadPolicy(p) \/ WriteNewRule(p) \/ WriteRule(p) \/ RemoveRule(p)
             \/ RemoveStale(p) \/ InsertRules(p) \/ SaveNodes(p) \/ Abandon(p)
      PROVE  FALSE
  <2>1. rreq'[r] = rreq[r]
    BY <1>2 DEF ReadPolicy, WriteNewRule, WriteRule, RemoveRule, RemoveStale, InsertRules, SaveNodes,
       Abandon, Close, Move, RuleInv, RuleRequestsOK
  <2> QED
    BY <2>1 DEF Working
<1>3. ASSUME rreq' = [p \in RuleRequests |-> [rreq[p] EXCEPT !.alone = rreq[p].at = "idle"]]
      PROVE  FALSE
  <2>1. PICK q \in RuleRequest : q = rreq[r]
    BY DEF RuleInv, RuleRequestsOK
  <2> DEFINE a == q.at = "idle"
  <2>2. rreq'[r] = [q EXCEPT !.alone = a] /\ a \in BOOLEAN
    BY <1>3, <2>1
  <2> HIDE DEF a
  <2>3. rreq'[r].at = q.at
    BY <2>1, <2>2, SolitudeSet
  <2> QED
    BY <2>1, <2>3 DEF Working
<1>4. CASE \E p \in RuleRequests :
             \/ \E n \in Nodes, k \in Keys, e \in BOOLEAN :
                  CreateRule(p, n, k, e) \/ \E i \in RuleIds : UpdateRule(p, i, n, k, e)
             \/ \E i \in RuleIds : DeleteRule(p, i)
             \/ \E layout \in Layouts : EditFlow(p, layout)
  BY <1>1, <1>4 DEF CreateRule, UpdateRule, DeleteRule, EditFlow
<1>5. CASE \E p \in RuleRequests :
             \/ ReadPolicy(p) \/ WriteNewRule(p) \/ WriteRule(p) \/ RemoveRule(p)
             \/ RemoveStale(p) \/ InsertRules(p) \/ SaveNodes(p) \/ Abandon(p)
  BY <1>2, <1>5
<1>6. CASE \E m \in Modules, k \in Keys, p \in Policies : SetPolicy(m, k, p)
  BY <1>3, <1>6 DEF SetPolicy
<1>7. CASE DeleteRuleFlow
  BY <1>3, <1>7 DEF DeleteRuleFlow
<1>8. CASE CleanupFlow \/ UNCHANGED ruleVars
  BY <1>8 DEF CleanupFlow, ruleVars, Working
<1> QED
  BY <1>4, <1>5, <1>6, <1>7, <1>8 DEF RulesNext

\* What the saved edit of a request that is alone leaves.
LEMMA SavedEdit ==
    ASSUME RuleInv, NEW r \in RuleRequests, rreq[r].alone, SaveNodes(r)
    PROVE  /\ \A i \in Live : nodes'[rules[i].node] # NoModule
           /\ \A n \in Nodes, k \in Keys :
                nodes'[n] # NoModule /\ policies[<<nodes'[n], k>>] # NoPolicy
                  => Cardinality(RulesAt(n, k)) = 1
<1>1. rreq[r].op = "edit" /\ rreq[r].at = "save" /\ Working(r)
  BY DEF SaveNodes, Standing, Working
<1>2. ruleFlow = "saved" /\ KnowsNodes(rreq[r])
  BY <1>1 DEF RuleInv, AloneKnows, Knows
<1>3. nodes' = rreq[r].layout
  BY <1>1, <1>2 DEF SaveNodes
<1>4. \A i \in Live : nodes'[rules[i].node] # NoModule
  BY <1>1, <1>2, <1>3 DEF KnowsNodes
<1>5. ASSUME NEW n \in Nodes, NEW k \in Keys,
             nodes'[n] # NoModule, policies[<<nodes'[n], k>>] # NoPolicy
      PROVE  Cardinality(RulesAt(n, k)) = 1
  <2>1. RulesAt(n, k) # {}
    BY <1>1, <1>2, <1>3, <1>5 DEF KnowsNodes
  <2>2. PICK i \in RulesAt(n, k) : TRUE
    BY <2>1
  <2>3. RulesAt(n, k) = {i}
    BY <2>2 DEF RulesAt, RuleInv, RulesUnique
  <2> QED
    BY <2>3, FS_Singleton
<1> QED
  BY <1>4, <1>5

\* What the write of a request that is alone leaves.
LEMMA WrittenRule ==
    ASSUME RuleInv, [RulesNext]_ruleVars, NEW r \in RuleRequests, rreq[r].at = "write",
           rreq[r].alone, rreq'[r].at = "idle", NEW i \in RuleIds, rules'[i] # rules[i]
    PROVE  IF rules'[i] = NoRule THEN ~RequiredNow(rules[i])
           ELSE RequiredNow(rules'[i]) => rules'[i].enabled
<1>1. PICK q : q = rreq[r]
  OBVIOUS
<1>2. /\ Working(r) /\ ~Working(r)' /\ KnowsRule(q) /\ q.at = "write" /\ q.rule \in RuleDocs
  BY <1>1 DEF Working, RuleInv, AloneKnows, Knows, RuleRequestsOK, WellFormed
<1>3. WriteNewRule(r) \/ WriteRule(r) \/ RemoveRule(r)
  BY <1>2, EndsByOwnStep DEF ReadPolicy, RemoveStale, InsertRules, SaveNodes, Abandon, Standing
<1>4. CASE WriteNewRule(r)
  <2>1. q.op = "create" /\ \E j \in RuleIds : rules' = [rules EXCEPT ![j] = q.rule]
    BY <1>1, <1>4 DEF WriteNewRule, Standing, Least, FreshIds
  <2>2. rules'[i] = q.rule
    BY <2>1 DEF RuleInv, RuleDocsOK
  <2> QED
    BY <1>2, <2>1, <2>2, NoRuleIsNone DEF KnowsRule, RequiredNow
<1>5. CASE WriteRule(r)
  <2>1. PICK new : new = [f \in DOMAIN q.rule |->
                            IF q.rule[f] # q.seen[f] THEN q.rule[f] ELSE rules[q.id][f]]
    OBVIOUS
  <2>2. /\ q.op = "update" /\ q.id \in Live /\ rules' = [rules EXCEPT ![q.id] = new]
    BY <1>1, <1>5, <2>1 DEF WriteRule, Standing
  <2>3. rules[q.id] = q.seen /\ q.seen \in RuleDocs
    BY <1>2, <2>2 DEF KnowsRule
  <2>4. new = q.rule
    BY <1>2, <2>1, <2>3, Merged
  <2>5. rules'[i] = q.rule
    BY <2>2, <2>4 DEF RuleInv, RuleDocsOK
  <2> QED
    BY <1>2, <2>2, <2>5, NoRuleIsNone DEF KnowsRule, RequiredNow
<1>6. CASE RemoveRule(r)
  <2>1. q.op = "delete" /\ rules' = [rules EXCEPT ![q.id] = NoRule]
    BY <1>1, <1>6 DEF RemoveRule, Standing
  <2>2. i = q.id /\ rules'[i] = NoRule /\ rules[i] = q.rule
    BY <1>2, <2>1 DEF RuleInv, RuleDocsOK, KnowsRule
  <2> QED
    BY <1>2, <2>1, <2>2 DEF KnowsRule, RequiredNow
<1> QED
  BY <1>3, <1>4, <1>5, <1>6

\* An edit of the flow that reaches its end with no other request and no change of a policy
\* beside it (notifications.service.ts:1362) saves a layout in which every rule has its node,
\* and every active policy of a node's module exactly one rule.
THEOREM EditsAloneCoverNodes == RulesSpec => EditAloneCoversNodes
<1>1. RuleInv
        => [\A r \in RuleRequests :
              rreq[r].alone /\ SaveNodes(r) =>
                /\ \A i \in Live : nodes'[rules[i].node] # NoModule
                /\ \A n \in Nodes, k \in Keys :
                     nodes'[n] # NoModule /\ policies[<<nodes'[n], k>>] # NoPolicy
                       => Cardinality(RulesAt(n, k)) = 1]_ruleVars
  BY SavedEdit
<1> QED
  BY <1>1, RuleInitial, RuleStep, PTL DEF RulesSpec, EditAloneCoversNodes

\* A request on a rule (notifications.service.ts:868) that ends with no other request and no
\* change of a policy beside it neither deletes a rule that a policy requires nor leaves one
\* disabled: what it read of the rule and of its policy still holds when it writes.
THEOREM WritersAloneRespectPolicies == RulesSpec => AloneRespectsPolicy
<1>1. RuleInv /\ [RulesNext]_ruleVars
        => [\A r \in RuleRequests :
              rreq[r].at = "write" /\ rreq[r].alone /\ rreq'[r].at = "idle" =>
                \A i \in RuleIds : rules'[i] # rules[i] =>
                  IF rules'[i] = NoRule THEN ~RequiredNow(rules[i])
                  ELSE RequiredNow(rules'[i]) => rules'[i].enabled]_ruleVars
  BY WrittenRule
<1> QED
  BY <1>1, RuleInitial, RuleStep, PTL DEF RulesSpec, AloneRespectsPolicy

=============================================================================
