----------------------------- MODULE MCAlertSerial -----------------------------
(* AlertPipeline with one firing in flight at a time, in two regions: one     *)
(* rule over more time, with the user's answers and a restart; two rules and  *)
(* a flow that is relinked.                                                   *)
EXTENDS AlertPipeline

CONSTANT d1

\* The rule of the gas sensor, on one device; after a restart nobody answers
OneRule ==
    /\ flowDevice = d1
    /\ incidentCount <= 2
    /\ restarts = 0 \/ \A h \in Handlers : handler[h].pc = "idle"
    /\ \A r \in Rules \ GasRules : trigger[r] = NoTrigger
    /\ \A i \in 1 .. incidentCount : incident[i].rule \in GasRules /\ incident[i].device = d1
    /\ \A f \in Firers :
         /\ firer[f].todo \subseteq GasRules
         /\ firer[f].pc \in {"idle", "loop"} \/ firer[f].rule \in GasRules
    /\ \A s \in Resolvers : resolver[s].pc = "idle" \/ resolver[s].rule \in GasRules

\* Time stands still, nobody answers and nothing restarts
Relinked ==
    /\ clock = 0 /\ restarts = 0
    /\ \A h \in Handlers : handler[h].pc = "idle"
    /\ \A n \in 1 .. noticeCount : ~notice[n].handled

Undisturbed == owned /\ failed = {} /\ cutOff = {} /\ unfinished = {}

\* At most one handler left something undone, where nobody answers, and the flow is
\* deleted, if at all, early on.
OneFailure ==
    /\ Cardinality(failed) + Cardinality(cutOff) <= 1 /\ unfinished = {}
    /\ (failed = {} /\ cutOff = {}) \/ \A h \in Handlers : handler[h].pc = "idle"
    /\ owned \/ (clock = 0 /\ noticeCount = 0)

Explored == (OneRule /\ OneFailure) \/ (Relinked /\ Undisturbed)
================================================================================
