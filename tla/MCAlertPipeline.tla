---------------------------- MODULE MCAlertPipeline ----------------------------
(* Small instances of AlertPipeline for TLC, in two regions: two firers with  *)
(* one resolver and the user's answers; two resolvers of one incident.       *)
EXTENDS AlertPipeline, TLC

CONSTANTS r1, r2, d1, d2, f1, f2

\* Concurrent firers are interchangeable, and so are concurrent resolvers.
Symmetry == Permutations(Firers) \cup Permutations(Resolvers)

BusyFirers == {f \in Firers : firer[f].pc # "idle"}
BusyResolvers == {s \in Resolvers : resolver[s].pc # "idle"}

\* Nobody has answered.
Unanswered ==
    /\ \A h \in Handlers : handler[h].pc = "idle"
    /\ \A n \in 1 .. noticeCount : ~notice[n].received /\ ~notice[n].handled
    /\ unfinished = {}

\* Two firers, one resolver, two notifications. Firers and resolvers are cut off
\* where nobody answers, the user's answers where one firer works.
RacingFirings ==
    /\ Cardinality(BusyResolvers) <= 1 /\ noticeCount <= 2
    /\ \/ cutOff = {} /\ unfinished = {}
       \/ Cardinality(cutOff) = 1 /\ Unanswered /\ incidentCount <= 1
       \/ cutOff = {} /\ Cardinality(BusyFirers) <= 1 /\ BusyResolvers = {}

RacingResolutions ==
    Cardinality(BusyFirers) <= 1 /\ incidentCount <= 1 /\ Unanswered

Explored == owned /\ failed = {} /\ (RacingFirings \/ RacingResolutions)
================================================================================
