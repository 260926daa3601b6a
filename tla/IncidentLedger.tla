----------------------------- MODULE IncidentLedger -----------------------------
(***************************************************************************)
(* What the alert pipeline promises to whoever reads its two collections,  *)
(* whatever interleaving of evaluations, resolutions, acknowledgements,    *)
(* receipts and restarts produced them. An incident is opened once, closed *)
(* at most once and keeps the rule and device it was opened for; an        *)
(* acknowledgement is never taken back and follows a handled notification; *)
(* a notification is appended for an incident that exists, a resolution    *)
(* only for one that is closed; it moves from pending to received to       *)
(* handled and never back, and a handled one counts as received.           *)
(***************************************************************************)
CONSTANTS Rules, Devices, IncidentIds, NoticeIds

VARIABLES
    incident,  \* [IncidentIds -> [state, rule, device, acked]]
    notice     \* [NoticeIds -> [type, incident, status]]

vars == <<incident, notice>>

Init ==
    /\ \A i \in IncidentIds : incident[i].state = "none" /\ ~incident[i].acked
    /\ \A n \in NoticeIds : notice[n].type = "none" /\ notice[n].status = "pending"

Open(i, r, d) ==
    /\ incident[i].state = "none"
    /\ incident' = [incident EXCEPT
            ![i] = [state |-> "open", rule |-> r, device |-> d, acked |-> FALSE]]
    /\ UNCHANGED notice

Close(i) ==
    /\ incident[i].state = "open"
    /\ incident' = [incident EXCEPT ![i].state = "closed"]
    /\ UNCHANGED notice

Acknowledge(i) ==
    /\ \E n \in NoticeIds : notice[n].incident = i /\ notice[n].status = "handled"
    /\ incident' = [incident EXCEPT ![i].acked = TRUE]
    /\ UNCHANGED notice

Notify(n, i, type) ==
    /\ notice[n].type = "none"
    /\ incident[i].state # "none"
    /\ type = "resolved" => incident[i].state = "closed"
    /\ notice' = [notice EXCEPT
            ![n] = [type |-> type, incident |-> i, status |-> "pending"]]
    /\ UNCHANGED incident

Receive(n) ==
    /\ notice[n].type # "none"
    /\ notice[n].status = "pending"
    /\ notice' = [notice EXCEPT ![n].status = "received"]
    /\ UNCHANGED incident

\* One notification, or several of the same incident at once.
Handle(i, S) ==
    /\ \A n \in S : notice[n].type # "none" /\ notice[n].incident = i
    /\ notice' = [n \in NoticeIds |->
                    IF n \in S THEN [notice[n] EXCEPT !.status = "handled"] ELSE notice[n]]
    /\ UNCHANGED incident

Next ==
    \/ \E i \in IncidentIds, r \in Rules, d \in Devices : Open(i, r, d)
    \/ \E i \in IncidentIds : Close(i) \/ Acknowledge(i)
    \/ \E n \in NoticeIds, i \in IncidentIds, type \in {"alert", "resolved"} :
            Notify(n, i, type)
    \/ \E n \in NoticeIds : Receive(n)
    \/ \E i \in IncidentIds, S \in SUBSET NoticeIds : Handle(i, S)

Spec == Init /\ [][Next]_vars
================================================================================
