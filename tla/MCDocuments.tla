------------------------------- MODULE MCDocuments -------------------------------
(* Small instances of the two modules on the documents of a flow.  They share *)
(* no state: a behaviour is one of one of them, in one of two `part`s.        *)
EXTENDS FlowLife, AlertRules, TLC

VARIABLE part

documentVars == <<lifeVars, ruleVars, part>>

OneDevice == CHOOSE d \in Devices : TRUE
Talking == CHOOSE d \in Devices \ {OneDevice} : TRUE
OneNode == CHOOSE n \in Nodes : TRUE
OneModule == CHOOSE m \in Modules : TRUE

DocumentsInit ==
    /\ LifeInit /\ RulesInit
    /\ part \in {"requests", "messages", "rules", "policies"}

\* Two requests without messages of the device
Requests == LifeNext /\ UNCHANGED <<linked, lookup>>

\* One request over two of the devices, one of which has two messages at a time
Messages ==
    /\ LifeNext
    /\ Cardinality({r \in FlowRequests : req'[r].at # "idle"}) <= 1
    /\ link'[OneDevice] = NoFlow /\ \A r \in FlowRequests : req'[r].device # OneDevice
    /\ \A d \in Devices \ {Talking} : linked'[d] = NoFlow
    /\ \A m \in FlowMessages : lookup'[m].device \in {Talking, "none"}

\* Two requests over the rules of one node, of one module, with fixed policies
Rules ==
    /\ RulesNext /\ UNCHANGED changes
    /\ \A r \in RuleRequests, n \in Nodes :
         rreq'[r].layout[n] \in IF n = OneNode THEN {OneModule, NoModule} ELSE {NoModule}

\* One request over two nodes, one of which may have either module, with changes of the
\* policy of one reading
PolicyChanges ==
    /\ RulesNext /\ UNCHANGED ruleFlow
    /\ Cardinality({r \in RuleRequests : rreq'[r].at # "idle"}) <= 1
    /\ \A r \in RuleRequests, n \in Nodes :
         rreq'[r].layout[n] \in IF n = OneNode THEN {OneModule, NoModule} ELSE Modules \cup {NoModule}
    /\ \A mk \in DOMAIN policies \ {<<OneModule, RequiredKey>>} : policies'[mk] = policies[mk]

DocumentsNext ==
    /\ UNCHANGED part
    /\ \/ part = "requests" /\ Requests /\ UNCHANGED ruleVars
       \/ part = "messages" /\ Messages /\ UNCHANGED ruleVars
       \/ part = "rules" /\ Rules /\ UNCHANGED lifeVars
       \/ part = "policies" /\ PolicyChanges /\ UNCHANGED lifeVars

DocumentsSpec == DocumentsInit /\ [][DocumentsNext]_documentVars

\* Requests are interchangeable, and so are messages.
DocumentSymmetry == Permutations(FlowRequests) \cup Permutations(FlowMessages)

==================================================================================
