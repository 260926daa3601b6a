------------------------------- MODULE AlertRules -------------------------------
(* The alert rules of one flow: requests create, change and delete them, an   *)
(* edit of the flow synchronises them with its nodes, and policies require    *)
(* some of them.  Operators and numbers of conditions are in AlertConditions. *)
EXTENDS Naturals, FiniteSets

CONSTANTS
    Nodes, Modules, Keys,
    RuleIds,             \* bound: rules that exist or that a request still refers to
    RuleRequests,        \* requests in progress at a time
    RequiredKey,         \* the reading key whose rules a baseline policy requires
    MaxAdmin,            \* bound: changes of policies by administrators
    NoModule             \* the flow has no such node

ASSUME RuleAssumption ==
    /\ NoModule \notin Modules
    /\ RuleIds \subseteq Nat \ {0}
    /\ IsFiniteSet(RuleIds) /\ IsFiniteSet(Nodes) /\ IsFiniteSet(Keys)

VARIABLES
    ruleFlow,  \* "saved"; "gone": deleted; "clean": its rules are deleted too
    nodes,     \* nodes[n]: the module of the saved flow's node
    rules,     \* rules[i]: the alert rule document, or NoRule
    policies,  \* policies[m, k]: the alert policy; NoPolicy: none, or an inactive one
    changes,   \* changes of policies so far
    rreq       \* rreq[r]: a request and where it stands

ruleVars == <<ruleFlow, nodes, rules, policies, changes, rreq>>

NoRule == [node |-> "none", module |-> NoModule, key |-> "none", enabled |-> FALSE]
RuleDocs == [node : Nodes, module : Modules, key : Keys, enabled : BOOLEAN]
NoPolicy == [required |-> FALSE, enabled |-> FALSE, active |-> FALSE]
Policies == [required : BOOLEAN, enabled : BOOLEAN, active : {TRUE}] \cup {NoPolicy}
Layouts == [Nodes -> Modules \cup {NoModule}]

Resting == [op |-> "none", at |-> "idle", rule |-> NoRule, seen |-> NoRule, id |-> 0,
            ids |-> {}, taken |-> {}, layout |-> [n \in Nodes |-> NoModule], alone |-> TRUE]

Live == {i \in RuleIds : rules[i] # NoRule}
RulesAt(n, k) == {i \in Live : rules[i].node = n /\ rules[i].key = k}

\* Ids of new documents: not in use, and not remembered by a request.  Ids are opaque: the
\* least ones are taken.
FreshIds == {i \in RuleIds : /\ i \notin Live
                             /\ \A r \in RuleRequests : rreq[r].id # i /\ i \notin rreq[r].ids}

Least(n) == {i \in FreshIds : Cardinality({j \in FreshIds : j <= i}) <= n}

\* ensureBaselinePolicies at start
RulesInit ==
    /\ ruleFlow = "saved"
    /\ nodes = [n \in Nodes |-> NoModule]
    /\ rules = [i \in RuleIds |-> NoRule]
    /\ policies = [mk \in Modules \X Keys |-> [required |-> mk[2] = RequiredKey,
                                               enabled |-> TRUE, active |-> TRUE]]
    /\ changes = 0
    /\ rreq = [r \in RuleRequests |-> Resting]

-------------------------------------------------------------------------------
(* Requests.  `alone` is a history for the properties: no other request and   *)
(* no change of a policy ran at the same time.                                *)

Open(r, q) ==
    LET others == {p \in RuleRequests \ {r} : rreq[p].at # "idle"} IN
    /\ ruleFlow = "saved" /\ rreq[r].at = "idle"
    /\ rreq' = [p \in RuleRequests |->
                  IF p = r THEN [q EXCEPT !.alone = others = {}]
                  ELSE IF p \in others THEN [rreq[p] EXCEPT !.alone = FALSE] ELSE rreq[p]]

Standing(r, op, at) == rreq[r].op = op /\ rreq[r].at = at
Move(r, at) == rreq' = [rreq EXCEPT ![r].at = at]
Close(r) == rreq' = [rreq EXCEPT ![r] = Resting]

\* A read or a write of a request throws: it ends there
Abandon(r) ==
    /\ rreq[r].at # "idle" /\ Close(r)
    /\ UNCHANGED <<ruleFlow, nodes, rules, policies, changes>>

\* createAlertRule checks the node against the flow it reads, ...
CreateRule(r, n, k, enabled) ==
    /\ nodes[n] # NoModule
    /\ Open(r, [Resting EXCEPT !.op = "create", !.at = "policy",
                !.rule = [node |-> n, module |-> nodes[n], key |-> k, enabled |-> enabled]])
    /\ UNCHANGED <<ruleFlow, nodes, rules, policies, changes>>

\* updateAlertRule checks the node as well, and reads the rule; what is not sent is kept
UpdateRule(r, i, n, k, enabled) ==
    /\ i \in Live /\ nodes[n] # NoModule
    /\ Open(r, [Resting EXCEPT !.op = "update", !.at = "policy", !.id = i, !.seen = rules[i],
                !.rule = [node |-> n, module |-> nodes[n], key |-> k, enabled |-> enabled]])
    /\ UNCHANGED <<ruleFlow, nodes, rules, policies, changes>>

\* deleteAlertRule reads the rule
DeleteRule(r, i) ==
    /\ i \in Live
    /\ Open(r, [Resting EXCEPT !.op = "delete", !.at = "policy", !.id = i, !.rule = rules[i]])
    /\ UNCHANGED <<ruleFlow, nodes, rules, policies, changes>>

\* MUTANT: the policy of the rule as it was.
ReadOldPolicy(r) ==
    /\ rreq[r].at = "policy" /\ rreq[r].op \in {"create", "update", "delete"}
    /\ LET q == rreq[r]
           old == IF q.op = "update" THEN q.seen ELSE q.rule
           required == policies[<<old.module, old.key>>].required IN
       IF required /\ (q.op = "delete" \/ ~q.rule.enabled) THEN Close(r) ELSE Move(r, "write")
    /\ UNCHANGED <<ruleFlow, nodes, rules, policies, changes>>

\* ... then each reads the policy: of the new module and key, or of the rule to delete.
\* A required rule can be neither disabled nor deleted.
ReadPolicy(r) ==
    /\ rreq[r].at = "policy" /\ rreq[r].op \in {"create", "update", "delete"}
    /\ LET q == rreq[r]
           required == policies[<<q.rule.module, q.rule.key>>].required IN
       IF required /\ (q.op = "delete" \/ ~q.rule.enabled) THEN Close(r) ELSE Move(r, "write")
    /\ UNCHANGED <<ruleFlow, nodes, rules, policies, changes>>

\* The unique index on flow, node and reading key
Free(q, i) == RulesAt(q.node, q.key) \subseteq {i}

WriteNewRule(r) ==
    /\ Standing(r, "create", "write")
    /\ \/ /\ Free(rreq[r].rule, 0)
          /\ \E i \in Least(1) : rules' = [rules EXCEPT ![i] = rreq[r].rule]
       \/ /\ ~Free(rreq[r].rule, 0)
          /\ UNCHANGED rules
    /\ Close(r)
    /\ UNCHANGED <<ruleFlow, nodes, policies, changes>>

\* save() writes the fields that differ from what was read; a deleted rule is an error
WriteRule(r) ==
    /\ Standing(r, "update", "write")
    /\ LET q == rreq[r]
           now == rules[q.id]
           new == [f \in DOMAIN q.rule |-> IF q.rule[f] # q.seen[f] THEN q.rule[f] ELSE now[f]] IN
       rules' = IF q.id \in Live /\ Free(new, q.id) THEN [rules EXCEPT ![q.id] = new] ELSE rules
    /\ Close(r)
    /\ UNCHANGED <<ruleFlow, nodes, policies, changes>>

\* The rule is deleted by its id, whatever it says now
RemoveRule(r) ==
    /\ Standing(r, "delete", "write")
    /\ rules' = [rules EXCEPT ![rreq[r].id] = NoRule]
    /\ Close(r)
    /\ UNCHANGED <<ruleFlow, nodes, policies, changes>>

-------------------------------------------------------------------------------
(* An edit of the flow: syncRulesForFlowNodes, then the flow is saved          *)

EditFlow(r, layout) ==
    /\ Open(r, [Resting EXCEPT !.op = "edit", !.at = "stale", !.layout = layout,
                !.ids = {i \in Live : layout[rules[i].node] = NoModule},
                !.taken = {<<rules[i].node, rules[i].key>> : i \in Live}])
    /\ UNCHANGED <<ruleFlow, nodes, rules, policies, changes>>

\* MUTANT: rules of nodes that are gone stay.
KeepStale(r) ==
    /\ Standing(r, "edit", "stale")
    /\ rreq' = [rreq EXCEPT ![r].at = "insert", ![r].ids = {}]
    /\ UNCHANGED <<ruleFlow, nodes, rules, policies, changes>>

\* Rules of nodes that are gone
RemoveStale(r) ==
    /\ Standing(r, "edit", "stale")
    /\ rules' = [i \in RuleIds |-> IF i \in rreq[r].ids THEN NoRule ELSE rules[i]]
    /\ rreq' = [rreq EXCEPT ![r].at = "insert", ![r].ids = {}]
    /\ UNCHANGED <<ruleFlow, nodes, policies, changes>>

\* A rule for each active policy of a node's module, unless the edit read one for the node
\* and key.  The insertion is unordered: one that exists by now fails the edit after the
\* others are inserted.  (The policies are read just before; their conditions are valid.)
Wanted(q) == {nk \in Nodes \X Keys :
                /\ q.layout[nk[1]] # NoModule
                /\ policies[<<q.layout[nk[1]], nk[2]>>] # NoPolicy
                /\ nk \notin q.taken}

InsertRules(r) ==
    /\ Standing(r, "edit", "insert")
    /\ LET q == rreq[r]
           new == {nk \in Wanted(q) : RulesAt(nk[1], nk[2]) = {}} IN
       /\ Cardinality(Least(Cardinality(new))) = Cardinality(new)
       /\ LET at == CHOOSE f \in [Least(Cardinality(new)) -> new] :
                      {f[i] : i \in DOMAIN f} = new IN
          rules' = [i \in RuleIds |->
             IF i \notin DOMAIN at THEN rules[i]
             ELSE [node |-> at[i][1], module |-> q.layout[at[i][1]], key |-> at[i][2],
                   enabled |-> policies[<<q.layout[at[i][1]], at[i][2]>>].enabled]]
       /\ IF new = Wanted(q) THEN Move(r, "save") ELSE Close(r)
    /\ UNCHANGED <<ruleFlow, nodes, policies, changes>>

SaveNodes(r) ==
    /\ Standing(r, "edit", "save")
    /\ nodes' = IF ruleFlow = "saved" THEN rreq[r].layout ELSE nodes
    /\ Close(r)
    /\ UNCHANGED <<ruleFlow, rules, policies, changes>>

-------------------------------------------------------------------------------
(* Policies and the flow's deletion                                            *)

\* An administrator upserts, deactivates or deletes a policy
SetPolicy(m, k, p) ==
    /\ changes < MaxAdmin /\ p # policies[<<m, k>>]
    /\ changes' = changes + 1
    /\ policies' = [policies EXCEPT ![<<m, k>>] = p]
    /\ rreq' = [r \in RuleRequests |-> [rreq[r] EXCEPT !.alone = rreq[r].at = "idle"]]
    /\ UNCHANGED <<ruleFlow, nodes, rules>>

\* FlowsService.delete removes the flow, later cleanupFlowNotificationData the rest
DeleteRuleFlow ==
    /\ ruleFlow = "saved" /\ ruleFlow' = "gone"
    /\ rreq' = [r \in RuleRequests |-> [rreq[r] EXCEPT !.alone = rreq[r].at = "idle"]]
    /\ UNCHANGED <<nodes, rules, policies, changes>>

CleanupFlow ==
    /\ ruleFlow = "gone" /\ ruleFlow' = "clean"
    /\ rules' = [i \in RuleIds |-> NoRule]
    /\ UNCHANGED <<nodes, policies, changes, rreq>>

RulesNext ==
    \/ \E r \in RuleRequests :
         \/ \E n \in Nodes, k \in Keys, e \in BOOLEAN :
              CreateRule(r, n, k, e) \/ \E i \in RuleIds : UpdateRule(r, i, n, k, e)
         \/ \E i \in RuleIds : DeleteRule(r, i)
         \/ \E layout \in Layouts : EditFlow(r, layout)
         \/ ReadPolicy(r) \/ WriteNewRule(r) \/ WriteRule(r) \/ RemoveRule(r)
         \/ RemoveStale(r) \/ InsertRules(r) \/ SaveNodes(r) \/ Abandon(r)
    \/ \E m \in Modules, k \in Keys, p \in Policies : SetPolicy(m, k, p)
    \/ DeleteRuleFlow \/ CleanupFlow

RulesSpec == RulesInit /\ [][RulesNext]_ruleVars

-------------------------------------------------------------------------------

RequiredNow(rule) == policies[<<rule.module, rule.key>>].required

\* An edit that reached its end with no other request beside it leaves rules of its own
\* nodes only, and one for every policy of their modules: what requests left behind that
\* overlapped or failed part way (notifications.service.ts:1362, 799) goes with it.
EditAloneCoversNodes ==
    [][\A r \in RuleRequests :
         rreq[r].alone /\ SaveNodes(r) =>
           /\ \A i \in Live : nodes'[rules[i].node] # NoModule
           /\ \A n \in Nodes, k \in Keys :
                nodes'[n] # NoModule /\ policies[<<nodes'[n], k>>] # NoPolicy
                  => Cardinality(RulesAt(n, k)) = 1
      ]_ruleVars

\* A request that changes or deletes a rule with no other request beside it neither leaves
\* a required rule disabled nor deletes one: the policy that counts is that of the module
\* and the reading key the rule ends with (notifications.service.ts:868).
AloneRespectsPolicy ==
    [][\A r \in RuleRequests :
         rreq[r].at = "write" /\ rreq[r].alone /\ rreq'[r].at = "idle" =>
           \A i \in RuleIds : rules'[i] # rules[i] =>
             IF rules'[i] = NoRule THEN ~RequiredNow(rules[i])
             ELSE RequiredNow(rules'[i]) => rules'[i].enabled
      ]_ruleVars
=================================================================================
