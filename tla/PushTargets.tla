------------------------------- MODULE PushTargets -------------------------------
(* Where pushes go: the FCM tokens of the users' phones, which registrations, *)
(* logouts and failed pushes change.                                          *)
EXTENDS Naturals, FiniteSets

CONSTANTS
    Users, Phones,       \* a phone has one device id
    Tokens,              \* FCM registration tokens
    TargetRequests,      \* requests in progress at a time
    NoToken

ASSUME TargetsAssumption == NoToken \notin Tokens

VARIABLES
    token,       \* token[u, p]: the document of a user's phone, or NoDoc
    push,        \* tokens read for the push in progress, with their user
    treq         \* treq[r]: a registration and where it stands

targetVars == <<token, push, treq>>

NoDoc == [fcm |-> NoToken, active |-> FALSE]
Docs == [fcm : Tokens, active : BOOLEAN] \cup {NoDoc}
NoPush == [user |-> "none", tokens |-> {}]
Waiting == [at |-> "idle", user |-> "none", phone |-> "none", fcm |-> NoToken,
            seen |-> NoDoc, alone |-> TRUE]

TargetInit ==
    /\ token = [up \in Users \X Phones |-> NoDoc]
    /\ push = NoPush
    /\ treq = [r \in TargetRequests |-> Waiting]

Begin(r, q) ==
    LET others == {p \in TargetRequests \ {r} : treq[p].at # "idle"} IN
    /\ treq[r].at = "idle"
    /\ treq' = [p \in TargetRequests |->
                  IF p = r THEN [q EXCEPT !.alone = others = {} /\ push = NoPush]
                  ELSE IF p \in others THEN [treq[p] EXCEPT !.alone = FALSE] ELSE treq[p]]

Done(r) == treq' = [treq EXCEPT ![r] = Waiting]

\* MUTANT: the token is removed from other users only.
RegisterBesideOwn(r, u, p, t) ==
    /\ Begin(r, [Waiting EXCEPT !.at = "find", !.user = u, !.phone = p, !.fcm = t])
    /\ token' = [up \in Users \X Phones |->
                   IF up[1] # u /\ token[up].fcm = t THEN NoDoc ELSE token[up]]
    /\ UNCHANGED push

\* registerDeviceToken first removes the token from other users and other phones ...
RegisterToken(r, u, p, t) ==
    /\ Begin(r, [Waiting EXCEPT !.at = "find", !.user = u, !.phone = p, !.fcm = t])
    /\ token' = [up \in Users \X Phones |->
                   IF up # <<u, p>> /\ token[up].fcm = t THEN NoDoc ELSE token[up]]
    /\ UNCHANGED push

\* ... looks for the phone's document ...
FindToken(r) ==
    /\ treq[r].at = "find"
    /\ treq' = [treq EXCEPT ![r].at = "write", ![r].seen = token[<<treq[r].user, treq[r].phone>>]]
    /\ UNCHANGED <<token, push>>

\* ... and creates it, or saves the fields that differ from what was read.  A token or a
\* phone that has another document by now, or a document that is gone, is an error.
WriteToken(r) ==
    /\ treq[r].at = "write"
    /\ LET q == treq[r]
           up == <<q.user, q.phone>>
           new == [fcm |-> IF q.seen.fcm # q.fcm THEN q.fcm ELSE token[up].fcm,
                   active |-> IF q.seen.active THEN token[up].active ELSE TRUE]
           taken == \E other \in (Users \X Phones) \ {up} : token[other].fcm = new.fcm IN
       token' = IF taken \/ (token[up] = NoDoc) # (q.seen = NoDoc) THEN token
                ELSE [token EXCEPT ![up] = new]
    /\ Done(r)
    /\ UNCHANGED push

UnregisterToken(u, p) ==
    /\ token[<<u, p>>] # NoDoc
    /\ token' = [token EXCEPT ![<<u, p>>] = NoDoc]
    /\ treq' = [r \in TargetRequests |-> [treq[r] EXCEPT !.alone = treq[r].at = "idle"]]
    /\ UNCHANGED push

\* sendAlertToFlowOwner reads the owner's active tokens and sends to them ...
SendPush(u) ==
    /\ push = NoPush
    /\ LET active == {p \in Phones : token[<<u, p>>].active} IN
       push' = [user |-> u, tokens |-> {token[<<u, p>>].fcm : p \in active}]
    /\ push'.tokens # {}
    /\ treq' = [r \in TargetRequests |-> [treq[r] EXCEPT !.alone = treq[r].at = "idle"]]
    /\ UNCHANGED token

\* ... and marks those that FCM reports dead, whoever has them by now
InvalidateTokens(dead) ==
    /\ push # NoPush /\ dead \subseteq push.tokens
    /\ token' = [up \in Users \X Phones |->
                   IF token[up].fcm \in dead THEN [token[up] EXCEPT !.active = FALSE] ELSE token[up]]
    /\ push' = NoPush
    /\ UNCHANGED treq

TargetNext ==
    \/ \E r \in TargetRequests :
         \/ \E u \in Users, p \in Phones, t \in Tokens : RegisterToken(r, u, p, t)
         \/ FindToken(r) \/ WriteToken(r)
    \/ \E u \in Users : SendPush(u) \/ \E p \in Phones : UnregisterToken(u, p)
    \/ \E dead \in SUBSET Tokens : InvalidateTokens(dead)

TargetSpec == TargetInit /\ [][TargetNext]_targetVars

\* A registration with no other request and no push beside it succeeds: the token belongs
\* to that phone of that user, is active, and belongs to no other
\* (notifications.service.ts:449-455).
AloneRegistrationTakes ==
    [][\A r \in TargetRequests :
         treq[r].at = "write" /\ treq[r].alone /\ treq'[r].at = "idle" =>
           \A up \in Users \X Phones :
             IF up = <<treq[r].user, treq[r].phone>>
             THEN token'[up] = [fcm |-> treq[r].fcm, active |-> TRUE]
             ELSE token'[up].fcm # treq[r].fcm
      ]_targetVars
==================================================================================
