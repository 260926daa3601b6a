------------------------- MODULE RefreshSessions_proofs -------------------------
(***************************************************************************)
(* Theorems about RefreshSessions, for any number of clients, requests,    *)
(* tokens and resets.                                                      *)
(***************************************************************************)
EXTENDS RefreshSessions, FiniteSetTheorems, TLAPS

USE RefreshAssumption

Presenting == RefreshPcs \cup LogoutPcs

-----------------------------------------------------------------------------
(* How a step moves a request                                              *)

LEMMA Idle == IdleRequest \in Request /\ NewAccount \in Account
BY DEF IdleRequest, NewAccount, Request, Account, Resets, Versions

LEMMA Beginning ==
    ASSUME req \in [Requests -> Request], NEW r \in Requests,
           NEW pc \in {"login", "version", "authState", "logoutMatch"},
           NEW c \in Clients \cup {NoClient}, NEW t \in Tokens \cup {0}, NEW seen \in Account,
           Begin(r, pc, c, t, seen)
    PROVE  /\ req' \in [Requests -> Request] /\ req[r].pc = "idle"
           /\ req'[r].pc = pc /\ req'[r].client = c /\ req'[r].token = t /\ req'[r].seen = seen
           /\ \A q \in Requests \ {r} : req'[q] = req[q]
<1>1. [pc |-> pc, client |-> c, token |-> t, seen |-> seen] \in Request
  BY DEF Request, RefreshPcs, LogoutPcs
<1> QED
  BY <1>1 DEF Begin

LEMMA GoingOn ==
    ASSUME req \in [Requests -> Request], NEW r \in Requests,
           NEW pc \in {"clearCookie"} \cup RefreshPcs \cup LogoutPcs, Goto(r, pc)
    PROVE  /\ req' \in [Requests -> Request]
           /\ req'[r].pc = pc /\ req'[r].client = req[r].client
           /\ req'[r].token = req[r].token /\ req'[r].seen = req[r].seen
           /\ \A q \in Requests \ {r} : req'[q] = req[q]
<1>1. req[r] \in Request
  OBVIOUS
<1>2. [req[r] EXCEPT !.pc = pc] \in Request
  BY <1>1 DEF Request
<1>3. req'[r] = [req[r] EXCEPT !.pc = pc]
  BY DEF Goto
<1>4. /\ req'[r].pc = pc /\ req'[r].client = req[r].client
      /\ req'[r].token = req[r].token /\ req'[r].seen = req[r].seen
  BY <1>1, <1>3 DEF Request
<1> QED
  BY <1>2, <1>4 DEF Goto

LEMMA Answering ==
    ASSUME req \in [Requests -> Request], NEW r \in Requests, NEW t \in Tokens, Answer(r, t)
    PROVE  /\ req' \in [Requests -> Request]
           /\ req'[r].pc = "answer" /\ req'[r].client = req[r].client /\ req'[r].token = t
           /\ \A q \in Requests \ {r} : req'[q] = req[q]
<1>1. req[r] \in Request
  OBVIOUS
<1>2. [req[r] EXCEPT !.pc = "answer", !.token = t] \in Request
  BY <1>1 DEF Request
<1>3. req'[r] = [req[r] EXCEPT !.pc = "answer", !.token = t]
  BY DEF Answer
<1>4. req'[r].pc = "answer" /\ req'[r].client = req[r].client /\ req'[r].token = t
  BY <1>1, <1>3 DEF Request
<1> QED
  BY <1>2, <1>4 DEF Answer

LEMMA Finishing ==
    ASSUME req \in [Requests -> Request], NEW r \in Requests, Finish(r)
    PROVE  /\ req' \in [Requests -> Request] /\ req'[r].pc = "idle"
           /\ \A q \in Requests \ {r} : req'[q] = req[q]
BY Idle DEF Finish, IdleRequest

LEMMA Issuing ==
    ASSUME last \in 0..MaxTokens, issued \in [Tokens -> Payload], NEW p \in Payload, Issue(p)
    PROVE  /\ last + 1 \in Tokens /\ last' = last + 1 /\ last' \in 0..MaxTokens
           /\ issued' \in [Tokens -> Payload] /\ issued'[last + 1] = p
           /\ \A t \in IssuedTokens : issued'[t] = issued[t]
BY DEF Issue, Tokens, IssuedTokens

-----------------------------------------------------------------------------
(* Types                                                                   *)

RequestsRefer ==
    \A r \in Requests :
        /\ req[r].pc # "idle" => req[r].client \in Clients
        /\ req[r].pc \in {"answer"} \cup Presenting => req[r].token \in IssuedTokens

LEMMA TypeInit == Init => TypeOK
<1> SUFFICES ASSUME Init PROVE TypeOK
  OBVIOUS
<1>1. NoPayload \in Payload /\ 0 \in 0..MaxTime /\ 0 \in 0..MaxTokens
  BY DEF NoPayload, Payload, Resets, Versions
<1>2. Referring
  BY DEF Init, Referring, IdleRequest, RefreshPcs, LogoutPcs
<1> QED
  BY <1>1, <1>2, Idle DEF Init, TypeOK

\* A step that issues nothing and leaves the sessions as they are.
LEMMA TypeQuiet ==
    ASSUME TypeOK, UNCHANGED <<sessions, last, issued>>,
           account' \in Account, now' \in 0..MaxTime, cookie' \in [Clients -> Tokens \cup {0}],
           req' \in [Requests -> Request], over' \subseteq Tokens \cup {0}, out' \subseteq Tokens,
           \A c \in Clients : cookie'[c] <= last, RequestsRefer'
    PROVE  TypeOK'
<1>1. Referring'
  <2>1. \A s \in sessions' : s.token \in IssuedTokens' /\ s.previous < s.token
    BY DEF TypeOK, Referring, IssuedTokens
  <2>2. \A c \in Clients : cookie'[c] <= last'
    OBVIOUS
  <2> QED
    BY <2>1, <2>2 DEF Referring, RequestsRefer, Presenting, RefreshPcs, LogoutPcs
<1> QED
  BY <1>1 DEF TypeOK

\* A step of request r that leaves the other requests and the cookies alone.
LEMMA Alone ==
    ASSUME TypeOK, NEW r \in Requests, \A q \in Requests \ {r} : req'[q] = req[q],
           last' \in {last, last + 1},
           req'[r].pc # "idle" => req'[r].client \in Clients,
           req'[r].pc \in {"answer"} \cup Presenting => req'[r].token \in 1..last'
    PROVE  RequestsRefer'
<1>1. RequestsRefer
  BY DEF TypeOK, Referring, RequestsRefer, Presenting, RefreshPcs, LogoutPcs
<1>2. last \in Nat
  BY DEF TypeOK
<1> QED
  BY <1>1, <1>2 DEF RequestsRefer, IssuedTokens

-----------------------------------------------------------------------------
(* The version never overtakes the password: a reset changes the password  *)
(* before it increments the version                                        *)

Resetting == {q \in Requests : req[q].pc = "version"}

Behind ==
    /\ account.version <= account.resets + (IF account.deleted THEN 1 ELSE 0)
    /\ ~account.deleted => account.version + Cardinality(Resetting) <= account.resets

LEMMA CountNat == Cardinality(Resetting) \in Nat /\ IsFiniteSet(Resetting)
BY FS_Subset, FS_CardinalityType DEF Resetting

\* What does not begin a reset does not disturb it.
LEMMA BehindQuiet ==
    ASSUME TypeOK, Behind, UNCHANGED account, Resetting' \subseteq Resetting
    PROVE  Behind'
<1>1. Cardinality(Resetting') <= Cardinality(Resetting)
  BY CountNat, FS_Subset
<1>2. Cardinality(Resetting') \in Nat
  BY CountNat, FS_Subset, FS_CardinalityType
<1>3. account.version \in Nat /\ account.resets \in Nat
  BY DEF TypeOK, Account, Versions, Resets
<1> QED
  BY <1>1, <1>2, <1>3, CountNat DEF Behind

Inv == TypeOK /\ Behind

LEMMA TypeBegin ==
    ASSUME Inv, NEW r \in Requests, NEW c \in Clients,
           ValidateUser(r, c) \/ Refresh(r, c) \/ Logout(r, c)
    PROVE  Inv'
<1>1. /\ account \in Account /\ cookie[c] \in Tokens \cup {0} /\ req \in [Requests -> Request]
      /\ cookie \in [Clients -> Tokens \cup {0}] /\ cookie[c] <= last /\ last \in Nat
  BY DEF Inv, TypeOK, Referring
<1> DEFINE pc == req'[r].pc
<1>2. /\ pc \in {"login", "authState", "logoutMatch"} /\ req' \in [Requests -> Request]
      /\ req'[r].client = c /\ \A q \in Requests \ {r} : req'[q] = req[q]
      /\ pc # "login" => req'[r].token \in 1..last
  <2>1. CASE ValidateUser(r, c)
    BY <1>1, <2>1, Beginning DEF ValidateUser
  <2>2. CASE Refresh(r, c)
    BY <1>1, <2>2, Idle, Beginning DEF Refresh, Tokens
  <2>3. CASE Logout(r, c)
    BY <1>1, <2>3, Idle, Beginning DEF Logout, Tokens
  <2> QED
    BY <2>1, <2>2, <2>3
<1>3. UNCHANGED <<account, sessions, now, cookie, last, issued, over, out>>
  BY DEF ValidateUser, Refresh, Logout
<1>4. RequestsRefer'
  BY <1>2, <1>3, Alone DEF Inv, Presenting, RefreshPcs, LogoutPcs
<1>5. TypeOK'
  BY <1>2, <1>3, <1>4, TypeQuiet DEF Inv, TypeOK, Referring
<1>6. Resetting' \subseteq Resetting
  BY <1>2 DEF Resetting
<1> QED
  BY <1>3, <1>5, <1>6, BehindQuiet DEF Inv

\* A look at the document: the request goes on or ends.
LEMMA TypeLook ==
    ASSUME Inv, NEW r \in Requests,
           GetAuthState(r) \/ GetRefreshTokenMatch(r) \/ LogoutMatch(r)
    PROVE  Inv'
<1>1. req \in [Requests -> Request] /\ req[r].pc \in {"authState", "match", "logoutMatch"}
  BY DEF Inv, TypeOK, GetAuthState, GetRefreshTokenMatch, LogoutMatch
<1>2. Finish(r) \/ \E pc \in {"clearCookie"} \cup RefreshPcs \cup LogoutPcs : Goto(r, pc)
  BY DEF GetAuthState, GetRefreshTokenMatch, LogoutMatch, RefreshPcs, LogoutPcs
<1>3. UNCHANGED <<account, sessions, now, cookie, last, issued, over, out>>
  BY DEF GetAuthState, GetRefreshTokenMatch, LogoutMatch
<1>4. req[r].client \in Clients /\ req[r].token \in 1..last
  BY <1>1 DEF Inv, TypeOK, Referring, IssuedTokens, RefreshPcs, LogoutPcs
<1>5. /\ req' \in [Requests -> Request] /\ \A q \in Requests \ {r} : req'[q] = req[q]
      /\ req'[r].pc \in {"idle", "clearCookie"} \cup RefreshPcs \cup LogoutPcs
      /\ req'[r].pc # "idle" => req'[r].client \in Clients /\ req'[r].token \in 1..last
  <2>1. CASE Finish(r)
    BY <1>1, <2>1, Finishing
  <2>2. ASSUME NEW pc \in {"clearCookie"} \cup RefreshPcs \cup LogoutPcs, Goto(r, pc)
        PROVE  /\ req' \in [Requests -> Request] /\ \A q \in Requests \ {r} : req'[q] = req[q]
               /\ req'[r].pc \in {"clearCookie"} \cup RefreshPcs \cup LogoutPcs
               /\ req'[r].client \in Clients /\ req'[r].token \in 1..last
    BY <1>1, <1>4, <2>2, GoingOn
  <2> QED
    BY <1>2, <2>1, <2>2
<1>6. RequestsRefer'
  BY <1>3, <1>5, Alone DEF Inv, Presenting, RefreshPcs, LogoutPcs
<1>7. TypeOK'
  BY <1>3, <1>5, <1>6, TypeQuiet DEF Inv, TypeOK, Referring
<1>8. Resetting' \subseteq Resetting
  BY <1>5 DEF Resetting, RefreshPcs, LogoutPcs
<1> QED
  BY <1>3, <1>7, <1>8, BehindQuiet DEF Inv

\* The end of a request, whether answered or not.
LEMMA TypeFinish ==
    ASSUME Inv, NEW r \in Requests,
           SetRefreshCookie(r) \/ ClearCookie(r) \/ Abort(r)
    PROVE  Inv'
<1>1. req \in [Requests -> Request] /\ Finish(r)
  BY DEF Inv, TypeOK, SetRefreshCookie, ClearCookie, Abort
<1>2. /\ req' \in [Requests -> Request] /\ req'[r].pc = "idle"
      /\ \A q \in Requests \ {r} : req'[q] = req[q]
  BY <1>1, Finishing
<1>3. UNCHANGED <<account, sessions, now, last, issued, out>>
  BY DEF SetRefreshCookie, ClearCookie, Abort
<1>4. RequestsRefer'
  BY <1>2, <1>3, Alone DEF Inv, Presenting, RefreshPcs, LogoutPcs
<1>5. cookie' \in [Clients -> Tokens \cup {0}] /\ \A c \in Clients : cookie'[c] <= last
  <2>1. cookie \in [Clients -> Tokens \cup {0}] /\ last \in Nat /\ \A c \in Clients : cookie[c] <= last
    BY DEF Inv, TypeOK, Referring
  <2>2. CASE SetRefreshCookie(r)
    <3>1. req[r].token \in Tokens /\ req[r].token <= last
      BY <2>2 DEF SetRefreshCookie, Inv, TypeOK, Referring, IssuedTokens, Tokens
    <3> QED
      BY <2>1, <2>2, <3>1 DEF SetRefreshCookie
  <2>3. CASE ClearCookie(r)
    <3>1. cookie' = [cookie EXCEPT ![req[r].client] = 0]
      BY <2>3 DEF ClearCookie
    <3>2. \A c \in Clients : cookie'[c] \in {0, cookie[c]}
      BY <2>1, <3>1
    <3>3. cookie' \in [Clients -> Tokens \cup {0}]
      BY <2>1, <3>1
    <3> QED
      BY <2>1, <3>2, <3>3
  <2>4. CASE Abort(r)
    BY <2>1, <2>4 DEF Abort
  <2> QED
    BY <2>2, <2>3, <2>4
<1>6. over' \subseteq Tokens \cup {0}
  <2>1. CASE Abort(r)
    <3>1. req[r].pc = "answer" => LoginOf(req[r].token) \in Tokens \cup {0}
      BY DEF Inv, TypeOK, Referring, IssuedTokens, Tokens, LoginOf, Payload
    <3> QED
      BY <2>1, <3>1 DEF Abort, Inv, TypeOK
  <2> QED
    BY <2>1 DEF SetRefreshCookie, ClearCookie, Inv, TypeOK
<1>7. TypeOK'
  BY <1>2, <1>3, <1>4, <1>5, <1>6, TypeQuiet DEF Inv, TypeOK
<1>8. Resetting' \subseteq Resetting
  BY <1>2 DEF Resetting
<1> QED
  BY <1>3, <1>7, <1>8, BehindQuiet DEF Inv

LEMMA TypeClear ==
    ASSUME Inv, NEW r \in Requests, ClearRefreshToken(r) \/ UpdateRefreshTokenHash(r)
    PROVE  Inv'
<1>1. /\ req \in [Requests -> Request] /\ req[r].pc \in {"clear", "clearAll"}
      /\ \E pc \in {"clearAll", "clearCookie"} : Goto(r, pc)
      /\ UNCHANGED <<account, now, cookie, last, issued>>
  BY DEF Inv, TypeOK, ClearRefreshToken, UpdateRefreshTokenHash
<1>2. req[r].client \in Clients /\ req[r].token \in 1..last /\ req[r].token \in Tokens
  BY <1>1 DEF Inv, TypeOK, Referring, IssuedTokens, LogoutPcs, Tokens
<1>3. /\ req' \in [Requests -> Request] /\ \A q \in Requests \ {r} : req'[q] = req[q]
      /\ req'[r].pc \in {"clearAll", "clearCookie"}
      /\ req'[r].client \in Clients /\ req'[r].token \in 1..last
  BY <1>1, <1>2, GoingOn DEF LogoutPcs
<1>4. RequestsRefer'
  BY <1>1, <1>3, Alone DEF Inv
<1>5. sessions' \subseteq sessions
  BY DEF ClearRefreshToken, UpdateRefreshTokenHash
<1>6. over' \subseteq Tokens \cup {0} /\ out' \subseteq Tokens
  <2>1. \A s \in sessions : LoginOf(s.token) \in Tokens \cup {0}
    BY DEF Inv, TypeOK, Session, LoginOf, Payload
  <2> QED
    BY <1>2, <2>1 DEF ClearRefreshToken, UpdateRefreshTokenHash, Inv, TypeOK
<1>7. Referring'
  <2>1. \A s \in sessions' : s.token \in IssuedTokens' /\ s.previous < s.token
    BY <1>1, <1>5 DEF Inv, TypeOK, Referring, IssuedTokens
  <2>2. \A c \in Clients : cookie'[c] <= last'
    BY <1>1 DEF Inv, TypeOK, Referring
  <2> QED
    BY <1>4, <2>1, <2>2 DEF Referring, RequestsRefer, Presenting, RefreshPcs, LogoutPcs
<1>8. TypeOK'
  BY <1>1, <1>3, <1>5, <1>6, <1>7 DEF Inv, TypeOK
<1>9. Resetting' \subseteq Resetting
  BY <1>3 DEF Resetting
<1> QED
  BY <1>1, <1>8, <1>9, BehindQuiet DEF Inv

\* The account after a step that keeps the version behind the password has its type.
LEMMA AccountType ==
    ASSUME Inv, Behind', NEW p \in Resets, NEW v \in Nat, NEW d \in BOOLEAN,
           account' = [resets |-> p, version |-> v, deleted |-> d]
    PROVE  account' \in Account
<1>1. v <= p + 1
  BY DEF Behind, Resets
<1> QED
  BY <1>1 DEF Account, Resets, Versions

LEMMA AccountIs ==
    ASSUME Inv
    PROVE  /\ account.version \in Nat /\ account.resets \in Resets /\ account.resets \in Nat
           /\ account.deleted \in BOOLEAN
           /\ account = [resets |-> account.resets, version |-> account.version,
                         deleted |-> account.deleted]
BY DEF Inv, TypeOK, Account, Versions, Resets

LEMMA TypeResetPassword ==
    ASSUME Inv, NEW r \in Requests, NEW c \in Clients, ResetPassword(r, c)
    PROVE  Inv'
<1>1. req \in [Requests -> Request] /\ Begin(r, "version", c, 0, NewAccount)
  BY DEF Inv, TypeOK, ResetPassword
<1>2. /\ req' \in [Requests -> Request] /\ req[r].pc = "idle" /\ req'[r].pc = "version" /\ req'[r].client \in Clients
      /\ \A q \in Requests \ {r} : req'[q] = req[q]
  BY <1>1, Idle, Beginning
<1>3. /\ account' = [resets |-> account.resets + 1, version |-> account.version, deleted |-> account.deleted]
      /\ account.resets + 1 \in Resets /\ ~account.deleted
      /\ UNCHANGED <<sessions, now, cookie, last, issued, over, out>>
  BY AccountIs DEF ResetPassword, Resets
<1>4. Behind'
  <2>1. Resetting' = Resetting \cup {r} /\ r \notin Resetting
    BY <1>2 DEF Resetting
  <2>2. Cardinality(Resetting') = Cardinality(Resetting) + 1
    BY <2>1, CountNat, FS_AddElement
  <2>3. account.version + Cardinality(Resetting) <= account.resets
    BY <1>3 DEF Inv, Behind
  <2> QED
    BY <1>3, <2>2, <2>3, CountNat, AccountIs DEF Behind
<1>5. account' \in Account
  BY <1>3, <1>4, AccountIs, AccountType
<1>6. RequestsRefer'
  BY <1>2, <1>3, Alone DEF Inv, Presenting, RefreshPcs, LogoutPcs
<1>7. TypeOK'
  BY <1>2, <1>3, <1>5, <1>6, TypeQuiet DEF Inv, TypeOK, Referring
<1> QED
  BY <1>4, <1>7 DEF Inv

LEMMA TypeIncrement ==
    ASSUME Inv, NEW r \in Requests, IncrementTokenVersion(r)
    PROVE  Inv'
<1>1. req \in [Requests -> Request] /\ Goto(r, "clearCookie") /\ req[r].pc = "version"
  BY DEF Inv, TypeOK, IncrementTokenVersion
<1>2. /\ req' \in [Requests -> Request] /\ req'[r].pc = "clearCookie" /\ req'[r].client \in Clients
      /\ \A q \in Requests \ {r} : req'[q] = req[q]
  BY <1>1, GoingOn DEF Inv, TypeOK, Referring
<1>3. UNCHANGED <<sessions, now, cookie, last, issued, over, out>>
  BY DEF IncrementTokenVersion
<1>4. Resetting' = Resetting \ {r} /\ r \in Resetting
  BY <1>1, <1>2 DEF Resetting
<1>5. Behind' /\ account' \in Account
  <2>1. CASE account.deleted
    <3>1. UNCHANGED account
      BY <2>1 DEF IncrementTokenVersion
    <3> QED
      BY <1>4, <3>1, BehindQuiet DEF Inv, TypeOK
  <2>2. CASE ~account.deleted
    <3>1. account' = [resets |-> account.resets, version |-> account.version + 1, deleted |-> account.deleted]
      BY <2>2, AccountIs DEF IncrementTokenVersion
    <3>2. Cardinality(Resetting') = Cardinality(Resetting) - 1 /\ Cardinality(Resetting') \in Nat
      BY <1>4, CountNat, FS_RemoveElement, FS_CardinalityType
    <3>3. account.version + Cardinality(Resetting) <= account.resets
      BY <2>2 DEF Inv, Behind
    <3>4. Behind'
      BY <2>2, <3>1, <3>2, <3>3, CountNat, AccountIs DEF Behind
    <3> QED
      BY <3>1, <3>4, AccountIs, AccountType
  <2> QED
    BY <2>1, <2>2
<1>6. RequestsRefer'
  BY <1>2, <1>3, Alone DEF Inv, Presenting, RefreshPcs, LogoutPcs
<1>7. TypeOK'
  BY <1>2, <1>3, <1>5, <1>6, TypeQuiet DEF Inv, TypeOK, Referring
<1> QED
  BY <1>5, <1>7 DEF Inv

\* The steps of no request.
LEMMA TypeOther ==
    ASSUME Inv, DeleteUser \/ Tick
    PROVE  Inv'
<1>1. UNCHANGED <<sessions, cookie, req, last, issued, over, out>> /\ now' \in 0..MaxTime
  BY DEF DeleteUser, Tick, Inv, TypeOK
<1>2. Resetting' = Resetting
  BY <1>1 DEF Resetting
<1>3. Behind' /\ account' \in Account
  <2>1. CASE DeleteUser
    <3>1. /\ account' = [resets |-> account.resets, version |-> account.version + 1, deleted |-> TRUE]
          /\ ~account.deleted
      BY <2>1, AccountIs DEF DeleteUser
    <3>2. Behind'
      BY <3>1, CountNat, AccountIs DEF Inv, Behind
    <3>3. account.version + 1 \in Nat /\ TRUE \in BOOLEAN
      BY AccountIs
    <3> QED
      BY <3>1, <3>2, <3>3, AccountIs, AccountType
  <2>2. CASE Tick
    BY <1>2, <2>2, BehindQuiet DEF Tick, Inv, TypeOK
  <2> QED
    BY <2>1, <2>2
<1>4. RequestsRefer'
  BY <1>1 DEF Inv, TypeOK, Referring, RequestsRefer, Presenting, RefreshPcs, LogoutPcs, IssuedTokens
<1>5. TypeOK'
  BY <1>1, <1>3, <1>4, TypeQuiet DEF Inv, TypeOK, Referring
<1> QED
  BY <1>3, <1>5 DEF Inv

\* A token issued to request r, with a session or without.
LEMMA TypeIssuing ==
    ASSUME Inv, NEW r \in Requests, NEW p \in Payload, Issue(p), Answer(r, last + 1),
           req[r].client \in Clients,
           sessions' \subseteq Session, UNCHANGED <<account, now, cookie, over, out>>,
           \A s \in sessions' : s \in sessions \/ (s.token = last + 1 /\ s.previous <= last)
    PROVE  Inv'
<1>1. /\ last \in 0..MaxTokens /\ issued \in [Tokens -> Payload] /\ req \in [Requests -> Request]
  BY DEF Inv, TypeOK
<1>2. /\ last + 1 \in Tokens /\ last' = last + 1 /\ last' \in 0..MaxTokens
      /\ issued' \in [Tokens -> Payload]
  BY <1>1, Issuing
<1>3. /\ req' \in [Requests -> Request]
      /\ req'[r].pc = "answer" /\ req'[r].client \in Clients /\ req'[r].token = last + 1
      /\ \A q \in Requests \ {r} : req'[q] = req[q]
  BY <1>1, <1>2, Answering
<1>4. RequestsRefer'
  BY <1>1, <1>2, <1>3, Alone DEF Inv
<1>5. \A s \in sessions' : s.token \in IssuedTokens' /\ s.previous < s.token
  <2> SUFFICES ASSUME NEW s \in sessions' PROVE s.token \in IssuedTokens' /\ s.previous < s.token
    OBVIOUS
  <2>1. CASE s \in sessions
    BY <1>1, <1>2, <2>1 DEF Inv, TypeOK, Referring, IssuedTokens
  <2>2. CASE s.token = last + 1 /\ s.previous <= last
    <3>1. s.previous \in Nat
      BY DEF Session, Tokens
    <3> QED
      BY <1>1, <1>2, <2>2, <3>1 DEF IssuedTokens
  <2> QED
    BY <2>1, <2>2
<1>6. \A c \in Clients : cookie'[c] <= last'
  <2>1. \A c \in Clients : cookie[c] \in Nat /\ cookie[c] <= last
    BY DEF Inv, TypeOK, Referring, Tokens
  <2> QED
    BY <1>1, <1>2, <2>1
<1>7. Referring'
  BY <1>4, <1>5, <1>6 DEF Referring, RequestsRefer, Presenting, RefreshPcs, LogoutPcs
<1>8. TypeOK'
  BY <1>2, <1>3, <1>7 DEF Inv, TypeOK
<1>9. Resetting' \subseteq Resetting
  BY <1>3 DEF Resetting
<1> QED
  BY <1>8, <1>9, BehindQuiet DEF Inv

LEMMA TypeLogin ==
    ASSUME Inv, NEW r \in Requests, IssueSessionTokens(r)
    PROVE  Inv'
<1> DEFINE p == [version |-> req[r].seen.version, resets |-> req[r].seen.resets, login |-> last + 1]
<1>1. Issue(p) /\ Answer(r, last + 1) /\ UNCHANGED <<account, now, cookie, over, out>>
  BY DEF IssueSessionTokens
<1>2. last \in 0..MaxTokens /\ last + 1 \in Tokens
  BY <1>1 DEF Issue, Inv, TypeOK, Tokens
<1>3. req[r].seen \in Account /\ req[r].client \in Clients
  BY DEF IssueSessionTokens, Inv, TypeOK, Request, Referring
<1>4. p \in Payload
  BY <1>2, <1>3 DEF Payload, Account
<1>5. 0 \in Times
  BY DEF Times
<1>6. [token |-> last + 1, previous |-> 0, until |-> 0] \in Session
  BY <1>2, <1>5 DEF Session
<1> HIDE DEF p
<1>7. /\ sessions' \subseteq Session
      /\ \A s \in sessions' : s \in sessions \/ (s.token = last + 1 /\ s.previous <= last)
  <2> DEFINE new == [token |-> last + 1, previous |-> 0, until |-> 0]
  <2>1. new \in Session /\ new.token = last + 1 /\ new.previous <= last
    BY <1>2, <1>6
  <2>2. sessions' = sessions \cup (IF account.deleted THEN {} ELSE {new})
    BY DEF IssueSessionTokens
  <2>3. sessions \subseteq Session
    BY DEF Inv, TypeOK
  <2> HIDE DEF new
  <2>4. sessions' \subseteq Session
    BY <2>1, <2>2, <2>3
  <2>5. \A s \in sessions' : s \in sessions \/ s = new
    BY <2>2
  <2> QED
    BY <2>1, <2>4, <2>5
<1> QED
  BY <1>1, <1>3, <1>4, <1>7, TypeIssuing

LEMMA TypeRotate ==
    ASSUME Inv, NEW r \in Requests, RotateRefreshTokenState(r)
    PROVE  Inv'
<1> DEFINE old == req[r].token
<1>1. /\ req \in [Requests -> Request] /\ req[r].pc = "rotate"
      /\ UNCHANGED <<account, now, cookie, over, out>>
  BY DEF RotateRefreshTokenState, Inv, TypeOK
<1>2. old \in 1..last /\ old \in Tokens /\ req[r].client \in Clients /\ last \in 0..MaxTokens
  BY <1>1 DEF Inv, TypeOK, Referring, RefreshPcs, IssuedTokens, Tokens
<1>3. CASE Finish(r) /\ UNCHANGED <<sessions, last, issued>>
  <2>1. /\ req' \in [Requests -> Request] /\ req'[r].pc = "idle"
        /\ \A q \in Requests \ {r} : req'[q] = req[q]
    BY <1>1, <1>3, Finishing
  <2>2. RequestsRefer'
    BY <1>3, <2>1, Alone DEF Inv, Presenting, RefreshPcs, LogoutPcs
  <2>3. TypeOK'
    BY <1>1, <1>3, <2>1, <2>2, TypeQuiet DEF Inv, TypeOK, Referring
  <2>4. Resetting' \subseteq Resetting
    BY <2>1 DEF Resetting
  <2> QED
    BY <1>1, <2>3, <2>4, BehindQuiet DEF Inv
<1>4. CASE /\ Issue(issued[old]) /\ Answer(r, last + 1)
           /\ sessions' = (sessions \ Current(old)) \cup {Rotated(last + 1, old)}
  <2>1. issued[old] \in Payload
    BY <1>2 DEF Inv, TypeOK
  <2>2. last + 1 \in Tokens
    BY <1>2, <1>4 DEF Issue, Tokens
  <2>3. now + Grace \in Times
    BY DEF Times, Inv, TypeOK
  <2>4. Rotated(last + 1, old) \in Session
    BY <1>2, <2>2, <2>3 DEF Rotated, Session
  <2>5. Rotated(last + 1, old).token = last + 1 /\ Rotated(last + 1, old).previous <= last
    BY <1>2 DEF Rotated
  <2>6. /\ sessions' \subseteq Session
        /\ \A s \in sessions' : s \in sessions \/ (s.token = last + 1 /\ s.previous <= last)
    <3> DEFINE new == Rotated(last + 1, old)
    <3>1. sessions \subseteq Session
      BY DEF Inv, TypeOK
    <3>2. sessions' = (sessions \ Current(old)) \cup {new}
      BY <1>4
    <3>3. new \in Session /\ new.token = last + 1 /\ new.previous <= last
      BY <2>4, <2>5
    <3>4. sessions' \subseteq Session
      BY <3>1, <3>2, <3>3
    <3>5. \A s \in sessions' : s \in sessions \/ s = new
      BY <3>2
    <3> HIDE DEF new
    <3> QED
      BY <3>3, <3>4, <3>5
  <2> QED
    BY <1>1, <1>2, <1>4, <2>1, <2>6, TypeIssuing
<1> QED
  BY <1>3, <1>4 DEF RotateRefreshTokenState

LEMMA InvInit == Init => Inv
<1> SUFFICES ASSUME Init PROVE Inv
  OBVIOUS
<1>1. Resetting = {}
  BY DEF Resetting, Init, IdleRequest
<1>2. Cardinality(Resetting) = 0
  BY <1>1, FS_EmptySet
<1>3. Behind
  BY <1>2 DEF Behind, Init, NewAccount
<1> QED
  BY <1>3, TypeInit DEF Inv

LEMMA InvStep == Inv /\ [Next]_vars => Inv'
<1> SUFFICES ASSUME Inv, [Next]_vars PROVE Inv'
  OBVIOUS
<1>1. ASSUME NEW r \in Requests, RequestStep(r) PROVE Inv'
  BY <1>1, TypeBegin, TypeLook, TypeFinish, TypeClear, TypeResetPassword, TypeIncrement,
     TypeLogin, TypeRotate DEF RequestStep
<1>2. CASE DeleteUser \/ Tick
  BY <1>2, TypeOther
<1>3. CASE UNCHANGED vars
  BY <1>3 DEF vars, Inv, TypeOK, Referring, Current, IssuedTokens, Behind, Resetting
<1> QED
  BY <1>1, <1>2, <1>3 DEF Next

\* The sessions, cookies and requests refer to tokens that were issued, every value
\* stays in its bounds, and the version never passes the number of resets.
THEOREM TypeCorrect == Spec => []TypeOK
<1>1. Inv => TypeOK
  BY DEF Inv
<1> QED
  BY <1>1, InvInit, InvStep, PTL DEF Spec

-----------------------------------------------------------------------------
(* What the steps do to tokens and sessions                                *)

Rotates(r) ==
    LET old == req[r].token IN
    /\ req[r].pc = "rotate" /\ ~account.deleted /\ Current(old) # {}
    /\ Issue(issued[old]) /\ Answer(r, last + 1)
    /\ sessions' = (sessions \ Current(old)) \cup {Rotated(last + 1, old)}
    /\ UNCHANGED <<account, now, cookie, over, out>>

Clears(r) == ClearRefreshToken(r) \/ UpdateRefreshTokenHash(r)

LEMMA Kinds ==
    ASSUME Inv, [Next]_vars
    PROVE  \/ UNCHANGED <<sessions, last, issued, out>>
           \/ \E r \in Requests : Clears(r) \/ IssueSessionTokens(r) \/ Rotates(r)
<1>1. ASSUME NEW r \in Requests, RotateRefreshTokenState(r)
      PROVE  UNCHANGED <<sessions, last, issued, out>> \/ Rotates(r)
  BY <1>1 DEF RotateRefreshTokenState, Rotates
<1>2. ASSUME NEW r \in Requests, RequestStep(r)
      PROVE  \/ UNCHANGED <<sessions, last, issued, out>>
             \/ Clears(r) \/ IssueSessionTokens(r) \/ Rotates(r)
  BY <1>1, <1>2 DEF RequestStep, ValidateUser, Refresh, Logout, SetRefreshCookie, GetAuthState,
     GetRefreshTokenMatch, LogoutMatch, ClearCookie, ResetPassword, IncrementTokenVersion, Abort, Clears
<1> QED
  BY <1>2 DEF Next, vars, DeleteUser, Tick

\* An account stays deleted.
LEMMA StaysDeleted ==
    ASSUME Inv, [Next]_vars, account.deleted
    PROVE  account'.deleted
<1>1. ASSUME NEW r \in Requests, RequestStep(r) PROVE account' = account
  BY <1>1 DEF RequestStep, ValidateUser, IssueSessionTokens, Refresh, Logout, SetRefreshCookie,
     GetAuthState, GetRefreshTokenMatch, RotateRefreshTokenState, LogoutMatch, ClearRefreshToken, UpdateRefreshTokenHash,
     ClearCookie, ResetPassword, IncrementTokenVersion, Abort
<1> QED
  BY <1>1 DEF Next, vars, DeleteUser, Tick

\* The token of a login starts a new login; that of a rotation goes on with the old one.
LEMMA LoginIssues ==
    ASSUME Inv, NEW r \in Requests, IssueSessionTokens(r)
    PROVE  /\ last \in Nat /\ last' = last + 1 /\ issued'[last + 1].login = last + 1
           /\ issued'[last + 1].version = req[r].seen.version
           /\ issued'[last + 1].resets = req[r].seen.resets
           /\ \A t \in IssuedTokens : issued'[t] = issued[t]
           /\ \A s \in sessions' : s \in sessions \/ (s.token = last + 1 /\ s.previous = 0)
<1> DEFINE p == [version |-> req[r].seen.version, resets |-> req[r].seen.resets, login |-> last + 1]
<1>1. Issue(p) /\ last \in 0..MaxTokens /\ issued \in [Tokens -> Payload]
  BY DEF IssueSessionTokens, Inv, TypeOK
<1>2. last + 1 \in Tokens
  BY <1>1 DEF Issue, Tokens
<1>3. p \in Payload
  <2>1. req[r].seen \in Account
    BY DEF Inv, TypeOK, Request
  <2> QED
    BY <1>2, <2>1 DEF Payload, Account
<1>4. /\ p.version = req[r].seen.version /\ p.resets = req[r].seen.resets /\ p.login = last + 1
  OBVIOUS
<1> HIDE DEF p
<1>5. /\ last' = last + 1 /\ issued'[last + 1] = p /\ \A t \in IssuedTokens : issued'[t] = issued[t]
  BY <1>1, <1>3, Issuing
<1>6. \A s \in sessions' : s \in sessions \/ (s.token = last + 1 /\ s.previous = 0)
  BY DEF IssueSessionTokens
<1> QED
  BY <1>1, <1>4, <1>5, <1>6 DEF LoginOf

LEMMA RotationIssues ==
    ASSUME Inv, NEW r \in Requests, Rotates(r)
    PROVE  /\ last \in Nat /\ last' = last + 1 /\ req[r].token \in IssuedTokens
           /\ issued'[last + 1] = issued[req[r].token]
           /\ \A t \in IssuedTokens : issued'[t] = issued[t]
           /\ \A s \in sessions' : \/ s \in sessions /\ s.token # req[r].token
                                   \/ s.token = last + 1 /\ s.previous = req[r].token
<1> DEFINE old == req[r].token
<1>1. Issue(issued[old]) /\ last \in 0..MaxTokens /\ issued \in [Tokens -> Payload]
  BY DEF Rotates, Inv, TypeOK
<1>2. old \in IssuedTokens
  BY DEF Rotates, Inv, TypeOK, Referring, RefreshPcs
<1>3. issued[old] \in Payload
  BY <1>1, <1>2 DEF IssuedTokens, Tokens
<1>4. /\ last' = last + 1 /\ issued'[last + 1] = issued[old]
      /\ \A t \in IssuedTokens : issued'[t] = issued[t]
  BY <1>1, <1>3, Issuing
<1>5. \A s \in sessions' : \/ s \in sessions /\ s.token # old
                           \/ s.token = last + 1 /\ s.previous = old
  BY DEF Rotates, Rotated, Current
<1> QED
  BY <1>1, <1>2, <1>4, <1>5

LEMMA ClearingKeeps ==
    ASSUME NEW r \in Requests, Clears(r)
    PROVE  sessions' \subseteq sessions /\ UNCHANGED <<account, now, cookie, last, issued>>
BY DEF Clears, ClearRefreshToken, UpdateRefreshTokenHash

-----------------------------------------------------------------------------
(* A reset ends the sessions of earlier logins: what a login has read, and *)
(* so every token, has a version that is not ahead of its password         *)

LoginsBehind ==
    \A r \in Requests : req[r].pc = "login" => req[r].seen.version <= req[r].seen.resets

TokensBehind == \A t \in IssuedTokens : issued[t].version <= issued[t].resets

\* A login reads the account as it is.
LEMMA LoginsRead ==
    ASSUME Inv, [Next]_vars, NEW q \in Requests, req'[q].pc = "login"
    PROVE  req'[q] = req[q] \/ (req'[q].seen = account /\ ~account.deleted)
<1>1. req \in [Requests -> Request]
  BY DEF Inv, TypeOK
<1>2. ASSUME NEW r \in Requests, RequestStep(r)
      PROVE  req'[q] = req[q] \/ (req'[q].seen = account /\ ~account.deleted)
  <2>1. ASSUME NEW c \in Clients, ValidateUser(r, c)
        PROVE  req'[q] = req[q] \/ (req'[q].seen = account /\ ~account.deleted)
    BY <1>1, <2>1 DEF ValidateUser, Begin
  <2>2. CASE \E c \in Clients : Refresh(r, c) \/ Logout(r, c) \/ ResetPassword(r, c)
    BY <1>1, <2>2 DEF Refresh, Logout, ResetPassword, Begin
  <2>3. CASE Finish(r)
    BY <1>1, <2>3, Finishing
  <2>4. CASE \E pc \in {"clearCookie"} \cup RefreshPcs \cup LogoutPcs : Goto(r, pc)
    BY <1>1, <2>4, GoingOn DEF RefreshPcs, LogoutPcs
  <2>5. CASE last < MaxTokens /\ Answer(r, last + 1)
    <3>1. last + 1 \in Tokens
      BY <2>5 DEF Tokens, Inv, TypeOK
    <3> QED
      BY <1>1, <2>5, <3>1, Answering
  <2> QED
    BY <1>2, <2>1, <2>2, <2>3, <2>4, <2>5 DEF RequestStep, IssueSessionTokens, Issue,
       SetRefreshCookie, GetAuthState, GetRefreshTokenMatch, RotateRefreshTokenState,
       LogoutMatch, ClearRefreshToken, UpdateRefreshTokenHash, ClearCookie, IncrementTokenVersion, Abort, RefreshPcs, LogoutPcs
<1> QED
  BY <1>2 DEF Next, vars, DeleteUser, Tick

LEMMA BehindStep ==
    ASSUME Inv, LoginsBehind, TokensBehind, [Next]_vars
    PROVE  LoginsBehind' /\ TokensBehind'
<1>1. LoginsBehind'
  <2>1. ~account.deleted => account.version <= account.resets
    BY AccountIs DEF Inv, Behind
  <2> QED
    BY <2>1, LoginsRead DEF LoginsBehind
<1>2. TokensBehind'
  <2>1. CASE UNCHANGED <<last, issued>>
    BY <2>1 DEF TokensBehind, IssuedTokens
  <2>2. ASSUME NEW r \in Requests, IssueSessionTokens(r) PROVE TokensBehind'
    <3>1. req[r].seen.version <= req[r].seen.resets
      BY <2>2 DEF LoginsBehind, IssueSessionTokens
    <3> QED
      BY <2>2, <3>1, LoginIssues DEF TokensBehind, IssuedTokens
  <2>3. ASSUME NEW r \in Requests, Rotates(r) PROVE TokensBehind'
    BY <2>3, RotationIssues DEF TokensBehind, IssuedTokens
  <2> QED
    BY <2>1, <2>2, <2>3, Kinds, ClearingKeeps
<1> QED
  BY <1>1, <1>2

\* Once a reset has incremented token_version no token is accepted that goes back to
\* a login with an earlier password, however login, refresh and resetPassword interleave.
THEOREM ResetsEndSessions == Spec => []ResetEndsSessions
<1> DEFINE I == Inv /\ LoginsBehind /\ TokensBehind
<1>1. Init => I
  <2>1. Init => LoginsBehind /\ TokensBehind
    BY DEF Init, LoginsBehind, TokensBehind, IdleRequest, IssuedTokens
  <2> QED
    BY <2>1, InvInit
<1>2. I /\ [Next]_vars => I'
  BY InvStep, BehindStep
<1>3. I => ResetEndsSessions
  BY DEF TokensBehind, ResetEndsSessions, Accepted
<1> QED
  BY <1>1, <1>2, <1>3, PTL DEF Spec

-----------------------------------------------------------------------------
(* One current token per login: a login is named by a token issued before  *)

LoginsPast == \A t \in IssuedTokens : LoginOf(t) \in IssuedTokens

LEMMA LoginsPastStep ==
    ASSUME Inv, LoginsPast, [Next]_vars
    PROVE  LoginsPast'
<1>1. CASE UNCHANGED <<last, issued>>
  BY <1>1 DEF LoginsPast, IssuedTokens, LoginOf
<1>2. ASSUME NEW r \in Requests, IssueSessionTokens(r) PROVE LoginsPast'
  BY <1>2, LoginIssues DEF LoginsPast, IssuedTokens, LoginOf
<1>3. ASSUME NEW r \in Requests, Rotates(r) PROVE LoginsPast'
  BY <1>3, RotationIssues DEF LoginsPast, IssuedTokens, LoginOf
<1> QED
  BY <1>1, <1>2, <1>3, Kinds, ClearingKeeps

LEMMA SessionsIssued == Inv => \A s \in sessions : s.token \in IssuedTokens
BY DEF Inv, TypeOK, Referring

LEMMA OneTokenStep ==
    ASSUME Inv, LoginsPast, OneTokenPerLogin, [Next]_vars
    PROVE  OneTokenPerLogin'
<1>1. CASE sessions' \subseteq sessions /\ UNCHANGED issued
  BY <1>1 DEF OneTokenPerLogin, LoginOf
<1>2. ASSUME NEW r \in Requests, IssueSessionTokens(r) PROVE OneTokenPerLogin'
  <2> DEFINE new == [token |-> last + 1, previous |-> 0, until |-> 0]
  <2>1. \A s \in sessions' : s \in sessions \/ s = new
    BY <1>2 DEF IssueSessionTokens
  <2>2. new.token = last + 1
    OBVIOUS
  <2> HIDE DEF new
  <2>3. issued'[new.token].login = last + 1 /\ last \in Nat
    BY <1>2, <2>2, LoginIssues DEF LoginOf
  <2>4. \A s \in sessions : issued'[s.token].login = LoginOf(s.token) /\ LoginOf(s.token) # last + 1
    <3>1. \A t \in IssuedTokens : issued'[t] = issued[t] /\ LoginOf(t) # last + 1
      BY <1>2, <2>3, LoginIssues DEF LoginsPast, IssuedTokens
    <3> QED
      BY <3>1, SessionsIssued DEF LoginOf
  <2> SUFFICES ASSUME NEW s \in sessions', NEW t \in sessions', issued'[s.token].login = issued'[t.token].login
               PROVE  s = t
    BY DEF OneTokenPerLogin, LoginOf
  <2> QED
    BY <2>1, <2>3, <2>4 DEF OneTokenPerLogin
<1>3. ASSUME NEW r \in Requests, Rotates(r) PROVE OneTokenPerLogin'
  <2> DEFINE old == req[r].token
             new == Rotated(last + 1, old)
  <2>1. \A s \in sessions' : (s \in sessions /\ s.token # old) \/ s = new
    BY <1>3 DEF Rotates, Current
  <2>2. new.token = last + 1
    BY DEF Rotated
  <2>3. PICK u \in sessions : u.token = old
    BY <1>3 DEF Rotates, Current
  <2> HIDE DEF new
  <2>4. issued'[new.token].login = LoginOf(old)
    BY <1>3, <2>2, RotationIssues DEF LoginOf
  <2>5. \A s \in sessions : issued'[s.token].login = LoginOf(s.token)
    BY <1>3, RotationIssues, SessionsIssued DEF LoginOf
  <2>6. \A s \in sessions : s.token # old => LoginOf(s.token) # LoginOf(old)
    BY <2>3 DEF OneTokenPerLogin
  <2> SUFFICES ASSUME NEW s \in sessions', NEW t \in sessions', issued'[s.token].login = issued'[t.token].login
               PROVE  s = t
    BY DEF OneTokenPerLogin, LoginOf
  <2> HIDE DEF old
  <2> QED
    BY <2>1, <2>4, <2>5, <2>6 DEF OneTokenPerLogin
<1> QED
  BY <1>1, <1>2, <1>3, Kinds, ClearingKeeps

LoginsInv == Inv /\ LoginsPast /\ OneTokenPerLogin

LEMMA LoginsInvariant == Spec => []LoginsInv
<1>1. Init => LoginsInv
  <2>1. Init => LoginsPast /\ OneTokenPerLogin
    BY DEF Init, LoginsPast, OneTokenPerLogin, IssuedTokens
  <2> QED
    BY <2>1, InvInit DEF LoginsInv
<1>2. LoginsInv /\ [Next]_vars => LoginsInv'
  BY InvStep, LoginsPastStep, OneTokenStep DEF LoginsInv
<1> QED
  BY <1>1, <1>2, PTL DEF Spec

\* However refreshes of a login's tokens interleave (rotateRefreshTokenState), the login
\* has at most one session, and so one current token.
THEOREM LoginsNotForked == Spec => []OneTokenPerLogin
<1>1. LoginsInv => OneTokenPerLogin
  BY DEF LoginsInv
<1> QED
  BY <1>1, LoginsInvariant, PTL

-----------------------------------------------------------------------------
(* A logout is final: no session has its token, current or previous        *)

OutGone ==
    /\ out \subseteq IssuedTokens
    /\ ~account.deleted => \A s \in sessions : s.token \notin out /\ s.previous \notin out

LEMMA OutGoneStep ==
    ASSUME Inv, OutGone, [Next]_vars
    PROVE  OutGone'
<1>1. CASE UNCHANGED <<sessions, last, issued, out>>
  BY <1>1, StaysDeleted DEF OutGone, IssuedTokens
<1>2. ASSUME NEW r \in Requests, ClearRefreshToken(r) PROVE OutGone'
  <2> DEFINE t == req[r].token
  <2>1. t \in IssuedTokens /\ out' = out \cup {t} /\ UNCHANGED <<account, last>>
    BY <1>2 DEF ClearRefreshToken, Inv, TypeOK, Referring, LogoutPcs
  <2>2. \/ account.deleted
        \/ sessions' = sessions \ {s \in sessions : s.token = t \/ s.previous = t}
    BY <1>2 DEF ClearRefreshToken
  <2>3. ~account.deleted => \A s \in sessions' : s \in sessions /\ s.token # t /\ s.previous # t
    BY <2>2
  <2>4. out' \subseteq IssuedTokens'
    BY <2>1 DEF OutGone, IssuedTokens
  <2> QED
    BY <2>1, <2>3, <2>4 DEF OutGone
<1>3. ASSUME NEW r \in Requests, IssueSessionTokens(r) PROVE OutGone'
  <2>1. UNCHANGED <<account, out>>
    BY <1>3 DEF IssueSessionTokens
  <2>2. last + 1 \notin out /\ 0 \notin out /\ out \subseteq IssuedTokens'
    BY <1>3, LoginIssues DEF OutGone, IssuedTokens
  <2> QED
    BY <1>3, <2>1, <2>2, LoginIssues DEF OutGone
<1>4. ASSUME NEW r \in Requests, Rotates(r) PROVE OutGone'
  <2>1. UNCHANGED <<account, out>> /\ ~account.deleted
    BY <1>4 DEF Rotates
  <2>2. last + 1 \notin out /\ out \subseteq IssuedTokens'
    BY <1>4, RotationIssues DEF OutGone, IssuedTokens
  <2>3. req[r].token \notin out
    BY <1>4, <2>1 DEF Rotates, Current, OutGone
  <2> QED
    BY <1>4, <2>1, <2>2, <2>3, RotationIssues DEF OutGone
<1>5. ASSUME NEW r \in Requests, UpdateRefreshTokenHash(r) PROVE OutGone'
  BY <1>5 DEF UpdateRefreshTokenHash, OutGone, IssuedTokens
<1> QED
  BY <1>1, <1>2, <1>3, <1>4, <1>5, Kinds DEF Clears

\* The token of a logout that found its session is never accepted again (logout, refresh).
THEOREM LogoutIsFinal == Spec => []LoggedOutTokenDead
<1>1. Init => Inv /\ OutGone
  <2>1. Init => OutGone
    BY DEF Init, OutGone
  <2> QED
    BY <2>1, InvInit
<1>2. (Inv /\ OutGone) /\ [Next]_vars => (Inv /\ OutGone)'
  BY InvStep, OutGoneStep
<1>3. OutGone => LoggedOutTokenDead
  BY DEF OutGone, LoggedOutTokenDead, Accepted, Current, Previous
<1> QED
  BY <1>1, <1>2, <1>3, PTL DEF Spec

-----------------------------------------------------------------------------
(* No client is stranded: only one client has tokens of a login, and what  *)
(* an answer brings is current until it arrives                            *)

Carrying == {"answer"} \cup Presenting

\* Client c has token t in its cookie, or in a request.
Holds(c, t) ==
    \/ cookie[c] = t
    \/ \E r \in Requests : req[r].pc \in Carrying /\ req[r].client = c /\ req[r].token = t

OneHolder ==
    \A c, d \in Clients : \A t, u \in IssuedTokens :
        Holds(c, t) /\ Holds(d, u) /\ LoginOf(t) = LoginOf(u) => c = d

\* The token of an answer is in no cookie and no other request.
AnswersNew ==
    \A r \in Requests : req[r].pc = "answer" =>
        /\ \A c \in Clients : cookie[c] # req[r].token
        /\ \A q \in Requests \ {r} : req[q].pc \in Carrying => req[q].token # req[r].token

AnswersCurrent ==
    \A r \in Requests : req[r].pc = "answer" =>
        \/ LoginOf(req[r].token) \in over
        \/ account.deleted
        \/ \E s \in sessions : s.token = req[r].token

Carried ==
    /\ \A c \in Clients : cookie[c] \in 0..last
    /\ \A r \in Requests : req[r].pc \in Carrying => req[r].token \in IssuedTokens

LEMMA CarriedIs == Inv => Carried
<1> SUFFICES ASSUME Inv PROVE Carried
  OBVIOUS
<1>1. \A c \in Clients : cookie[c] \in Nat /\ cookie[c] <= last
  BY DEF Inv, TypeOK, Referring, Tokens
<1>2. last \in Nat
  BY DEF Inv, TypeOK
<1> QED
  BY <1>1, <1>2 DEF Carried, Carrying, Presenting, Inv, TypeOK, Referring, RefreshPcs, LogoutPcs

\* How a step that issues nothing moves request q.
Kept(q) == req'[q] = req[q]
Dropped(q) == req'[q].pc \notin Carrying
WentOn(q) == /\ req[q].pc \in Presenting /\ req'[q].pc \in Presenting
             /\ req'[q].client = req[q].client /\ req'[q].token = req[q].token
Began(q) == /\ req'[q].pc \in Presenting /\ req[q].pc = "idle" /\ req'[q].client \in Clients
            /\ cookie[req'[q].client] # 0 /\ req'[q].token = cookie[req'[q].client]

Moved(q) == Kept(q) \/ Dropped(q) \/ WentOn(q) \/ Began(q)

LEMMA RequestMoves ==
    ASSUME Inv, [Next]_vars, NEW q \in Requests
    PROVE  Moved(q) \/ IssueSessionTokens(q) \/ Rotates(q)
<1>1. req \in [Requests -> Request]
  BY DEF Inv, TypeOK
<1>2. ASSUME NEW r \in Requests, RequestStep(r)
      PROVE  Moved(q) \/ IssueSessionTokens(q) \/ Rotates(q)
  <2>1. ASSUME NEW c \in Clients, ValidateUser(r, c) PROVE Moved(q)
    BY <1>1, <2>1 DEF ValidateUser, Begin, Moved, Kept, Dropped, Carrying, Presenting, RefreshPcs, LogoutPcs
  <2>2. ASSUME NEW c \in Clients, Refresh(r, c) \/ Logout(r, c) PROVE Moved(q)
    <3>1. \/ Begin(r, "authState", c, cookie[c], NewAccount)
          \/ Begin(r, "logoutMatch", c, cookie[c], NewAccount)
      BY <2>2 DEF Refresh, Logout
    <3>2. cookie[c] # 0 /\ cookie[c] \in Tokens \cup {0}
      BY <2>2 DEF Refresh, Logout, Inv, TypeOK
    <3>3. /\ req[r].pc = "idle" /\ req'[r].pc \in Presenting /\ req'[r].client = c
          /\ req'[r].token = cookie[c] /\ \A x \in Requests \ {r} : req'[x] = req[x]
      BY <1>1, <3>1, <3>2, Idle, Beginning DEF Presenting, RefreshPcs, LogoutPcs
    <3> QED
      BY <3>2, <3>3 DEF Moved, Kept, Began
  <2>3. CASE Finish(r)
    BY <1>1, <2>3, Finishing DEF Moved, Kept, Dropped, Carrying, Presenting, RefreshPcs, LogoutPcs
  <2>4. CASE req[r].pc \in Presenting /\ \E pc \in RefreshPcs \cup LogoutPcs : Goto(r, pc)
    BY <1>1, <2>4, GoingOn DEF Moved, Kept, WentOn, Presenting
  <2>5. CASE Goto(r, "clearCookie")
    BY <1>1, <2>5, GoingOn DEF Moved, Kept, Dropped, Carrying, Presenting, RefreshPcs, LogoutPcs
  <2>6. ASSUME NEW c \in Clients, ResetPassword(r, c) PROVE Moved(q)
    BY <1>1, <2>6 DEF ResetPassword, Begin, Moved, Kept, Dropped, Carrying, Presenting, RefreshPcs, LogoutPcs
  <2>7. CASE IssueSessionTokens(r) \/ Rotates(r)
    <3>1. Answer(r, last + 1) /\ last + 1 \in Tokens
      BY <2>7 DEF IssueSessionTokens, Rotates, Issue, Tokens, Inv, TypeOK
    <3> QED
      BY <1>1, <2>7, <3>1, Answering DEF Moved, Kept
  <2>8. CASE RotateRefreshTokenState(r)
    BY <2>3, <2>7, <2>8 DEF RotateRefreshTokenState, Rotates
  <2>9. CASE \/ GetAuthState(r) \/ GetRefreshTokenMatch(r) \/ LogoutMatch(r)
             \/ Clears(r) \/ IncrementTokenVersion(r)
    BY <2>3, <2>4, <2>9, <2>5 DEF GetAuthState, GetRefreshTokenMatch, LogoutMatch, Clears, ClearRefreshToken, UpdateRefreshTokenHash,
       IncrementTokenVersion, Presenting, RefreshPcs, LogoutPcs
  <2>10. CASE SetRefreshCookie(r) \/ ClearCookie(r) \/ Abort(r)
    BY <2>3, <2>10 DEF SetRefreshCookie, ClearCookie, Abort
  <2> QED
    BY <1>2, <2>1, <2>2, <2>6, <2>7, <2>8, <2>9, <2>10 DEF RequestStep, Clears
<1> QED
  BY <1>2 DEF Next, vars, DeleteUser, Tick, Moved, Kept

\* A request leaves "answer" when the client gets the cookie, or never does.
LEMMA AnswerLeaves ==
    ASSUME Inv, [Next]_vars, NEW q \in Requests, req[q].pc = "answer"
    PROVE  Kept(q) \/ SetRefreshCookie(q) \/ Abort(q)
<1>1. req \in [Requests -> Request]
  BY DEF Inv, TypeOK
<1>2. ASSUME NEW r \in Requests, RequestStep(r), r # q
      PROVE  Kept(q)
  <2>1. \E x : req' = [req EXCEPT ![r] = x]
    BY <1>2 DEF RequestStep, ValidateUser, IssueSessionTokens, Refresh, Logout, SetRefreshCookie,
       GetAuthState, GetRefreshTokenMatch, RotateRefreshTokenState, LogoutMatch, ClearRefreshToken, UpdateRefreshTokenHash,
       ClearCookie, ResetPassword, IncrementTokenVersion, Abort, Begin, Goto, Answer, Finish
  <2> QED
    BY <1>1, <1>2, <2>1 DEF Kept
<1>3. ASSUME RequestStep(q)
      PROVE  SetRefreshCookie(q) \/ Abort(q)
  BY <1>3 DEF RequestStep, ValidateUser, IssueSessionTokens, Refresh, Logout,
     GetAuthState, GetRefreshTokenMatch, RotateRefreshTokenState, LogoutMatch, ClearRefreshToken, UpdateRefreshTokenHash,
     ClearCookie, ResetPassword, IncrementTokenVersion, Begin
<1> QED
  BY <1>2, <1>3 DEF Next, vars, DeleteUser, Tick, Kept

\* A cookie changes only when a response sets or clears it.
LEMMA CookieMoves ==
    ASSUME Inv, [Next]_vars, NEW c \in Clients
    PROVE  \/ cookie'[c] \in {0, cookie[c]}
           \/ \E r \in Requests : SetRefreshCookie(r) /\ req[r].client = c /\ cookie'[c] = req[r].token
<1>1. cookie \in [Clients -> Tokens \cup {0}]
  BY DEF Inv, TypeOK
<1>2. ASSUME NEW r \in Requests, RequestStep(r)
      PROVE  \/ cookie'[c] \in {0, cookie[c]}
             \/ SetRefreshCookie(r) /\ req[r].client = c /\ cookie'[c] = req[r].token
  <2>1. CASE SetRefreshCookie(r)
    BY <1>1, <2>1 DEF SetRefreshCookie
  <2>2. CASE ClearCookie(r)
    BY <1>1, <2>2 DEF ClearCookie
  <2> QED
    BY <1>2, <2>1, <2>2 DEF RequestStep, ValidateUser, IssueSessionTokens, Refresh, Logout,
       GetAuthState, GetRefreshTokenMatch, RotateRefreshTokenState, LogoutMatch, ClearRefreshToken, UpdateRefreshTokenHash,
       ResetPassword, IncrementTokenVersion, Abort
<1> QED
  BY <1>2 DEF Next, vars, DeleteUser, Tick

\* The step that issues token n to r leaves every other request and the cookies.
LEMMA IssueMoves ==
    ASSUME Inv, NEW r \in Requests, IssueSessionTokens(r) \/ Rotates(r), NEW n, n = last + 1
    PROVE  /\ req'[r].pc = "answer" /\ req'[r].client = req[r].client /\ req'[r].token = n
           /\ req[r].pc \in {"login", "rotate"}
           /\ \A q \in Requests \ {r} : req'[q] = req[q]
           /\ UNCHANGED <<cookie, over, account>> /\ last' = n
           /\ IssuedTokens' = IssuedTokens \cup {n} /\ n \notin IssuedTokens
           /\ \A c \in Clients : cookie[c] # n
           /\ \A q \in Requests : req[q].pc \in Carrying => req[q].token # n
           /\ \A t \in IssuedTokens : issued'[t] = issued[t]
<1>1. req \in [Requests -> Request] /\ last + 1 \in Tokens /\ Answer(r, last + 1)
  BY DEF IssueSessionTokens, Rotates, Issue, Tokens, Inv, TypeOK
<1>2. /\ req'[r].pc = "answer" /\ req'[r].client = req[r].client /\ req'[r].token = n
      /\ \A q \in Requests \ {r} : req'[q] = req[q]
  BY <1>1, Answering
<1>3. last \in Nat /\ last' = last + 1 /\ \A t \in IssuedTokens : issued'[t] = issued[t]
  BY LoginIssues, RotationIssues
<1>4. IssuedTokens' = IssuedTokens \cup {n} /\ n \notin IssuedTokens /\ n \notin 0..last
  BY <1>3 DEF IssuedTokens
<1>5. /\ \A c \in Clients : cookie[c] # n
      /\ \A q \in Requests : req[q].pc \in Carrying => req[q].token # n
  BY <1>4, CarriedIs DEF Carried
<1>6. UNCHANGED <<cookie, over, account>> /\ req[r].pc \in {"login", "rotate"}
  BY DEF IssueSessionTokens, Rotates
<1> QED
  BY <1>2, <1>3, <1>4, <1>5, <1>6

LEMMA OneHolderIssue ==
    ASSUME Inv, LoginsPast, OneHolder, NEW r \in Requests, IssueSessionTokens(r) \/ Rotates(r)
    PROVE  OneHolder'
<1>1. PICK n : n = last + 1
  OBVIOUS
<1>2. /\ req'[r].client = req[r].client /\ req'[r].token = n
      /\ \A q \in Requests \ {r} : req'[q] = req[q]
      /\ UNCHANGED cookie /\ IssuedTokens' = IssuedTokens \cup {n} /\ n \notin IssuedTokens
      /\ \A c \in Clients : cookie[c] # n
      /\ \A q \in Requests : req[q].pc \in Carrying => req[q].token # n
      /\ \A t \in IssuedTokens : issued'[t] = issued[t]
  BY <1>1, IssueMoves
<1>3. ASSUME NEW c \in Clients, NEW t \in IssuedTokens, Holds(c, t)' PROVE Holds(c, t)
  BY <1>2, <1>3 DEF Holds
<1>4. ASSUME NEW c \in Clients, Holds(c, n)' PROVE c = req[r].client
  BY <1>2, <1>4 DEF Holds
<1>5. ASSUME NEW c \in Clients, NEW u \in IssuedTokens, Holds(c, u), issued'[n].login = LoginOf(u)
      PROVE  c = req[r].client
  <2>1. CASE IssueSessionTokens(r)
    BY <1>1, <1>2, <1>5, <2>1, LoginIssues DEF LoginsPast
  <2>2. CASE Rotates(r)
    <3>1. req[r].pc = "rotate" /\ req[r].client \in Clients
      BY <2>2 DEF Rotates, Inv, TypeOK, Referring, RefreshPcs
    <3>2. Holds(req[r].client, req[r].token)
      BY <3>1 DEF Holds, Carrying, Presenting, RefreshPcs
    <3>3. req[r].token \in IssuedTokens /\ issued'[n].login = LoginOf(req[r].token)
      BY <1>1, <2>2, RotationIssues DEF LoginOf
    <3> QED
      BY <1>5, <3>1, <3>2, <3>3 DEF OneHolder
  <2> QED
    BY <2>1, <2>2
<1> SUFFICES ASSUME NEW c \in Clients, NEW d \in Clients, NEW t \in IssuedTokens', NEW u \in IssuedTokens',
                    Holds(c, t)', Holds(d, u)', issued'[t].login = issued'[u].login
             PROVE  c = d
  BY DEF OneHolder, LoginOf
<1>6. CASE t \in IssuedTokens /\ u \in IssuedTokens
  BY <1>2, <1>3, <1>6 DEF OneHolder, LoginOf
<1>7. CASE t = n /\ u \in IssuedTokens
  BY <1>2, <1>3, <1>4, <1>5, <1>7 DEF LoginOf
<1>8. CASE t \in IssuedTokens /\ u = n
  BY <1>2, <1>3, <1>4, <1>5, <1>8 DEF LoginOf
<1>9. CASE t = n /\ u = n
  BY <1>4, <1>9
<1> QED
  BY <1>2, <1>6, <1>7, <1>8, <1>9

LEMMA OneHolderMove ==
    ASSUME Inv, OneHolder, [Next]_vars, UNCHANGED <<last, issued>>
    PROVE  OneHolder'
<1>1. ASSUME NEW q \in Requests PROVE Moved(q)
  BY RequestMoves, LoginIssues, RotationIssues
<1>2. ASSUME NEW c \in Clients, NEW t \in IssuedTokens, Holds(c, t)' PROVE Holds(c, t)
  <2>1. t # 0
    BY DEF IssuedTokens
  <2>2. ASSUME cookie'[c] = t PROVE Holds(c, t)
    BY <2>1, <2>2, CookieMoves DEF Holds, SetRefreshCookie, Carrying
  <2>3. ASSUME NEW q \in Requests, req'[q].pc \in Carrying, req'[q].client = c, req'[q].token = t
        PROVE  Holds(c, t)
    BY <1>1, <2>3 DEF Moved, Kept, Dropped, WentOn, Began, Holds, Carrying
  <2> QED
    BY <1>2, <2>2, <2>3 DEF Holds
<1>3. IssuedTokens' = IssuedTokens
  BY DEF IssuedTokens
<1> SUFFICES ASSUME NEW c \in Clients, NEW d \in Clients, NEW t \in IssuedTokens, NEW u \in IssuedTokens,
                    Holds(c, t)', Holds(d, u)', LoginOf(t) = LoginOf(u)
             PROVE  c = d
  BY <1>3 DEF OneHolder, LoginOf
<1> QED
  BY <1>2 DEF OneHolder

LEMMA AnswersNewStep ==
    ASSUME Inv, AnswersNew, [Next]_vars
    PROVE  AnswersNew'
<1>1. ASSUME NEW r \in Requests, IssueSessionTokens(r) \/ Rotates(r) PROVE AnswersNew'
  <2>1. PICK n : n = last + 1
    OBVIOUS
  <2>2. /\ req'[r].pc = "answer" /\ req'[r].token = n /\ \A q \in Requests \ {r} : req'[q] = req[q]
        /\ UNCHANGED cookie /\ \A c \in Clients : cookie[c] # n
        /\ \A q \in Requests : req[q].pc \in Carrying => req[q].token # n
    BY <1>1, <2>1, IssueMoves
  <2> QED
    BY <2>2 DEF AnswersNew, Carrying
<1>2. CASE \A r \in Requests : ~(IssueSessionTokens(r) \/ Rotates(r))
  <2>1. ASSUME NEW q \in Requests PROVE Moved(q)
    BY <1>2, RequestMoves
  <2> SUFFICES ASSUME NEW r \in Requests, req'[r].pc = "answer"
               PROVE  /\ \A c \in Clients : cookie'[c] # req'[r].token
                      /\ \A q \in Requests \ {r} : req'[q].pc \in Carrying => req'[q].token # req'[r].token
    BY DEF AnswersNew
  <2>2. req'[r] = req[r] /\ req[r].pc = "answer"
    BY <2>1 DEF Moved, Kept, Dropped, WentOn, Began, Carrying, Presenting, RefreshPcs, LogoutPcs
  <2>3. req[r].token # 0
    BY <2>2, CarriedIs DEF Carried, Carrying, IssuedTokens
  <2>4. ASSUME NEW c \in Clients PROVE cookie'[c] # req[r].token
    <3>1. CASE cookie'[c] \in {0, cookie[c]}
      BY <2>2, <2>3, <3>1 DEF AnswersNew
    <3>2. ASSUME NEW q \in Requests, SetRefreshCookie(q), cookie'[c] = req[q].token
          PROVE  cookie'[c] # req[r].token
      <4>1. req \in [Requests -> Request] /\ Finish(q) /\ req[q].pc = "answer"
        BY <3>2 DEF SetRefreshCookie, Inv, TypeOK
      <4>2. q # r
        BY <2>2, <4>1, Finishing
      <4> QED
        BY <2>2, <3>2, <4>1, <4>2 DEF AnswersNew, Carrying
    <3> QED
      BY <3>1, <3>2, CookieMoves
  <2>5. ASSUME NEW q \in Requests \ {r}, req'[q].pc \in Carrying PROVE req'[q].token # req[r].token
    BY <2>1, <2>2, <2>5 DEF Moved, Kept, Dropped, WentOn, Began, Carrying, AnswersNew
  <2> QED
    BY <2>2, <2>4, <2>5
<1> QED
  BY <1>1, <1>2

\* A step that issues nothing keeps a session or ends its login; logins that are over stay so.
LEMMA SessionKeeps ==
    ASSUME Inv, [Next]_vars, \A r \in Requests : ~(IssueSessionTokens(r) \/ Rotates(r))
    PROVE  /\ over \subseteq over' /\ UNCHANGED <<last, issued>> /\ sessions' \subseteq sessions
           /\ \A s \in sessions : s \in sessions' \/ LoginOf(s.token) \in over'
<1>1. over \subseteq over'
  <2>1. ASSUME NEW r \in Requests, RequestStep(r) PROVE over \subseteq over'
    BY <2>1 DEF RequestStep, ValidateUser, IssueSessionTokens, Refresh, Logout, SetRefreshCookie,
       GetAuthState, GetRefreshTokenMatch, RotateRefreshTokenState, LogoutMatch, ClearRefreshToken, UpdateRefreshTokenHash,
       ClearCookie, ResetPassword, IncrementTokenVersion, Abort
  <2> QED
    BY <2>1 DEF Next, vars, DeleteUser, Tick
<1>2. CASE UNCHANGED <<sessions, last, issued, out>>
  BY <1>1, <1>2
<1>3. ASSUME NEW r \in Requests, Clears(r)
      PROVE  /\ UNCHANGED <<last, issued>> /\ sessions' \subseteq sessions
             /\ \A s \in sessions : s \in sessions' \/ LoginOf(s.token) \in over'
  BY <1>3, ClearingKeeps DEF Clears, ClearRefreshToken, UpdateRefreshTokenHash
<1> QED
  BY <1>1, <1>2, <1>3, Kinds

\* The same of the step that issues token n to r: it replaces the session it rotates.
LEMMA SessionIssue ==
    ASSUME Inv, NEW r \in Requests, IssueSessionTokens(r) \/ Rotates(r), NEW n, n = last + 1
    PROVE  /\ \A s \in sessions : s \in sessions' \/ (Rotates(r) /\ s.token = req[r].token)
           /\ account.deleted \/ \E s \in sessions' : s.token = n
<1>1. CASE IssueSessionTokens(r)
  <2> DEFINE new == [token |-> last + 1, previous |-> 0, until |-> 0]
  <2>1. sessions' = sessions \cup (IF account.deleted THEN {} ELSE {new})
    BY <1>1 DEF IssueSessionTokens
  <2>2. new.token = n
    OBVIOUS
  <2> HIDE DEF new
  <2> QED
    BY <2>1, <2>2
<1>2. CASE Rotates(r)
  <2>1. Rotated(last + 1, req[r].token).token = n
    BY DEF Rotated
  <2> QED
    BY <1>2, <2>1 DEF Rotates, Current
<1> QED
  BY <1>1, <1>2

LEMMA AnswersCurrentStep ==
    ASSUME Inv, AnswersNew, AnswersCurrent, [Next]_vars
    PROVE  AnswersCurrent'
<1>1. ASSUME NEW r \in Requests, IssueSessionTokens(r) \/ Rotates(r) PROVE AnswersCurrent'
  <2>1. PICK n : n = last + 1
    OBVIOUS
  <2>2. /\ req'[r].token = n /\ \A q \in Requests \ {r} : req'[q] = req[q]
        /\ UNCHANGED <<over, account>> /\ req[r].pc \in {"login", "rotate"}
        /\ \A t \in IssuedTokens : issued'[t] = issued[t]
    BY <1>1, <2>1, IssueMoves
  <2>3. /\ \A s \in sessions : s \in sessions' \/ (Rotates(r) /\ s.token = req[r].token)
        /\ account.deleted \/ \E s \in sessions' : s.token = n
    BY <1>1, <2>1, SessionIssue
  <2>4. \A q \in Requests \ {r} : req[q].pc = "answer" => req[q].token \in IssuedTokens
    BY CarriedIs DEF Carried, Carrying
  <2>5. ASSUME NEW q \in Requests \ {r}, req[q].pc = "answer", Rotates(r) PROVE req[q].token # req[r].token
    <3>1. req[r].pc \in Carrying
      BY <2>5 DEF Rotates, Carrying, Presenting, RefreshPcs
    <3> QED
      BY <2>5, <3>1 DEF AnswersNew
  <2> QED
    BY <2>2, <2>3, <2>4, <2>5 DEF AnswersCurrent, LoginOf
<1>2. CASE \A r \in Requests : ~(IssueSessionTokens(r) \/ Rotates(r))
  <2>1. ASSUME NEW q \in Requests, req'[q].pc = "answer" PROVE req'[q] = req[q]
    BY <1>2, <2>1, RequestMoves
       DEF Moved, Kept, Dropped, WentOn, Began, Carrying, Presenting, RefreshPcs, LogoutPcs
  <2> QED
    BY <1>2, <2>1, SessionKeeps, StaysDeleted DEF AnswersCurrent, LoginOf
<1> QED
  BY <1>1, <1>2

\* The cookie of client c is of use.
Served(c) ==
    \/ LoginOf(cookie[c]) \in over
    \/ account.deleted
    \/ \E s \in sessions :
        /\ LoginOf(s.token) = LoginOf(cookie[c])
        /\ \/ s.token = cookie[c]
           \/ \E r \in Requests :
                req[r].pc = "answer" /\ req[r].client = c /\ req[r].token = s.token

LEMMA NotStrandedIs == NotStranded <=> \A c \in Clients : cookie[c] # 0 => Served(c)
BY DEF NotStranded, Served

LEMMA ServedIssue ==
    ASSUME Inv, OneHolder, AnswersNew, NEW r \in Requests, IssueSessionTokens(r) \/ Rotates(r),
           NEW c \in Clients, cookie[c] # 0, Served(c)
    PROVE  Served(c)'
<1>1. PICK n : n = last + 1
  OBVIOUS
<1>2. /\ req'[r].token = n /\ req'[r].pc = "answer" /\ req'[r].client = req[r].client
      /\ \A q \in Requests \ {r} : req'[q] = req[q]
      /\ UNCHANGED <<cookie, over, account>> /\ req[r].pc \in {"login", "rotate"}
      /\ \A t \in IssuedTokens : issued'[t] = issued[t]
  BY <1>1, IssueMoves
<1>3. /\ \A s \in sessions : s \in sessions' \/ (Rotates(r) /\ s.token = req[r].token)
      /\ account.deleted \/ \E s \in sessions' : s.token = n
  BY <1>1, SessionIssue
<1>4. cookie[c] \in IssuedTokens
  BY CarriedIs DEF Carried, IssuedTokens
<1>5. CASE LoginOf(cookie[c]) \in over \/ account.deleted
  BY <1>2, <1>4, <1>5 DEF Served, LoginOf
<1>6. ASSUME NEW s \in sessions, LoginOf(s.token) = LoginOf(cookie[c]),
             \/ s.token = cookie[c]
             \/ \E q \in Requests : req[q].pc = "answer" /\ req[q].client = c /\ req[q].token = s.token
      PROVE  Served(c)'
  <2>1. s.token \in IssuedTokens
    BY SessionsIssued
  <2>2. CASE s \in sessions'
    <3>1. issued'[s.token].login = issued'[cookie[c]].login
      BY <1>2, <1>4, <1>6, <2>1 DEF LoginOf
    <3>2. \/ s.token = cookie[c]
          \/ \E q \in Requests : req'[q].pc = "answer" /\ req'[q].client = c /\ req'[q].token = s.token
      BY <1>2, <1>6
    <3> QED
      BY <1>2, <2>2, <3>1, <3>2 DEF Served, LoginOf
  <2>3. CASE Rotates(r) /\ s.token = req[r].token /\ ~account.deleted
    <3>1. req[r].pc = "rotate" /\ req[r].pc \in Carrying /\ req[r].client \in Clients
      BY <2>3 DEF Rotates, Carrying, Presenting, RefreshPcs, Inv, TypeOK, Referring
    <3>2. s.token = cookie[c]
      BY <1>6, <2>3, <3>1 DEF AnswersNew
    <3>3. Holds(c, s.token) /\ Holds(req[r].client, s.token)
      BY <2>3, <3>1, <3>2 DEF Holds
    <3>4. req[r].client = c
      BY <2>1, <3>1, <3>3 DEF OneHolder
    <3>5. issued'[n].login = issued'[cookie[c]].login
      <4>1. issued'[last + 1] = issued[req[r].token]
        BY <2>3, RotationIssues
      <4>2. issued'[n] = issued[cookie[c]]
        BY <1>1, <2>3, <3>2, <4>1
      <4>3. issued'[cookie[c]] = issued[cookie[c]]
        BY <1>2, <1>4
      <4> QED
        BY <4>2, <4>3
    <3> QED
      BY <1>2, <1>3, <2>3, <3>4, <3>5 DEF Served, LoginOf
  <2> QED
    BY <1>3, <1>5, <2>2, <2>3
<1> QED
  BY <1>5, <1>6 DEF Served

LEMMA ServedMove ==
    ASSUME Inv, AnswersCurrent, [Next]_vars, \A r \in Requests : ~(IssueSessionTokens(r) \/ Rotates(r)),
           NEW c \in Clients, cookie'[c] # 0, cookie[c] # 0 => Served(c)
    PROVE  Served(c)'
<1>1. /\ over \subseteq over' /\ UNCHANGED <<last, issued>>
      /\ \A s \in sessions : s \in sessions' \/ LoginOf(s.token) \in over'
  BY SessionKeeps
<1>2. account.deleted => account'.deleted
  BY StaysDeleted
<1>3. ASSUME NEW r \in Requests, SetRefreshCookie(r), req[r].client = c, cookie'[c] = req[r].token
      PROVE  Served(c)'
  <2>1. req[r].pc = "answer"
    BY <1>3 DEF SetRefreshCookie
  <2> QED
    BY <1>1, <1>2, <1>3, <2>1 DEF AnswersCurrent, Served, LoginOf
<1>4. CASE cookie'[c] = cookie[c]
  <2>1. CASE LoginOf(cookie[c]) \in over \/ account.deleted
    BY <1>1, <1>2, <1>4, <2>1 DEF Served, LoginOf
  <2>2. ASSUME NEW s \in sessions, LoginOf(s.token) = LoginOf(cookie[c]), s.token = cookie[c]
        PROVE  Served(c)'
    BY <1>1, <1>4, <2>2 DEF Served, LoginOf
  <2>3. ASSUME NEW s \in sessions, LoginOf(s.token) = LoginOf(cookie[c]),
               NEW q \in Requests, req[q].pc = "answer", req[q].client = c, req[q].token = s.token
        PROVE  Served(c)'
    <3>1. CASE Kept(q)
      <4>1. req'[q].pc = "answer" /\ req'[q].client = c /\ req'[q].token = s.token
        BY <2>3, <3>1 DEF Kept
      <4>2. LoginOf(s.token)' = LoginOf(cookie[c])'
        BY <1>1, <1>4, <2>3 DEF LoginOf
      <4>3. LoginOf(s.token) \in over' => Served(c)'
        BY <1>1, <4>2 DEF Served, LoginOf
      <4> QED
        BY <1>1, <4>1, <4>2, <4>3 DEF Served
    <3>2. CASE SetRefreshCookie(q)
      <4>1. cookie'[c] = req[q].token
        BY <2>3, <3>2 DEF SetRefreshCookie, Inv, TypeOK
      <4> QED
        BY <1>3, <2>3, <3>2, <4>1
    <3>3. CASE Abort(q)
      BY <1>1, <1>4, <2>3, <3>3 DEF Abort, Served, LoginOf
    <3> QED
      BY <2>3, <3>1, <3>2, <3>3, AnswerLeaves
  <2> QED
    BY <1>4, <2>1, <2>2, <2>3 DEF Served
<1> QED
  BY <1>3, <1>4, CookieMoves

LEMMA NotStrandedStep ==
    ASSUME Inv, OneHolder, AnswersNew, AnswersCurrent, NotStranded, [Next]_vars
    PROVE  NotStranded'
<1> SUFFICES ASSUME NEW c \in Clients, cookie'[c] # 0 PROVE Served(c)'
  BY DEF NotStranded, Served
<1>1. cookie[c] # 0 => Served(c)
  BY NotStrandedIs
<1>2. ASSUME NEW r \in Requests, IssueSessionTokens(r) \/ Rotates(r) PROVE Served(c)'
  <2>1. cookie[c] # 0
    BY <1>2 DEF IssueSessionTokens, Rotates
  <2> QED
    BY <1>1, <1>2, <2>1, ServedIssue
<1> QED
  BY <1>1, <1>2, ServedMove

\* A client whose responses all arrive is never left with a useless cookie by its own
\* concurrent refreshes (getRefreshTokenMatch, rotateRefreshTokenState).
THEOREM ClientsNotStranded == Spec => []NotStranded
<1> DEFINE S == OneHolder /\ AnswersNew /\ AnswersCurrent /\ NotStranded
           I == LoginsInv /\ S
<1>1. Init => I
  <2> SUFFICES ASSUME Init PROVE I
    OBVIOUS
  <2>1. OneHolder /\ AnswersNew /\ AnswersCurrent /\ NotStranded
    BY DEF Init, OneHolder, AnswersNew, AnswersCurrent, NotStranded, IssuedTokens, IdleRequest
  <2>2. LoginsPast /\ OneTokenPerLogin
    BY DEF Init, LoginsPast, OneTokenPerLogin, IssuedTokens
  <2> QED
    BY <2>1, <2>2, InvInit DEF LoginsInv
<1>2. I /\ [Next]_vars => I'
  <2> SUFFICES ASSUME I, [Next]_vars PROVE I'
    OBVIOUS
  <2>1. LoginsInv'
    BY InvStep, LoginsPastStep, OneTokenStep DEF LoginsInv
  <2>2. AnswersNew' /\ AnswersCurrent' /\ NotStranded'
    BY AnswersNewStep, AnswersCurrentStep, NotStrandedStep DEF LoginsInv
  <2>3. OneHolder'
    <3>1. ASSUME NEW r \in Requests, IssueSessionTokens(r) \/ Rotates(r) PROVE OneHolder'
      BY <3>1, OneHolderIssue DEF LoginsInv
    <3>2. CASE \A r \in Requests : ~(IssueSessionTokens(r) \/ Rotates(r))
      BY <3>2, SessionKeeps, OneHolderMove DEF LoginsInv
    <3> QED
      BY <3>1, <3>2
  <2> QED
    BY <2>1, <2>2, <2>3
<1>3. I => NotStranded
  OBVIOUS
<1> QED
  BY <1>1, <1>2, <1>3, PTL DEF Spec

================================================================================
