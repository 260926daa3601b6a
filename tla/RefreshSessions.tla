----------------------------- MODULE RefreshSessions -----------------------------
(***************************************************************************)
(* The sessions of one account: login, refresh and logout of AuthService   *)
(* and the password reset that ends them, over refresh_sessions and        *)
(* token_version of the account's document in UsersService. Requests       *)
(* interleave at their awaits; each update of the document is atomic.      *)
(*                                                                         *)
(* A token is the jti of a refresh token: it stands for the token's hash,  *)
(* since the two are stored and compared together. Accounts share nothing. *)
(***************************************************************************)
EXTENDS Naturals, FiniteSets

CONSTANTS
    Clients,    \* browsers and apps: each keeps the refresh token in a cookie
    NoClient,
    Requests,   \* requests in flight
    Grace,      \* JWT_REFRESH_ROTATION_GRACE_MS
    MaxTime,    \* bound: the clock
    MaxTokens,  \* bound: refresh tokens issued
    MaxResets   \* bound: times the password is reset

ASSUME RefreshAssumption ==
    /\ NoClient \notin Clients /\ IsFiniteSet(Requests)
    /\ Grace \in Nat /\ MaxTime \in Nat /\ MaxTokens \in Nat /\ MaxResets \in Nat

VARIABLES
    account,   \* the document: its password, by the resets that set it; token_version; deletion
    sessions,  \* its refresh_sessions
    now,
    cookie,    \* the token in each client's cookie, or 0
    req,       \* each request: where it is and what it remembers
    last,      \* tokens 1..last have been issued
    issued,    \* the payload of each token
    over,      \* history: logins a logout ended or whose token a client never got
    out        \* history: tokens of logouts that cleared their session

vars == <<account, sessions, now, cookie, req, last, issued, over, out>>

Tokens == 1..MaxTokens
Times == 0..(MaxTime + Grace)
Resets == 0..MaxResets
Versions == 0..(MaxResets + 1)

\* The profile may change the password too, without an effect on tokens or sessions.
Account == [resets : Resets, version : Versions, deleted : BOOLEAN]

\* The current token of a session, the one it replaced and how long that still serves.
Session == [token : Tokens, previous : Tokens \cup {0}, until : Times]

\* token_version; history: the resets there had been at the login the token goes
\* back to, and that login, named by its first token.
Payload == [version : Versions, resets : Resets, login : Tokens \cup {0}]
NoPayload == [version |-> 0, resets |-> 0, login |-> 0]

RefreshPcs == {"authState", "match", "rotate"}
LogoutPcs == {"logoutMatch", "clear", "clearAll"}

\* token: the one presented, or the new one at "answer"; seen: what a login read.
Request == [pc : {"idle", "login", "answer", "version", "clearCookie"} \cup RefreshPcs \cup LogoutPcs,
            client : Clients \cup {NoClient}, token : Tokens \cup {0}, seen : Account]

NewAccount == [resets |-> 0, version |-> 0, deleted |-> FALSE]
IdleRequest == [pc |-> "idle", client |-> NoClient, token |-> 0, seen |-> NewAccount]

Init ==
    /\ account = NewAccount
    /\ sessions = {}
    /\ now = 0
    /\ cookie = [c \in Clients |-> 0]
    /\ req = [r \in Requests |-> IdleRequest]
    /\ last = 0
    /\ issued = [t \in Tokens |-> NoPayload]
    /\ over = {} /\ out = {}

LoginOf(t) == issued[t].login

\* getRefreshTokenMatch.
Current(t) == {s \in sessions : s.token = t}
Previous(t) == {s \in sessions : s.previous = t /\ s.until > now}

Begin(r, pc, c, t, seen) ==
    /\ req[r].pc = "idle"
    /\ req' = [req EXCEPT ![r] = [pc |-> pc, client |-> c, token |-> t, seen |-> seen]]

Goto(r, pc) == req' = [req EXCEPT ![r] = [req[r] EXCEPT !.pc = pc]]
Answer(r, t) == req' = [req EXCEPT ![r] = [req[r] EXCEPT !.pc = "answer", !.token = t]]
Finish(r) == req' = [req EXCEPT ![r] = IdleRequest]

\* A new token with the given payload.
Issue(payload) ==
    /\ last < MaxTokens
    /\ last' = last + 1
    /\ issued' = [issued EXCEPT ![last + 1] = payload]

-----------------------------------------------------------------------------
(* login                                                                   *)

\* validateUser, or the Google sign-in: the account is read once.
ValidateUser(r, c) ==
    /\ ~account.deleted
    /\ Begin(r, "login", c, 0, account)
    /\ UNCHANGED <<account, sessions, now, cookie, last, issued, over, out>>

\* MUTANT: the version is read when the tokens are issued.
IssueWithLaterVersion(r) ==
    LET t == last + 1 IN
    /\ req[r].pc = "login"
    /\ Issue([version |-> account.version, resets |-> req[r].seen.resets, login |-> t])
    /\ sessions' = sessions \cup (IF account.deleted THEN {}
                                  ELSE {[token |-> t, previous |-> 0, until |-> 0]})
    /\ Answer(r, t)
    /\ UNCHANGED <<account, now, cookie, over, out>>

IssueSessionTokens(r) ==
    LET t == last + 1 IN
    /\ req[r].pc = "login"
    /\ Issue([version |-> req[r].seen.version, resets |-> req[r].seen.resets, login |-> t])
    /\ sessions' = sessions \cup (IF account.deleted THEN {}
                                  ELSE {[token |-> t, previous |-> 0, until |-> 0]})
    /\ Answer(r, t)
    /\ UNCHANGED <<account, now, cookie, over, out>>

\* The response sets the client's cookie.
SetRefreshCookie(r) ==
    /\ req[r].pc = "answer"
    /\ cookie' = [cookie EXCEPT ![req[r].client] = req[r].token]
    /\ Finish(r)
    /\ UNCHANGED <<account, sessions, now, last, issued, over, out>>

-----------------------------------------------------------------------------
(* refresh                                                                 *)

\* MUTANT: the controller does not look whether there is a cookie.
RefreshAnyway(r, c) ==
    /\ Begin(r, "authState", c, cookie[c], NewAccount)
    /\ UNCHANGED <<account, sessions, now, cookie, last, issued, over, out>>

Refresh(r, c) ==
    /\ cookie[c] # 0
    /\ Begin(r, "authState", c, cookie[c], NewAccount)
    /\ UNCHANGED <<account, sessions, now, cookie, last, issued, over, out>>

\* A token of another version, or of a deleted account, is rejected.
GetAuthState(r) ==
    /\ req[r].pc = "authState"
    /\ IF account.deleted \/ account.version # issued[req[r].token].version
       THEN Finish(r)
       ELSE Goto(r, "match")
    /\ UNCHANGED <<account, sessions, now, cookie, last, issued, over, out>>

\* Only the current token is rotated; the previous one, or none, ends the request.
GetRefreshTokenMatch(r) ==
    /\ req[r].pc = "match"
    /\ IF ~account.deleted /\ Current(req[r].token) # {}
       THEN Goto(r, "rotate")
       ELSE Finish(r)
    /\ UNCHANGED <<account, sessions, now, cookie, last, issued, over, out>>

Rotated(t, old) == [token |-> t, previous |-> old, until |-> now + Grace]

\* MUTANT: the new token is stored whether or not the old one is still current.
RotateBlindly(r) ==
    LET old == req[r].token IN
    /\ req[r].pc = "rotate"
    /\ Issue(issued[old])
    /\ sessions' = (sessions \ Current(old)) \cup {Rotated(last + 1, old)}
    /\ Answer(r, last + 1)
    /\ UNCHANGED <<account, now, cookie, over, out>>

\* MUTANT: the last of two concurrent refreshes replaces the session.
RotateLastWins(r) ==
    LET old == req[r].token
        found == {s \in sessions : LoginOf(s.token) = LoginOf(old)} IN
    /\ req[r].pc = "rotate"
    /\ IF account.deleted \/ found = {}
       THEN Finish(r) /\ UNCHANGED <<sessions, last, issued>>
       ELSE /\ Issue(issued[old])
            /\ sessions' = (sessions \ found) \cup {Rotated(last + 1, old)}
            /\ Answer(r, last + 1)
    /\ UNCHANGED <<account, now, cookie, over, out>>

\* The session whose token is still the expected one gets a new token; when there
\* is none, the client keeps its cookie.
RotateRefreshTokenState(r) ==
    LET old == req[r].token IN
    /\ req[r].pc = "rotate"
    /\ IF account.deleted \/ Current(old) = {}
       THEN Finish(r) /\ UNCHANGED <<sessions, last, issued>>
       ELSE /\ Issue(issued[old])
            /\ sessions' = (sessions \ Current(old)) \cup {Rotated(last + 1, old)}
            /\ Answer(r, last + 1)
    /\ UNCHANGED <<account, now, cookie, over, out>>

-----------------------------------------------------------------------------
(* logout                                                                  *)

Logout(r, c) ==
    /\ cookie[c] # 0
    /\ Begin(r, "logoutMatch", c, cookie[c], NewAccount)
    /\ UNCHANGED <<account, sessions, now, cookie, last, issued, over, out>>

LogoutMatch(r) ==
    LET t == req[r].token IN
    /\ req[r].pc = "logoutMatch"
    /\ IF ~account.deleted /\ Current(t) \cup Previous(t) # {}
       THEN Goto(r, "clear")
       ELSE Goto(r, "clearCookie")
    /\ UNCHANGED <<account, sessions, now, cookie, last, issued, over, out>>

\* The session that has or had the token is pulled. An update that pulls nothing
\* still counts as one, for it sets updatedAt; unless another request has set it in
\* the same millisecond, and then every session is cleared.
ClearRefreshToken(r) ==
    LET t == req[r].token
        pulled == {s \in sessions : s.token = t \/ s.previous = t} IN
    /\ req[r].pc = "clear"
    /\ sessions' = IF account.deleted THEN sessions ELSE sessions \ pulled
    /\ over' = over \cup {LoginOf(s.token) : s \in sessions \ sessions'}
    /\ out' = out \cup {t}
    /\ \/ Goto(r, "clearCookie")
       \/ pulled = {} /\ Goto(r, "clearAll")
    /\ UNCHANGED <<account, now, cookie, last, issued>>

UpdateRefreshTokenHash(r) ==
    /\ req[r].pc = "clearAll"
    /\ sessions' = IF account.deleted THEN sessions ELSE {}
    /\ over' = over \cup {LoginOf(s.token) : s \in sessions \ sessions'}
    /\ Goto(r, "clearCookie")
    /\ UNCHANGED <<account, now, cookie, last, issued, out>>

ClearCookie(r) ==
    /\ req[r].pc = "clearCookie"
    /\ cookie' = [cookie EXCEPT ![req[r].client] = 0]
    /\ Finish(r)
    /\ UNCHANGED <<account, sessions, now, last, issued, over, out>>

-----------------------------------------------------------------------------
(* Password reset and deletion                                             *)

\* resetPassword with a code that was right; it fails if the account is deleted.
ResetPassword(r, c) ==
    /\ ~account.deleted
    /\ account.resets < MaxResets
    /\ account' = [account EXCEPT !.resets = account.resets + 1]
    /\ Begin(r, "version", c, 0, NewAccount)
    /\ UNCHANGED <<sessions, now, cookie, last, issued, over, out>>

IncrementTokenVersion(r) ==
    /\ req[r].pc = "version"
    /\ account' = IF account.deleted THEN account
                  ELSE [account EXCEPT !.version = account.version + 1]
    /\ Goto(r, "clearCookie")
    /\ UNCHANGED <<sessions, now, cookie, last, issued, over, out>>

DeleteUser ==
    /\ ~account.deleted
    /\ account' = [account EXCEPT !.deleted = TRUE, !.version = account.version + 1]
    /\ UNCHANGED <<sessions, now, cookie, req, last, issued, over, out>>

-----------------------------------------------------------------------------
(* Environment                                                             *)

\* A service throws, the process stops, or the response is lost.
Abort(r) ==
    /\ req[r].pc # "idle"
    /\ over' = over \cup (IF req[r].pc = "answer" THEN {LoginOf(req[r].token)} ELSE {})
    /\ Finish(r)
    /\ UNCHANGED <<account, sessions, now, cookie, last, issued, out>>

Tick ==
    /\ now < MaxTime
    /\ now' = now + 1
    /\ UNCHANGED <<account, sessions, cookie, req, last, issued, over, out>>

RequestStep(r) ==
    \/ \E c \in Clients : ValidateUser(r, c) \/ Refresh(r, c) \/ Logout(r, c) \/ ResetPassword(r, c)
    \/ IssueSessionTokens(r) \/ SetRefreshCookie(r)
    \/ GetAuthState(r) \/ GetRefreshTokenMatch(r) \/ RotateRefreshTokenState(r)
    \/ LogoutMatch(r) \/ ClearRefreshToken(r) \/ UpdateRefreshTokenHash(r) \/ ClearCookie(r)
    \/ IncrementTokenVersion(r)
    \/ Abort(r)

Next ==
    \/ \E r \in Requests : RequestStep(r)
    \/ DeleteUser \/ Tick

Spec == Init /\ [][Next]_vars

-----------------------------------------------------------------------------
(* Properties                                                              *)

IssuedTokens == 1..last

\* A request refers to tokens that were issued, as does a session.
Referring ==
    /\ \A s \in sessions : s.token \in IssuedTokens /\ s.previous < s.token
    /\ \A c \in Clients : cookie[c] <= last
    /\ \A r \in Requests : req[r].pc # "idle" => req[r].client \in Clients
    /\ \A r \in Requests :
        req[r].pc \in RefreshPcs \cup LogoutPcs \cup {"answer"} => req[r].token \in IssuedTokens

TypeOK ==
    /\ account \in Account
    /\ sessions \subseteq Session
    /\ now \in 0..MaxTime
    /\ cookie \in [Clients -> Tokens \cup {0}]
    /\ req \in [Requests -> Request]
    /\ last \in 0..MaxTokens
    /\ issued \in [Tokens -> Payload]
    /\ over \subseteq Tokens \cup {0} /\ out \subseteq Tokens
    /\ Referring

\* A refresh with the token would be answered if it ran now and alone.
Accepted(t) ==
    /\ ~account.deleted /\ account.version = issued[t].version
    /\ Current(t) \cup Previous(t) # {}

\* However logins, refreshes and resets interleave: once a reset is complete, that
\* is once it has incremented token_version, only a token is accepted that goes back
\* to a login which already read the new password (login, refresh, resetPassword).
ResetEndsSessions ==
    \A t \in IssuedTokens : Accepted(t) => issued[t].resets >= account.version

\* Concurrent refreshes of one token do not fork a login: it has at most one session
\* and so one current token (rotateRefreshTokenState).
OneTokenPerLogin ==
    \A s, t \in sessions : LoginOf(s.token) = LoginOf(t.token) => s = t

\* The token of a logout that found its session is never accepted again, whatever
\* refreshes of it were under way (logout, refresh).
LoggedOutTokenDead == \A t \in out : ~Accepted(t)

\* A client whose responses all arrive is never left with a useless cookie by its own
\* concurrent refreshes, late ones included: its token is the current one of a
\* session, or the response that brings that token is on its way.
NotStranded ==
    \A c \in Clients : cookie[c] # 0 =>
        \/ LoginOf(cookie[c]) \in over
        \/ account.deleted
        \/ \E s \in sessions :
            /\ LoginOf(s.token) = LoginOf(cookie[c])
            /\ \/ s.token = cookie[c]
               \/ \E r \in Requests :
                    req[r].pc = "answer" /\ req[r].client = c /\ req[r].token = s.token
================================================================================
