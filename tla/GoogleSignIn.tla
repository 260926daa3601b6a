------------------------------- MODULE GoogleSignIn -------------------------------
(***************************************************************************)
(* Signing in with Google: validateGoogleUser finds, links or creates the  *)
(* account of a Google user, the callback logs a browser in or hands an    *)
(* app a code, and the app exchanges the code for a session. Each database *)
(* call is an await at which requests interleave.                          *)
(***************************************************************************)
EXTENDS Naturals, FiniteSets

CONSTANTS
    GoogleUsers,
    NoGoogle,
    Emails,
    GRequests,          \* requests in flight
    MaxAccounts,        \* bound: accounts created
    MaxHandoffs         \* bound: codes created

ASSUME GoogleAssumption ==
    /\ NoGoogle \notin GoogleUsers /\ Emails # {} /\ IsFiniteSet(GRequests)
    /\ MaxAccounts \in Nat /\ MaxHandoffs \in Nat

VARIABLES
    accounts,      \* the user documents, in the order they were created
    accountCount,  \* accounts 1..accountCount exist
    handoffs,      \* the handoff codes
    handoffCount,
    gReq,          \* each request: where it is and what it remembers
    exchanged      \* history: for each code, the exchanges that consumed it

gVars == <<accounts, accountCount, handoffs, handoffCount, gReq, exchanged>>

Accounts == 1..MaxAccounts
Handoffs == 1..MaxHandoffs

Account == [email : Emails, google : GoogleUsers \cup {NoGoogle},
            verified : BOOLEAN, active : BOOLEAN, deleted : BOOLEAN]
NewAccount(e, g) == [email |-> e, google |-> g, verified |-> FALSE, active |-> TRUE, deleted |-> FALSE]

\* valid: neither consumed nor expired; google: history, who signed in.
Handoff == [account : 0..MaxAccounts, google : GoogleUsers \cup {NoGoogle}, valid : BOOLEAN]

SignInPcs == {"byGoogle", "byEmail", "link", "create", "callback"}
ExchangePcs == {"consume", "authState", "login"}

\* Whether a sign-in is a browser's or an app's shows at the callback.
GRequest == [pc : {"idle"} \cup SignInPcs \cup ExchangePcs,
             google : GoogleUsers \cup {NoGoogle}, email : Emails,
             account : 0..MaxAccounts, handoff : 0..MaxHandoffs]
IdleG == [pc |-> "idle", google |-> NoGoogle, email |-> CHOOSE e \in Emails : TRUE,
          account |-> 0, handoff |-> 0]

GoogleInit ==
    /\ accounts = [a \in Accounts |-> NewAccount(IdleG.email, NoGoogle)]
    /\ accountCount = 0
    /\ handoffs = [h \in Handoffs |-> [account |-> 0, google |-> NoGoogle, valid |-> FALSE]]
    /\ handoffCount = 0
    /\ gReq = [r \in GRequests |-> IdleG]
    /\ exchanged = [h \in Handoffs |-> 0]

Existing == 1..accountCount
Present == {a \in Existing : ~accounts[a].deleted}
ByGoogle(g) == {a \in Present : accounts[a].google = g}
ByEmail(e) == {a \in Present : accounts[a].email = e}

GGoto(r, pc, a) == gReq' = [gReq EXCEPT ![r] = [gReq[r] EXCEPT !.pc = pc, !.account = a]]
GDone(r) == gReq' = [gReq EXCEPT ![r] = IdleG]

\* The unique indexes of email and google_id also count deleted accounts.
Unique(a, e, g) ==
    \A b \in Existing \ {a} : /\ accounts[b].email # e
                              /\ g # NoGoogle => accounts[b].google # g

-----------------------------------------------------------------------------
(* validateGoogleUser                                                      *)

\* Google vouches for the profile and its address, which the user may have changed.
StartSignIn(r, g, e) ==
    /\ gReq[r].pc = "idle"
    /\ gReq' = [gReq EXCEPT ![r] = [IdleG EXCEPT !.pc = "byGoogle", !.google = g, !.email = e]]
    /\ UNCHANGED <<accounts, accountCount, handoffs, handoffCount, exchanged>>

FindByGoogle(r) ==
    /\ gReq[r].pc = "byGoogle"
    /\ \/ \E a \in ByGoogle(gReq[r].google) :
            IF accounts[a].active THEN GGoto(r, "callback", a) ELSE GDone(r)
       \/ ByGoogle(gReq[r].google) = {} /\ GGoto(r, "byEmail", 0)
    /\ UNCHANGED <<accounts, accountCount, handoffs, handoffCount, exchanged>>

\* MUTANT: an unverified account is taken as it is.
FindUnverified(r) ==
    /\ gReq[r].pc = "byEmail"
    /\ \/ \E a \in ByEmail(gReq[r].email) :
            CASE ~accounts[a].active -> GDone(r)
              [] accounts[a].active /\ ~accounts[a].verified -> GGoto(r, "callback", a)
              [] OTHER -> GGoto(r, "link", a)
       \/ ByEmail(gReq[r].email) = {} /\ GGoto(r, "create", 0)
    /\ UNCHANGED <<accounts, accountCount, handoffs, handoffCount, exchanged>>

\* An account linked to another Google user is refused. A verified one is linked, again
\* if need be; an unverified one only if it is not linked yet.
FindByEmail(r) ==
    LET g == gReq[r].google IN
    /\ gReq[r].pc = "byEmail"
    /\ \/ \E a \in ByEmail(gReq[r].email) :
            CASE ~accounts[a].active \/ accounts[a].google \notin {NoGoogle, g} -> GDone(r)
              [] accounts[a].active /\ accounts[a].google = g /\ ~accounts[a].verified ->
                    GGoto(r, "callback", a)
              [] OTHER -> GGoto(r, "link", a)
       \/ ByEmail(gReq[r].email) = {} /\ GGoto(r, "create", 0)
    /\ UNCHANGED <<accounts, accountCount, handoffs, handoffCount, exchanged>>

Links(r) ==
    LET a == gReq[r].account IN
    /\ accounts' = [accounts EXCEPT ![a] = [accounts[a] EXCEPT !.google = gReq[r].google]]
    /\ GGoto(r, "callback", a)

\* linkGoogleAccount: one update, conditional on what the account is linked to now.
LinkGoogleAccount(r) ==
    LET a == gReq[r].account
        g == gReq[r].google
        free == /\ ~accounts[a].deleted /\ accounts[a].google \in {NoGoogle, g}
                /\ Unique(a, accounts[a].email, g)
    IN
    /\ gReq[r].pc = "link"
    /\ \/ free /\ Links(r)
       \/ ~free /\ GDone(r) /\ UNCHANGED accounts
    /\ UNCHANGED <<accountCount, handoffs, handoffCount, exchanged>>

\* MUTANT: a duplicate key is taken for success.
CreateAnyGoogleUser(r) ==
    LET a == accountCount + 1 IN
    /\ gReq[r].pc = "create" /\ a \in Accounts
    /\ IF Unique(a, gReq[r].email, gReq[r].google)
       THEN /\ accounts' = [accounts EXCEPT ![a] = NewAccount(gReq[r].email, gReq[r].google)]
            /\ accountCount' = a
       ELSE UNCHANGED <<accounts, accountCount>>
    /\ GGoto(r, "callback", a)
    /\ UNCHANGED <<handoffs, handoffCount, exchanged>>

\* createGoogleUser; the unique indexes refuse an address or a Google user that is taken.
CreateGoogleUser(r) ==
    LET a == accountCount + 1 IN
    /\ gReq[r].pc = "create"
    /\ \/ /\ Unique(a, gReq[r].email, gReq[r].google) /\ a \in Accounts
          /\ accounts' = [accounts EXCEPT ![a] = NewAccount(gReq[r].email, gReq[r].google)]
          /\ accountCount' = a
          /\ GGoto(r, "callback", a)
       \/ /\ ~Unique(a, gReq[r].email, gReq[r].google)
          /\ GDone(r)
          /\ UNCHANGED <<accounts, accountCount>>
    /\ UNCHANGED <<handoffs, handoffCount, exchanged>>

-----------------------------------------------------------------------------
(* The callback and the exchange                                           *)

\* A browser: login of the account as it was read (its sessions: RefreshSessions).
LoginFromCallback(r) ==
    /\ gReq[r].pc = "callback"
    /\ GDone(r)
    /\ UNCHANGED <<accounts, accountCount, handoffs, handoffCount, exchanged>>

\* An app: a code that only the verifier of its challenge can exchange.
CreateHandoff(r) ==
    LET h == handoffCount + 1 IN
    /\ gReq[r].pc = "callback" /\ h \in Handoffs
    /\ handoffs' = [handoffs EXCEPT ![h] =
                      [account |-> gReq[r].account, google |-> gReq[r].google, valid |-> TRUE]]
    /\ handoffCount' = h
    /\ GDone(r)
    /\ UNCHANGED <<accounts, accountCount, exchanged>>

ValidHandoff(h) == h <= handoffCount /\ handoffs[h].valid

\* consume reads the code and checks it, its age and the verifier.
FindHandoff(r, h) ==
    /\ gReq[r].pc = "idle" /\ ValidHandoff(h)
    /\ gReq' = [gReq EXCEPT ![r] = [IdleG EXCEPT !.pc = "consume", !.handoff = h]]
    /\ UNCHANGED <<accounts, accountCount, handoffs, handoffCount, exchanged>>

ExchangeOf(r) ==
    LET h == gReq[r].handoff IN
    /\ handoffs' = [handoffs EXCEPT ![h] = [handoffs[h] EXCEPT !.valid = FALSE]]
    /\ exchanged' = [exchanged EXCEPT ![h] = exchanged[h] + 1]
    /\ gReq' = [gReq EXCEPT ![r] = [gReq[r] EXCEPT !.pc = "authState",
                    !.account = handoffs[h].account, !.google = handoffs[h].google]]

\* MUTANT: the update asks for nothing but the code.
ConsumeAnyHandoff(r) ==
    /\ gReq[r].pc = "consume"
    /\ ExchangeOf(r)
    /\ UNCHANGED <<accounts, accountCount, handoffCount>>

\* consume marks the code in one update that repeats the checks.
ConsumeHandoff(r) ==
    /\ gReq[r].pc = "consume"
    /\ \/ ValidHandoff(gReq[r].handoff) /\ ExchangeOf(r)
       \/ ~ValidHandoff(gReq[r].handoff) /\ GDone(r) /\ UNCHANGED <<handoffs, exchanged>>
    /\ UNCHANGED <<accounts, accountCount, handoffCount>>

\* getAuthenticatedUserById: the account may be gone or switched off by now.
ReadAuthState(r) ==
    LET a == gReq[r].account IN
    /\ gReq[r].pc = "authState"
    /\ IF a \in Present /\ accounts[a].active THEN GGoto(r, "login", a) ELSE GDone(r)
    /\ UNCHANGED <<accounts, accountCount, handoffs, handoffCount, exchanged>>

LoginFromExchange(r) ==
    /\ gReq[r].pc = "login"
    /\ GDone(r)
    /\ UNCHANGED <<accounts, accountCount, handoffs, handoffCount, exchanged>>

-----------------------------------------------------------------------------
(* What happens around                                                     *)

\* An account with a password: createdUser.save() of AuthService.register.
Register(e) ==
    LET a == accountCount + 1 IN
    /\ a \in Accounts /\ Unique(a, e, NoGoogle)
    /\ accounts' = [accounts EXCEPT ![a] = NewAccount(e, NoGoogle)]
    /\ accountCount' = a
    /\ UNCHANGED <<handoffs, handoffCount, gReq, exchanged>>

\* The address is verified with a code, an administrator changes the account or deletes it.
ChangeAccount(a) ==
    /\ a \in Present
    /\ \/ accounts' = [accounts EXCEPT ![a] = [accounts[a] EXCEPT !.verified = TRUE]]
       \/ accounts' = [accounts EXCEPT ![a] = [accounts[a] EXCEPT !.active = ~accounts[a].active]]
       \/ accounts' = [accounts EXCEPT ![a] = [accounts[a] EXCEPT !.deleted = TRUE, !.active = FALSE]]
       \/ \E e \in Emails : /\ Unique(a, e, NoGoogle)
                            /\ accounts' = [accounts EXCEPT ![a] = [accounts[a] EXCEPT !.email = e]]
    /\ UNCHANGED <<accountCount, handoffs, handoffCount, gReq, exchanged>>

AbortSignIn(r) ==
    /\ gReq[r].pc # "idle"
    /\ GDone(r)
    /\ UNCHANGED <<accounts, accountCount, handoffs, handoffCount, exchanged>>

\* Its time to live is over (GOOGLE_MOBILE_HANDOFF_TTL_SECONDS).
ExpireHandoff(h) ==
    /\ ValidHandoff(h)
    /\ handoffs' = [handoffs EXCEPT ![h] = [handoffs[h] EXCEPT !.valid = FALSE]]
    /\ UNCHANGED <<accounts, accountCount, handoffCount, gReq, exchanged>>

GoogleNext ==
    \/ \E r \in GRequests :
        \/ \E g \in GoogleUsers, e \in Emails : StartSignIn(r, g, e)
        \/ \E h \in Handoffs : FindHandoff(r, h)
        \/ FindByGoogle(r) \/ FindByEmail(r) \/ LinkGoogleAccount(r) \/ CreateGoogleUser(r)
        \/ LoginFromCallback(r) \/ CreateHandoff(r) \/ ConsumeHandoff(r) \/ ReadAuthState(r)
        \/ LoginFromExchange(r) \/ AbortSignIn(r)
    \/ \E e \in Emails : Register(e)
    \/ \E a \in Accounts : ChangeAccount(a)
    \/ \E h \in Handoffs : ExpireHandoff(h)

GoogleSpec == GoogleInit /\ [][GoogleNext]_gVars

-----------------------------------------------------------------------------

GoogleTypeOK ==
    /\ accounts \in [Accounts -> Account]
    /\ accountCount \in 0..MaxAccounts
    /\ handoffs \in [Handoffs -> Handoff]
    /\ handoffCount \in 0..MaxHandoffs
    /\ gReq \in [GRequests -> GRequest]
    /\ exchanged \in [Handoffs -> Nat]
    /\ \A r \in GRequests : gReq[r].pc \in {"link", "callback", "authState", "login"} =>
            gReq[r].account \in Existing

\* Whatever the account went through between the look-ups, the link, the code and its
\* exchange: a session is given for the account of the Google user who signed in.
SessionOfGoogleUser ==
    \A r \in GRequests : gReq[r].pc \in {"callback", "login"} =>
        accounts[gReq[r].account].google = gReq[r].google

\* A handoff code is read and then marked: only one of the exchanges under way gets it.
HandoffOnce == \A h \in Handoffs : exchanged[h] <= 1

=============================================================================
