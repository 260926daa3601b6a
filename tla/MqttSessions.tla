------------------------------ MODULE MqttSessions ------------------------------
(***************************************************************************)
(* Connections of devices and users to the MQTT broker: onAuthenticate and *)
(* onClientDisconnect of MqttHandlers, whose calls interleave at their     *)
(* awaits, the reservation of a device in the cache and its performance    *)
(* session.                                                                *)
(*                                                                         *)
(* The broker (Aedes) is external. It calls onAuthenticate when a client   *)
(* connects and registers the client when that accepts, unless the         *)
(* connection has dropped by then; it drops the connection that had the    *)
(* same client id; it reports the end of a registered connection, and of   *)
(* no other.                                                               *)
(***************************************************************************)
EXTENDS Naturals, FiniteSets

CONSTANTS
    Conns,          \* connections
    Macs,           \* MAC addresses of the devices, in their normal form
    EspIds, MacOf,  \* the spellings of a MAC address that serve as client ids
    UserIds,        \* client ids of users
    Users,
    NoUser,
    Owner,          \* owner of each device, or NoUser
    MaxUserSessions,   \* MAX_USER_MQTT_SESSIONS
    MaxOnlineDevices,  \* MAX_OWNER_ONLINE_DEVICES
    MaxAttempts        \* bound: authentications in flight at once

Ids == EspIds \cup UserIds

ASSUME SessionsAssumption ==
    /\ IsFiniteSet(Conns)
    /\ EspIds \cap UserIds = {} /\ Ids # {}
    /\ MacOf \in [EspIds -> Macs]
    /\ Users # {} /\ NoUser \notin Users
    /\ Owner \in [Macs -> Users \cup {NoUser}]
    /\ MaxUserSessions \in Nat \ {0} /\ MaxOnlineDevices \in Nat \ {0}
    /\ MaxAttempts \in Nat \ {0}

VARIABLES
    conn,         \* each connection: where its handler is, and who it is
    reservation,  \* the client id cached for a device, or none
    session,      \* activeSessionsByMac: the active performance session of a device
    alone         \* history: no two connections of the device have overlapped since
                  \* it last had none

vars == <<conn, reservation, session, alone>>

AnyId == CHOOSE id \in Ids : TRUE
AnyUser == CHOOSE u \in Users : TRUE

EspPcs == {"get", "set", "owner", "start", "done", "live", "ended", "delete", "end"}
UserPcs == {"idle", "devices", "done", "live"}
Authenticating == {"get", "set", "owner", "start", "devices", "done"}

\* user: who a user's connection belongs to.
Connection == [pc : EspPcs \cup UserPcs, id : Ids, user : Users]

IdleConn == [pc |-> "idle", id |-> AnyId, user |-> AnyUser]

\* What a device has a reservation or an active session for.
Holder == [set : BOOLEAN, id : Ids]
None == [set |-> FALSE, id |-> AnyId]
Held(id) == [set |-> TRUE, id |-> id]

Init ==
    /\ conn = [c \in Conns |-> IdleConn]
    /\ reservation = [m \in Macs |-> None]
    /\ session = [m \in Macs |-> None]
    /\ alone = [m \in Macs |-> TRUE]

IsEsp(c) == conn[c].pc # "idle" /\ conn[c].id \in EspIds
IsLive(c) == conn[c].pc = "live"
Mac(c) == MacOf[conn[c].id]

\* The connections of a device, from their authentication to the end of their
\* disconnect handler.
Of(m) == {c \in Conns : IsEsp(c) /\ Mac(c) = m}

\* isClientConnected: it compares ids in upper case, so any spelling will do.
Connected(m) == \E c \in Of(m) : IsLive(c)

\* The connections getActiveUserSessionCount counts.
LiveSessions(u) == {c \in Conns : IsLive(c) /\ ~IsEsp(c) /\ conn[c].user = u}

\* Those getActiveOwnerDeviceSessionCount counts for the owner of m.
OtherLiveDevices(m) ==
    {c \in Conns : IsLive(c) /\ IsEsp(c) /\ Owner[Mac(c)] = Owner[m] /\ Mac(c) # m}

Goto(c, pc) == conn' = [conn EXCEPT ![c] = [conn[c] EXCEPT !.pc = pc]]
Leave(c) == conn' = [conn EXCEPT ![c] = IdleConn]

-----------------------------------------------------------------------------
(* onAuthenticate                                                          *)

Admitted == Cardinality({c \in Conns : conn[c].pc \in Authenticating}) < MaxAttempts

\* A connection is taken on; the handler is at its first await past the limit.
Begin(c, pc, id, u) ==
    /\ conn[c].pc = "idle" /\ Admitted
    /\ conn' = [conn EXCEPT ![c] = [pc |-> pc, id |-> id, user |-> u]]
    /\ UNCHANGED <<reservation, session>>

\* MUTANT: the owner may have one device more online.
ConnectEspOffByOne(c, id) ==
    /\ \/ Owner[MacOf[id]] = NoUser
       \/ Cardinality(OtherLiveDevices(MacOf[id])) <= MaxOnlineDevices
    /\ Begin(c, "get", id, AnyUser)
    /\ alone' = [alone EXCEPT ![MacOf[id]] = Of(MacOf[id]) = {}]

\* A client whose id is a MAC address presents the right credentials, and its
\* owner's limit is not reached. A rejected client changes nothing.
ConnectEsp(c, id) ==
    /\ \/ Owner[MacOf[id]] = NoUser
       \/ Cardinality(OtherLiveDevices(MacOf[id])) < MaxOnlineDevices
    /\ Begin(c, "get", id, AnyUser)
    /\ alone' = [alone EXCEPT ![MacOf[id]] = Of(MacOf[id]) = {}]

\* MUTANT: nobody counts the sessions.
ConnectUserUncounted(c, id, u) ==
    /\ Begin(c, "devices", id, u)
    /\ UNCHANGED alone

\* The same for a user; the user's devices are read next.
ConnectUser(c, id, u) ==
    /\ Cardinality(LiveSessions(u)) < MaxUserSessions
    /\ Begin(c, "devices", id, u)
    /\ UNCHANGED alone

\* One of the services throws.
FailAuthentication(c) ==
    /\ conn[c].pc \in {"owner", "devices"}
    /\ Leave(c)
    /\ UNCHANGED <<reservation, session, alone>>

\* MUTANT: a reservation of another id is never taken over.
GetReservationForGood(c) ==
    LET held == reservation[Mac(c)] IN
    /\ conn[c].pc = "get"
    /\ \/ ~held.set /\ Goto(c, "set")
       \/ held.set /\ held.id = conn[c].id /\ Goto(c, "owner")
       \/ held.set /\ held.id # conn[c].id /\ Leave(c)
    /\ UNCHANGED <<reservation, session, alone>>

\* reserveEspSession up to the write: the reservation is free, already ours, that
\* of a client no longer connected, or taken.
GetReservation(c) ==
    LET held == reservation[Mac(c)] IN
    /\ conn[c].pc = "get"
    /\ \/ ~held.set /\ Goto(c, "set")
       \/ held.set /\ held.id = conn[c].id /\ Goto(c, "owner")
       \/ held.set /\ held.id # conn[c].id /\ ~Connected(Mac(c)) /\ Goto(c, "set")
       \/ held.set /\ held.id # conn[c].id /\ Connected(Mac(c)) /\ Leave(c)
    /\ UNCHANGED <<reservation, session, alone>>

SetReservation(c) ==
    /\ conn[c].pc = "set"
    /\ reservation' = [reservation EXCEPT ![Mac(c)] = Held(conn[c].id)]
    /\ Goto(c, "owner")
    /\ UNCHANGED <<session, alone>>

\* startEspSession after the owner was read: an active session of the device is
\* closed, and the new one waits until the old one is stored.
StartEspSession(c) ==
    /\ conn[c].pc = "owner"
    /\ IF session[Mac(c)].set
       THEN /\ session' = [session EXCEPT ![Mac(c)] = None]
            /\ Goto(c, "start")
       ELSE /\ session' = [session EXCEPT ![Mac(c)] = Held(conn[c].id)]
            /\ Goto(c, "done")
    /\ UNCHANGED <<reservation, alone>>

\* MUTANT: the session is not started when there was an old one.
KeepClosedSession(c) ==
    /\ conn[c].pc = "start"
    /\ Goto(c, "done")
    /\ UNCHANGED <<reservation, session, alone>>

StartAfterClosing(c) ==
    /\ conn[c].pc = "start"
    /\ session' = [session EXCEPT ![Mac(c)] = Held(conn[c].id)]
    /\ Goto(c, "done")
    /\ UNCHANGED <<reservation, alone>>

ReadDevices(c) ==
    /\ conn[c].pc = "devices"
    /\ Goto(c, "done")
    /\ UNCHANGED <<reservation, session, alone>>

-----------------------------------------------------------------------------
(* The broker                                                              *)

\* MUTANT: the disconnect handler takes every client for a device.
EndedLikeDevice(c) == [conn[c] EXCEPT !.pc = "ended"]

\* What becomes of a live connection that ends: a device's disconnect handler
\* starts, a user's has nothing to do.
Ended(c) == IF IsEsp(c) THEN [conn[c] EXCEPT !.pc = "ended"] ELSE IdleConn

SameId(c) == {b \in Conns \ {c} : IsLive(b) /\ conn[b].id = conn[c].id}

\* The client is registered in place of the one with its id.
Register(c) ==
    /\ conn[c].pc = "done"
    /\ conn' = [b \in Conns |->
            IF b = c THEN [conn[c] EXCEPT !.pc = "live"]
            ELSE IF b \in SameId(c) THEN Ended(b) ELSE conn[b]]
    /\ UNCHANGED <<reservation, session, alone>>

\* The connection has dropped while it was authenticated.
FindDropped(c) ==
    /\ conn[c].pc = "done"
    /\ Leave(c)
    /\ UNCHANGED <<reservation, session, alone>>

Drop(c) ==
    /\ IsLive(c)
    /\ conn' = [conn EXCEPT ![c] = Ended(c)]
    /\ UNCHANGED <<reservation, session, alone>>

-----------------------------------------------------------------------------
(* onClientDisconnect of a device                                          *)

\* It deletes the reservation if the one it reads has its id.
ReadReservation(c) ==
    /\ conn[c].pc = "ended"
    /\ Goto(c, IF reservation[Mac(c)] = Held(conn[c].id) THEN "delete" ELSE "end")
    /\ UNCHANGED <<reservation, session, alone>>

DeleteReservation(c) ==
    /\ conn[c].pc = "delete"
    /\ reservation' = [reservation EXCEPT ![Mac(c)] = None]
    /\ Goto(c, "end")
    /\ UNCHANGED <<session, alone>>

\* endEspSession: the device's session is closed if it has the same client id.
EndEspSession(c) ==
    /\ conn[c].pc = "end"
    /\ session' = IF session[Mac(c)] = Held(conn[c].id)
                  THEN [session EXCEPT ![Mac(c)] = None] ELSE session
    /\ Leave(c)
    /\ UNCHANGED <<reservation, alone>>

Authenticate(c) ==
    \/ GetReservation(c)
    \/ SetReservation(c)
    \/ StartEspSession(c)
    \/ StartAfterClosing(c)
    \/ ReadDevices(c)
    \/ Register(c)

Disconnect(c) ==
    \/ ReadReservation(c)
    \/ DeleteReservation(c)
    \/ EndEspSession(c)

Next ==
    \E c \in Conns :
        \/ \E id \in EspIds : ConnectEsp(c, id)
        \/ \E id \in UserIds, u \in Users : ConnectUser(c, id, u)
        \/ FailAuthentication(c)
        \/ Authenticate(c)
        \/ FindDropped(c) \/ Drop(c)
        \/ Disconnect(c)

\* A device without a connection tries again and again.
Retry(m) ==
    /\ ~Connected(m)
    /\ \E c \in Conns, id \in EspIds : MacOf[id] = m /\ ConnectEsp(c, id)

\* Handlers that were called run on.
Fairness ==
    /\ \A c \in Conns : WF_vars(Authenticate(c)) /\ WF_vars(Disconnect(c))
    /\ \A m \in Macs : SF_vars(Retry(m))

Spec == Init /\ [][Next]_vars /\ Fairness

-----------------------------------------------------------------------------
(* Properties                                                              *)

ConnsOK ==
    /\ conn \in [Conns -> Connection]
    /\ \A c \in Conns : conn[c].pc \in IF IsEsp(c) THEN EspPcs ELSE UserPcs

\* A device is only ever held under an id of its own.
HoldersOK ==
    /\ reservation \in [Macs -> Holder] /\ session \in [Macs -> Holder]
    /\ \A m \in Macs :
        /\ reservation[m].set => reservation[m].id \in EspIds /\ MacOf[reservation[m].id] = m
        /\ session[m].set => session[m].id \in EspIds /\ MacOf[session[m].id] = m

TypeOK == ConnsOK /\ HoldersOK /\ alone \in [Macs -> BOOLEAN]

\* Whatever reservations and performance sessions earlier connections of a device
\* left behind, by dropping while they were authenticated, by failing halfway or by
\* overlapping: a connection that then has the device to itself holds the
\* reservation and its own performance session (reserveEspSession,
\* startEspSession, onClientDisconnect).
SoleConnectionHoldsDevice ==
    \A c \in Conns : (IsEsp(c) /\ IsLive(c) /\ alone[Mac(c)]) =>
        reservation[Mac(c)] = Held(conn[c].id) /\ session[Mac(c)] = Held(conn[c].id)

\* A user's sessions are counted before an await and count only once registered,
\* so concurrent connects may exceed the limit, but never by more than the
\* authentications in flight besides the first.
UserLimit ==
    \A u \in Users : Cardinality(LiveSessions(u)) <= MaxUserSessions + MaxAttempts - 1

\* The same for the devices of an owner that are online.
DeviceLimit ==
    \A u \in Users :
        Cardinality({m \in Macs : Owner[m] = u /\ Connected(m)})
            <= MaxOnlineDevices + MaxAttempts - 1

\* No reservation a dead connection left behind locks a device out: if at some
\* point connections stop dropping and authentications stop failing, a device that
\* keeps trying is online again and again, unless its owner's limit is reached.
NotLockedOut ==
    <>[][\A c \in Conns : ~(Drop(c) \/ FindDropped(c) \/ FailAuthentication(c))]_vars
    => \A m \in Macs :
        []<>(\/ Connected(m)
             \/ /\ Owner[m] # NoUser
                /\ Cardinality(OtherLiveDevices(m)) >= MaxOnlineDevices)

\* docs/arch.md: only one live MQTT session is reserved per device MAC.
OneSessionPerDevice ==
    \A m \in Macs : Cardinality({c \in Of(m) : IsLive(c)}) <= 1
================================================================================
