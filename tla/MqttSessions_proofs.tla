--------------------------- MODULE MqttSessions_proofs ---------------------------
(***************************************************************************)
(* Theorems about MqttSessions, for any number of connections, devices,    *)
(* users and concurrent authentications.                                   *)
(***************************************************************************)
EXTENDS MqttSessions, FiniteSetTheorems, TLAPS

USE SessionsAssumption

LEMMA Constants ==
    /\ AnyId \in Ids /\ AnyUser \in Users
    /\ IdleConn \in Connection /\ None \in Holder
    /\ \A id \in Ids : Held(id) \in Holder
    /\ \A id \in EspIds : id \in Ids /\ MacOf[id] \in Macs
<1>1. AnyId \in Ids /\ AnyUser \in Users
  BY DEF AnyId, AnyUser
<1> QED
  BY <1>1 DEF IdleConn, Connection, UserPcs, None, Holder, Held, Ids

-----------------------------------------------------------------------------
(* How a step moves a connection                                           *)

\* The handler of one connection goes on.
LEMMA GoingOn ==
    ASSUME ConnsOK, NEW c \in Conns, NEW pc \in EspPcs \cup UserPcs, Goto(c, pc)
    PROVE  /\ conn' \in [Conns -> Connection]
           /\ conn'[c].pc = pc /\ conn'[c].id = conn[c].id /\ conn'[c].user = conn[c].user
           /\ \A d \in Conns \ {c} : conn'[d] = conn[d]
<1>1. conn \in [Conns -> Connection]
  BY DEF ConnsOK
<1>2. conn'[c] = [conn[c] EXCEPT !.pc = pc] /\ \A d \in Conns \ {c} : conn'[d] = conn[d]
  BY <1>1 DEF Goto
<1>3. [conn[c] EXCEPT !.pc = pc] \in Connection
  BY <1>1 DEF Connection
<1> QED
  BY <1>1, <1>2, <1>3 DEF Goto, Connection

LEMMA Leaving ==
    ASSUME ConnsOK, NEW c \in Conns, Leave(c)
    PROVE  /\ conn' \in [Conns -> Connection]
           /\ conn'[c].pc = "idle" /\ conn'[c] = IdleConn
           /\ \A d \in Conns \ {c} : conn'[d] = conn[d]
BY Constants DEF ConnsOK, Leave, IdleConn

LEMMA Beginning ==
    ASSUME ConnsOK, NEW c \in Conns, NEW pc \in EspPcs \cup UserPcs,
           NEW id \in Ids, NEW u \in Users, Begin(c, pc, id, u)
    PROVE  /\ conn' \in [Conns -> Connection] /\ conn[c].pc = "idle"
           /\ conn'[c].pc = pc /\ conn'[c].id = id /\ conn'[c].user = u
           /\ \A d \in Conns \ {c} : conn'[d] = conn[d]
<1>1. [pc |-> pc, id |-> id, user |-> u] \in Connection
  BY DEF Connection
<1> QED
  BY <1>1 DEF ConnsOK, Begin

LEMMA Ending ==
    ASSUME ConnsOK, NEW c \in Conns
    PROVE  /\ Ended(c) \in Connection
           /\ IsEsp(c) => Ended(c).pc = "ended" /\ Ended(c).id = conn[c].id
           /\ ~IsEsp(c) => Ended(c) = IdleConn /\ Ended(c).pc = "idle"
<1>1. conn[c] \in Connection
  BY DEF ConnsOK
<1>2. CASE IsEsp(c)
  <2>1. Ended(c) = [conn[c] EXCEPT !.pc = "ended"]
    BY <1>2 DEF Ended
  <2> QED
    BY <1>1, <1>2, <2>1 DEF Connection, EspPcs
<1>3. CASE ~IsEsp(c)
  BY <1>3, Constants DEF Ended, IdleConn
<1> QED
  BY <1>2, <1>3

\* Where a device's handler is, the connection has an id of a device.
LEMMA DeviceAt ==
    ASSUME ConnsOK, NEW c \in Conns, conn[c].pc \in EspPcs \ UserPcs
    PROVE  IsEsp(c) /\ conn[c].id \in EspIds /\ conn[c].id \in Ids /\ Mac(c) \in Macs
BY Constants DEF ConnsOK, IsEsp, Mac

-----------------------------------------------------------------------------
(* Types                                                                   *)

\* A connection that goes on within its kind keeps the connections' types.
LEMMA GoingOnType ==
    ASSUME ConnsOK, NEW c \in Conns, NEW pc \in EspPcs \cup UserPcs, Goto(c, pc),
           conn[c].pc # "idle", IsEsp(c) => pc \in EspPcs,
           ~IsEsp(c) => pc \in UserPcs
    PROVE  ConnsOK'
<1>1. /\ conn' \in [Conns -> Connection]
      /\ conn'[c].pc = pc /\ conn'[c].id = conn[c].id
      /\ \A d \in Conns \ {c} : conn'[d] = conn[d]
  BY GoingOn
<1>2. conn'[c].pc \in IF IsEsp(c)' THEN EspPcs ELSE UserPcs
  BY <1>1 DEF IsEsp, EspPcs
<1>3. ASSUME NEW d \in Conns \ {c}
      PROVE  conn'[d].pc \in IF IsEsp(d)' THEN EspPcs ELSE UserPcs
  BY <1>1 DEF ConnsOK, IsEsp
<1> QED
  BY <1>1, <1>2, <1>3 DEF ConnsOK

LEMMA LeavingType ==
    ASSUME ConnsOK, NEW c \in Conns, Leave(c)
    PROVE  ConnsOK'
<1>1. /\ conn' \in [Conns -> Connection] /\ conn'[c].pc = "idle"
      /\ \A d \in Conns \ {c} : conn'[d] = conn[d]
  BY Leaving
<1>2. conn'[c].pc \in IF IsEsp(c)' THEN EspPcs ELSE UserPcs
  BY <1>1 DEF IsEsp, UserPcs
<1>3. ASSUME NEW d \in Conns \ {c}
      PROVE  conn'[d].pc \in IF IsEsp(d)' THEN EspPcs ELSE UserPcs
  BY <1>1 DEF ConnsOK, IsEsp
<1> QED
  BY <1>1, <1>2, <1>3 DEF ConnsOK

LEMMA BeginningType ==
    ASSUME ConnsOK, NEW c \in Conns, NEW pc \in EspPcs \cup UserPcs,
           NEW id \in Ids, NEW u \in Users, Begin(c, pc, id, u),
           IF id \in EspIds THEN pc \in EspPcs ELSE pc \in UserPcs
    PROVE  ConnsOK'
<1>1. /\ conn' \in [Conns -> Connection]
      /\ conn'[c].pc = pc /\ conn'[c].id = id
      /\ \A d \in Conns \ {c} : conn'[d] = conn[d]
  BY Beginning
<1>2. conn'[c].pc \in IF IsEsp(c)' THEN EspPcs ELSE UserPcs
  BY <1>1 DEF IsEsp, EspPcs
<1>3. ASSUME NEW d \in Conns \ {c}
      PROVE  conn'[d].pc \in IF IsEsp(d)' THEN EspPcs ELSE UserPcs
  BY <1>1 DEF ConnsOK, IsEsp
<1> QED
  BY <1>1, <1>2, <1>3 DEF ConnsOK

\* Connections end: some live ones do, at most one goes live.
LEMMA EndingType ==
    ASSUME ConnsOK, conn' \in [Conns -> Connection],
           \A d \in Conns :
                \/ conn'[d] = conn[d] \/ conn'[d] = Ended(d)
                \/ /\ conn[d].pc = "done" /\ conn'[d].pc = "live"
                   /\ conn'[d].id = conn[d].id
    PROVE  ConnsOK'
<1>1. ASSUME NEW d \in Conns
      PROVE  conn'[d].pc \in IF IsEsp(d)' THEN EspPcs ELSE UserPcs
  <2>1. CASE conn'[d] = conn[d]
    BY <2>1 DEF ConnsOK, IsEsp
  <2>2. CASE conn'[d] = Ended(d)
    BY <2>2, Ending DEF IsEsp, EspPcs, UserPcs
  <2>3. CASE conn'[d].pc = "live"
    BY <2>3 DEF EspPcs, UserPcs
  <2> QED
    BY <2>1, <2>2, <2>3
<1> QED
  BY <1>1 DEF ConnsOK

\* What Register and Drop do to the connections.
LEMMA Registering ==
    ASSUME ConnsOK, NEW c \in Conns, Register(c)
    PROVE  /\ conn' \in [Conns -> Connection]
           /\ conn'[c].pc = "live" /\ conn'[c].id = conn[c].id /\ conn'[c].user = conn[c].user
           /\ \A d \in SameId(c) : conn'[d] = Ended(d)
           /\ \A d \in Conns \ ({c} \cup SameId(c)) : conn'[d] = conn[d]
<1>1. conn \in [Conns -> Connection] /\ c \notin SameId(c) /\ SameId(c) \subseteq Conns
  BY DEF ConnsOK, SameId
<1>2. [conn[c] EXCEPT !.pc = "live"] \in Connection
  BY <1>1 DEF Connection, EspPcs
<1>3. conn' = [b \in Conns |->
            IF b = c THEN [conn[c] EXCEPT !.pc = "live"]
            ELSE IF b \in SameId(c) THEN Ended(b) ELSE conn[b]]
  BY DEF Register
<1>4. \A b \in Conns : Ended(b) \in Connection
  BY Ending
<1>5. conn' \in [Conns -> Connection]
  BY <1>1, <1>2, <1>3, <1>4
<1>6. conn'[c] = [conn[c] EXCEPT !.pc = "live"]
  BY <1>3
<1>7. conn'[c].pc = "live" /\ conn'[c].id = conn[c].id /\ conn'[c].user = conn[c].user
  BY <1>1, <1>6 DEF Connection
<1> QED
  BY <1>1, <1>3, <1>5, <1>7

LEMMA Dropping ==
    ASSUME ConnsOK, NEW c \in Conns, Drop(c)
    PROVE  /\ conn' \in [Conns -> Connection] /\ conn'[c] = Ended(c)
           /\ \A d \in Conns \ {c} : conn'[d] = conn[d]
BY Ending DEF ConnsOK, Drop

LEMMA TypeInit == Init => TypeOK
<1> SUFFICES ASSUME Init PROVE TypeOK
  OBVIOUS
<1>1. ConnsOK
  BY Constants DEF Init, ConnsOK, IsEsp, IdleConn, UserPcs
<1>2. HoldersOK
  BY Constants DEF Init, HoldersOK, None
<1> QED
  BY <1>1, <1>2 DEF Init, TypeOK

\* A reservation or session held under the id of a connection of the device.
LEMMA HoldingType ==
    ASSUME HoldersOK, ConnsOK, NEW c \in Conns, conn[c].pc \in EspPcs \ UserPcs,
           \/ UNCHANGED <<reservation, session>>
           \/ /\ \/ reservation' = [reservation EXCEPT ![Mac(c)] = Held(conn[c].id)]
                 \/ reservation' = [reservation EXCEPT ![Mac(c)] = None]
              /\ session' = session
           \/ /\ \/ session' = [session EXCEPT ![Mac(c)] = Held(conn[c].id)]
                 \/ session' = [session EXCEPT ![Mac(c)] = None]
              /\ reservation' = reservation
    PROVE  HoldersOK'
<1>1. /\ conn[c].id \in EspIds /\ Mac(c) \in Macs /\ Mac(c) = MacOf[conn[c].id]
      /\ Held(conn[c].id) \in Holder /\ None \in Holder
      /\ Held(conn[c].id).id = conn[c].id /\ None.set = FALSE
  BY DeviceAt, Constants DEF Mac, Held, None
<1> HIDE DEF Held, None
<1> QED
  BY <1>1 DEF HoldersOK

LEMMA TypeNext == TypeOK /\ [Next]_vars => TypeOK'
<1> SUFFICES ASSUME TypeOK, [Next]_vars PROVE TypeOK'
  OBVIOUS
<1>0. ConnsOK /\ HoldersOK /\ alone \in [Macs -> BOOLEAN]
  BY DEF TypeOK
<1>1. ASSUME UNCHANGED <<reservation, session>> PROVE HoldersOK'
  BY <1>0, <1>1 DEF HoldersOK
<1>2. CASE UNCHANGED vars
  BY <1>0, <1>1, <1>2 DEF vars, TypeOK, ConnsOK, IsEsp
<1>3. ASSUME NEW c \in Conns, NEW id \in EspIds, ConnectEsp(c, id) PROVE TypeOK'
  <2>1. ConnsOK'
    BY <1>0, <1>3, BeginningType, Constants DEF ConnectEsp, EspPcs
  <2>2. HoldersOK' /\ alone' \in [Macs -> BOOLEAN]
    BY <1>0, <1>1, <1>3 DEF ConnectEsp, Begin
  <2> QED
    BY <2>1, <2>2 DEF TypeOK
<1>4. ASSUME NEW c \in Conns, NEW id \in UserIds, NEW u \in Users, ConnectUser(c, id, u)
      PROVE  TypeOK'
  <2>1. id \in Ids /\ id \notin EspIds
    BY DEF Ids
  <2>2. ConnsOK'
    BY <1>0, <1>4, <2>1, BeginningType DEF ConnectUser, UserPcs
  <2> QED
    BY <1>0, <1>1, <1>4, <2>2 DEF ConnectUser, Begin, TypeOK
<1>5. ASSUME NEW c \in Conns, Leave(c), UNCHANGED <<reservation, session, alone>>
      PROVE  TypeOK'
  BY <1>0, <1>1, <1>5, LeavingType DEF TypeOK
<1>6. ASSUME NEW c \in Conns, NEW pc \in EspPcs, conn[c].pc \in EspPcs \ UserPcs, Goto(c, pc)
      PROVE  ConnsOK'
  <2>1. IsEsp(c)
    BY <1>0, <1>6, DeviceAt
  <2> QED
    BY <1>0, <1>6, <2>1, GoingOnType DEF IsEsp
<1>7. ASSUME NEW c \in Conns, GetReservation(c) PROVE TypeOK'
  <2>1. conn[c].pc \in EspPcs \ UserPcs /\ {"set", "owner"} \subseteq EspPcs
    BY <1>7 DEF GetReservation, EspPcs, UserPcs
  <2>2. Goto(c, "set") \/ Goto(c, "owner") \/ Leave(c)
    BY <1>7 DEF GetReservation
  <2>3. UNCHANGED <<reservation, session, alone>>
    BY <1>7 DEF GetReservation
  <2> QED
    BY <1>0, <1>1, <1>5, <1>6, <2>1, <2>2, <2>3 DEF TypeOK
<1>8. ASSUME NEW c \in Conns, SetReservation(c) PROVE TypeOK'
  <2>1. conn[c].pc \in EspPcs \ UserPcs /\ "owner" \in EspPcs
    BY <1>8 DEF SetReservation, EspPcs, UserPcs
  <2>2. ConnsOK' /\ HoldersOK'
    BY <1>0, <1>6, <1>8, <2>1, HoldingType DEF SetReservation
  <2> QED
    BY <1>0, <1>8, <2>2 DEF SetReservation, TypeOK
<1>9. ASSUME NEW c \in Conns, StartEspSession(c) PROVE TypeOK'
  <2>1. conn[c].pc \in EspPcs \ UserPcs /\ {"start", "done"} \subseteq EspPcs
    BY <1>9 DEF StartEspSession, EspPcs, UserPcs
  <2>2. ConnsOK' /\ HoldersOK'
    BY <1>0, <1>6, <1>9, <2>1, HoldingType DEF StartEspSession
  <2> QED
    BY <1>0, <1>9, <2>2 DEF StartEspSession, TypeOK
<1>10. ASSUME NEW c \in Conns, StartAfterClosing(c) PROVE TypeOK'
  <2>1. conn[c].pc \in EspPcs \ UserPcs /\ "done" \in EspPcs
    BY <1>10 DEF StartAfterClosing, EspPcs, UserPcs
  <2>2. ConnsOK' /\ HoldersOK'
    BY <1>0, <1>6, <1>10, <2>1, HoldingType DEF StartAfterClosing
  <2> QED
    BY <1>0, <1>10, <2>2 DEF StartAfterClosing, TypeOK
<1>11. ASSUME NEW c \in Conns, ReadDevices(c) PROVE TypeOK'
  <2>1. /\ conn[c].pc = "devices" /\ "done" \in EspPcs /\ "done" \in UserPcs
        /\ Goto(c, "done") /\ UNCHANGED <<reservation, session, alone>>
    BY <1>11 DEF ReadDevices, EspPcs, UserPcs
  <2>2. ConnsOK'
    BY <1>0, <2>1, GoingOnType
  <2> QED
    BY <1>0, <1>1, <2>1, <2>2 DEF TypeOK
<1>12. ASSUME NEW c \in Conns, Register(c) PROVE TypeOK'
  <2>1. \A d \in Conns :
            \/ conn'[d] = conn[d] \/ conn'[d] = Ended(d)
            \/ /\ conn[d].pc = "done" /\ conn'[d].pc = "live" /\ conn'[d].id = conn[d].id
    BY <1>0, <1>12, Registering DEF Register
  <2>2. ConnsOK'
    BY <1>0, <1>12, <2>1, Registering, EndingType
  <2> QED
    BY <1>0, <1>1, <1>12, <2>2 DEF Register, TypeOK
<1>13. ASSUME NEW c \in Conns, Drop(c) PROVE TypeOK'
  <2>1. ConnsOK'
    BY <1>0, <1>13, Dropping, EndingType
  <2> QED
    BY <1>0, <1>1, <1>13, <2>1 DEF Drop, TypeOK
<1>14. ASSUME NEW c \in Conns, ReadReservation(c) PROVE TypeOK'
  <2>1. conn[c].pc \in EspPcs \ UserPcs /\ {"delete", "end"} \subseteq EspPcs
    BY <1>14 DEF ReadReservation, EspPcs, UserPcs
  <2>2. ConnsOK'
    BY <1>6, <1>14, <2>1 DEF ReadReservation
  <2> QED
    BY <1>0, <1>1, <1>14, <2>2 DEF ReadReservation, TypeOK
<1>15. ASSUME NEW c \in Conns, DeleteReservation(c) PROVE TypeOK'
  <2>1. conn[c].pc \in EspPcs \ UserPcs /\ "end" \in EspPcs
    BY <1>15 DEF DeleteReservation, EspPcs, UserPcs
  <2>2. ConnsOK' /\ HoldersOK'
    BY <1>0, <1>6, <1>15, <2>1, HoldingType DEF DeleteReservation
  <2> QED
    BY <1>0, <1>15, <2>2 DEF DeleteReservation, TypeOK
<1>16. ASSUME NEW c \in Conns, EndEspSession(c) PROVE TypeOK'
  <2>1. conn[c].pc \in EspPcs \ UserPcs
    BY <1>16 DEF EndEspSession, EspPcs, UserPcs
  <2>2. HoldersOK'
    BY <1>0, <1>16, <2>1, HoldingType DEF EndEspSession
  <2>3. ConnsOK'
    BY <1>0, <1>16, LeavingType DEF EndEspSession
  <2> QED
    BY <1>0, <1>16, <2>2, <2>3 DEF EndEspSession, TypeOK
<1>17. ASSUME NEW c \in Conns, FailAuthentication(c) \/ FindDropped(c) PROVE TypeOK'
  BY <1>5, <1>17 DEF FailAuthentication, FindDropped
<1> QED
  BY <1>2, <1>3, <1>4, <1>7, <1>8, <1>9, <1>10, <1>11, <1>12, <1>13, <1>14, <1>15,
     <1>16, <1>17 DEF Next, Authenticate, Disconnect

\* The program counters, the ids and what is held for each device have their types.
THEOREM TypeCorrect == Spec => []TypeOK
BY TypeInit, TypeNext, PTL DEF Spec

-----------------------------------------------------------------------------
(* How a connection advances, whatever the step                            *)

Connects == \E c \in Conns :
    \/ \E id \in EspIds : ConnectEsp(c, id)
    \/ \E id \in UserIds, u \in Users : ConnectUser(c, id, u)

\* A step that takes on no connection leaves each one who it is or idle; none
\* authenticates or is live that was not at least authenticating before.
Advances(d) ==
    \/ conn'[d].pc = "idle"
    \/ /\ conn[d].pc # "idle"
       /\ conn'[d].id = conn[d].id /\ conn'[d].user = conn[d].user
       /\ conn'[d].pc \in Authenticating => conn[d].pc \in Authenticating
       /\ conn'[d].pc = "live" => conn[d].pc \in Authenticating \cup {"live"}

LEMMA Advancing ==
    ASSUME ConnsOK, [Next]_vars, ~Connects
    PROVE  \A d \in Conns : Advances(d)
<1>1. ASSUME conn' = conn PROVE \A d \in Conns : Advances(d)
  BY <1>1 DEF Advances
<1>2. ASSUME NEW c \in Conns, Leave(c) PROVE \A d \in Conns : Advances(d)
  BY <1>2, Leaving DEF Advances
<1>3. ASSUME NEW c \in Conns, NEW pc \in EspPcs \cup UserPcs, Goto(c, pc),
             conn[c].pc # "idle", pc # "live",
             pc \in Authenticating => conn[c].pc \in Authenticating
      PROVE  \A d \in Conns : Advances(d)
  <2>1. \A d \in Conns \ {c} : Advances(d)
    BY <1>3, GoingOn DEF Advances
  <2>2. Advances(c)
    BY <1>3, GoingOn DEF Advances
  <2> QED
    BY <2>1, <2>2
<1>4. \A d \in Conns : conn[d].pc = "live" /\ conn'[d] = Ended(d) => Advances(d)
  <2> SUFFICES ASSUME NEW d \in Conns, conn[d].pc = "live", conn'[d] = Ended(d)
               PROVE  Advances(d)
    OBVIOUS
  <2>1. CASE IsEsp(d)
    <3>1. conn[d] \in Connection /\ conn'[d] = [conn[d] EXCEPT !.pc = "ended"]
      BY <2>1 DEF ConnsOK, Ended
    <3> QED
      BY <3>1 DEF Connection, Advances, Authenticating
  <2>2. CASE ~IsEsp(d)
    BY <2>2, Ending DEF Advances
  <2> QED
    BY <2>1, <2>2
<1>5. ASSUME NEW c \in Conns, Register(c) PROVE \A d \in Conns : Advances(d)
  <2>1. \A d \in SameId(c) : Advances(d)
    BY <1>4, <1>5, Registering DEF SameId, IsLive
  <2>2. Advances(c)
    BY <1>5, Registering DEF Register, Advances, Authenticating
  <2>3. \A d \in Conns \ ({c} \cup SameId(c)) : Advances(d)
    BY <1>5, Registering DEF Advances
  <2> QED
    BY <2>1, <2>2, <2>3
<1>6. ASSUME NEW c \in Conns, Drop(c) PROVE \A d \in Conns : Advances(d)
  <2>1. Advances(c)
    BY <1>4, <1>6, Dropping DEF Drop, IsLive
  <2>2. \A d \in Conns \ {c} : Advances(d)
    BY <1>6, Dropping DEF Advances
  <2> QED
    BY <2>1, <2>2
<1>7. ASSUME NEW c \in Conns, Authenticate(c) PROVE \A d \in Conns : Advances(d)
  <2>1. CASE GetReservation(c)
    BY <1>2, <1>3, <2>1 DEF GetReservation, EspPcs, Authenticating
  <2>2. CASE SetReservation(c)
    BY <1>3, <2>2 DEF SetReservation, EspPcs, Authenticating
  <2>3. CASE StartEspSession(c)
    BY <1>3, <2>3 DEF StartEspSession, EspPcs, Authenticating
  <2>4. CASE StartAfterClosing(c)
    BY <1>3, <2>4 DEF StartAfterClosing, EspPcs, Authenticating
  <2>5. CASE ReadDevices(c)
    BY <1>3, <2>5 DEF ReadDevices, EspPcs, Authenticating
  <2> QED
    BY <1>5, <1>7, <2>1, <2>2, <2>3, <2>4, <2>5 DEF Authenticate
<1>8. ASSUME NEW c \in Conns, Disconnect(c) PROVE \A d \in Conns : Advances(d)
  <2>1. CASE ReadReservation(c)
    BY <1>3, <2>1 DEF ReadReservation, EspPcs, Authenticating
  <2>2. CASE DeleteReservation(c)
    BY <1>3, <2>2 DEF DeleteReservation, EspPcs, Authenticating
  <2>3. CASE EndEspSession(c)
    BY <1>2, <2>3 DEF EndEspSession
  <2> QED
    BY <1>8, <2>1, <2>2, <2>3 DEF Disconnect
<1> QED
  BY <1>1, <1>2, <1>6, <1>7, <1>8
  DEF Next, vars, Connects, FailAuthentication, FindDropped

-----------------------------------------------------------------------------
(* Limits                                                                  *)

Attempts == {c \in Conns : conn[c].pc \in Authenticating}

\* A user's connections, live or to be.
SessionsOf(u) == {c \in Conns : conn[c].pc # "idle" /\ ~IsEsp(c) /\ conn[c].user = u}

\* The devices of an owner that are online or to be.
DevicesOf(u) ==
    {m \in Macs : Owner[m] = u
        /\ \E c \in Of(m) : conn[c].pc \in Authenticating \cup {"live"}}

\* The limits with the connections under way counted in: what a connect adds to is
\* the live ones it counted and the attempts, of which it is one.
LimitsInv ==
    /\ Cardinality(Attempts) <= MaxAttempts
    /\ \A u \in Users :
        /\ Cardinality(SessionsOf(u)) <= MaxUserSessions + MaxAttempts - 1
        /\ IsFiniteSet(DevicesOf(u))
        /\ Cardinality(DevicesOf(u)) <= MaxOnlineDevices + MaxAttempts - 1

LEMMA Counting ==
    ASSUME NEW S, NEW T, IsFiniteSet(T), S \subseteq T
    PROVE  /\ IsFiniteSet(S) /\ Cardinality(S) \in Nat /\ Cardinality(T) \in Nat
           /\ Cardinality(S) <= Cardinality(T)
BY FS_Subset, FS_CardinalityType

LEMMA CountingTwo ==
    ASSUME NEW R, NEW S, NEW T, IsFiniteSet(S), IsFiniteSet(T), R \subseteq S \cup T
    PROVE  /\ IsFiniteSet(R) /\ Cardinality(R) \in Nat
           /\ Cardinality(R) <= Cardinality(S) + Cardinality(T)
<1>1. IsFiniteSet(S \cup T)
  BY FS_Union
<1>2. Cardinality(S \cup T) = Cardinality(S) + Cardinality(T) - Cardinality(S \cap T)
  BY FS_Union
<1>3. IsFiniteSet(S \cap T)
  BY FS_Subset
<1>4. /\ Cardinality(S) \in Nat /\ Cardinality(T) \in Nat
      /\ Cardinality(S \cap T) \in Nat /\ Cardinality(S \cup T) \in Nat
  BY <1>1, <1>3, FS_CardinalityType
<1> QED
  BY <1>1, <1>2, <1>4, Counting

LEMMA CountingMacs ==
    ASSUME NEW C, IsFiniteSet(C), NEW mac
    PROVE  /\ IsFiniteSet({mac[c] : c \in C})
           /\ Cardinality({mac[c] : c \in C}) <= Cardinality(C)
<1>1. [c \in C |-> mac[c]] \in Surjection(C, {mac[c] : c \in C})
  BY DEF Surjection
<1> QED
  BY <1>1, FS_Surjection

LEMMA LimitsInit == Init => LimitsInv
<1> SUFFICES ASSUME Init PROVE LimitsInv
  OBVIOUS
<1>1. Attempts = {} /\ \A u \in Users : SessionsOf(u) = {} /\ DevicesOf(u) = {}
  BY DEF Init, IdleConn, Attempts, SessionsOf, DevicesOf, Of, IsEsp, Authenticating
<1>2. IsFiniteSet({}) /\ Cardinality({}) = 0
  BY FS_EmptySet
<1>3. /\ 0 <= MaxAttempts
      /\ 0 <= MaxUserSessions + MaxAttempts - 1
      /\ 0 <= MaxOnlineDevices + MaxAttempts - 1
  OBVIOUS
<1> QED
  BY <1>1, <1>2, <1>3 DEF LimitsInv

\* A step that takes on no connection adds to none of the sets.
LEMMA LimitsAdvance ==
    ASSUME ConnsOK, [Next]_vars, ~Connects
    PROVE  /\ Attempts' \subseteq Attempts
           /\ \A u \in Users :
                /\ SessionsOf(u)' \subseteq SessionsOf(u)
                /\ DevicesOf(u)' \subseteq DevicesOf(u)
<1>1. \A d \in Conns : Advances(d)
  BY Advancing
<1>2. Attempts' \subseteq Attempts
  BY <1>1 DEF Attempts, Advances, Authenticating
<1>3. ASSUME NEW u \in Users PROVE SessionsOf(u)' \subseteq SessionsOf(u)
  BY <1>1 DEF SessionsOf, Advances, IsEsp
<1>4. ASSUME NEW u \in Users PROVE DevicesOf(u)' \subseteq DevicesOf(u)
  BY <1>1 DEF DevicesOf, Of, Mac, Advances, IsEsp, Authenticating
<1> QED
  BY <1>2, <1>3, <1>4

\* One that takes on a connection finds room for the attempt.
LEMMA LimitsAttempts ==
    ASSUME ConnsOK, NEW c \in Conns, NEW pc \in EspPcs \cup UserPcs, NEW id \in Ids,
           NEW u \in Users, Begin(c, pc, id, u)
    PROVE  IsFiniteSet(Attempts') /\ Cardinality(Attempts') <= MaxAttempts
<1>1. IsFiniteSet(Attempts) /\ Cardinality(Attempts) \in Nat
  BY Counting DEF Attempts
<1>2. Attempts' \subseteq Attempts \cup {c}
  BY Beginning DEF Attempts
<1>3. Cardinality(Attempts) < MaxAttempts
  BY DEF Begin, Admitted, Attempts
<1>4. /\ IsFiniteSet(Attempts \cup {c})
      /\ Cardinality(Attempts \cup {c}) <= Cardinality(Attempts) + 1
  <2>1. /\ IsFiniteSet(Attempts \cup {c})
        /\ Cardinality(Attempts \cup {c}) =
                IF c \in Attempts THEN Cardinality(Attempts) ELSE Cardinality(Attempts) + 1
    BY <1>1, FS_AddElement
  <2> QED
    BY <1>1, <2>1
<1>5. Cardinality(Attempts \cup {c}) \in Nat
  BY <1>4, FS_CardinalityType
<1> QED
  BY <1>1, <1>2, <1>3, <1>4, <1>5, Counting

LEMMA LimitsUser ==
    ASSUME ConnsOK, LimitsInv, NEW c \in Conns, NEW id \in UserIds, NEW w \in Users,
           ConnectUser(c, id, w)
    PROVE  LimitsInv'
<1>1. Begin(c, "devices", id, w) /\ id \in Ids /\ id \notin EspIds /\ "devices" \in UserPcs
  BY DEF ConnectUser, Ids, UserPcs
<1>2. /\ conn[c].pc = "idle" /\ conn'[c].pc = "devices" /\ conn'[c].id = id /\ conn'[c].user = w
      /\ \A d \in Conns \ {c} : conn'[d] = conn[d]
  BY <1>1, Beginning
<1>3. IsFiniteSet(Attempts') /\ Cardinality(Attempts') <= MaxAttempts
  BY <1>1, LimitsAttempts
<1>4. ASSUME NEW u \in Users
      PROVE  Cardinality(SessionsOf(u)') <= MaxUserSessions + MaxAttempts - 1
  <2>1. CASE u # w
    <3>1. SessionsOf(u)' \subseteq SessionsOf(u)
      BY <1>2, <2>1 DEF SessionsOf, IsEsp
    <3>2. /\ Cardinality(SessionsOf(u)') \in Nat /\ Cardinality(SessionsOf(u)) \in Nat
          /\ Cardinality(SessionsOf(u)') <= Cardinality(SessionsOf(u))
      BY <3>1, Counting DEF SessionsOf
    <3> QED
      BY <3>2 DEF LimitsInv
  <2>2. CASE u = w
    <3>1. SessionsOf(u)' \subseteq LiveSessions(u) \cup Attempts'
      <4>1. ASSUME NEW d \in SessionsOf(u)', d # c PROVE d \in LiveSessions(u) \cup Attempts'
        BY <1>2, <4>1
        DEF ConnsOK, SessionsOf, LiveSessions, Attempts, IsEsp, IsLive, Authenticating, UserPcs
      <4>2. c \in Attempts'
        BY <1>2 DEF Attempts, Authenticating
      <4> QED
        BY <4>1, <4>2
    <3>2. IsFiniteSet(LiveSessions(u)) /\ Cardinality(LiveSessions(u)) \in Nat
      BY Counting DEF LiveSessions
    <3>3. Cardinality(LiveSessions(u)) < MaxUserSessions
      BY <2>2 DEF ConnectUser
    <3>4. Cardinality(Attempts') \in Nat
      BY <1>3, FS_CardinalityType
    <3>5. /\ Cardinality(SessionsOf(u)') \in Nat
          /\ Cardinality(SessionsOf(u)') <= Cardinality(LiveSessions(u)) + Cardinality(Attempts')
      BY <1>3, <3>1, <3>2, CountingTwo
    <3> HIDE DEF SessionsOf, LiveSessions, Attempts
    <3> QED
      BY <1>3, <3>2, <3>3, <3>4, <3>5
  <2> QED
    BY <2>1, <2>2
<1>5. ASSUME NEW u \in Users PROVE DevicesOf(u)' \subseteq DevicesOf(u)
  BY <1>1, <1>2, <1>5 DEF DevicesOf, Of, Mac, IsEsp
<1>6. ASSUME NEW u \in Users
      PROVE  /\ IsFiniteSet(DevicesOf(u)')
             /\ Cardinality(DevicesOf(u)') <= MaxOnlineDevices + MaxAttempts - 1
  <2>1. IsFiniteSet(DevicesOf(u)) /\ Cardinality(DevicesOf(u)) <= MaxOnlineDevices + MaxAttempts - 1
    BY DEF LimitsInv
  <2>2. /\ IsFiniteSet(DevicesOf(u)') /\ Cardinality(DevicesOf(u)') \in Nat
        /\ Cardinality(DevicesOf(u)) \in Nat
        /\ Cardinality(DevicesOf(u)') <= Cardinality(DevicesOf(u))
    BY <1>5, <2>1, Counting
  <2> QED
    BY <2>1, <2>2
<1> QED
  BY <1>3, <1>4, <1>6 DEF LimitsInv

LEMMA LimitsEsp ==
    ASSUME ConnsOK, LimitsInv, NEW c \in Conns, NEW id \in EspIds, ConnectEsp(c, id)
    PROVE  LimitsInv'
<1> DEFINE m == MacOf[id]
           mac == [d \in Conns |-> MacOf[conn[d].id]]
           macAfter == [d \in Conns |-> MacOf[conn'[d].id]]
           others == {mac[d] : d \in OtherLiveDevices(m)}
           attempts == {macAfter[d] : d \in Attempts'}
<1>1. /\ Begin(c, "get", id, AnyUser) /\ id \in Ids /\ "get" \in EspPcs /\ m \in Macs
      /\ AnyUser \in Users
  BY Constants DEF ConnectEsp, EspPcs
<1>2. /\ conn[c].pc = "idle" /\ conn'[c].pc = "get" /\ conn'[c].id = id
      /\ \A d \in Conns \ {c} : conn'[d] = conn[d]
  BY <1>1, Beginning
<1>3. IsFiniteSet(Attempts') /\ Cardinality(Attempts') <= MaxAttempts
  BY <1>1, LimitsAttempts
<1>4. ASSUME NEW u \in Users
      PROVE  Cardinality(SessionsOf(u)') <= MaxUserSessions + MaxAttempts - 1
  <2>1. SessionsOf(u)' \subseteq SessionsOf(u)
    BY <1>2 DEF SessionsOf, IsEsp
  <2>2. /\ Cardinality(SessionsOf(u)') \in Nat /\ Cardinality(SessionsOf(u)) \in Nat
        /\ Cardinality(SessionsOf(u)') <= Cardinality(SessionsOf(u))
    BY <2>1, Counting DEF SessionsOf
  <2> QED
    BY <2>2 DEF LimitsInv
<1>5. ASSUME NEW u \in Users
      PROVE  /\ IsFiniteSet(DevicesOf(u)')
             /\ Cardinality(DevicesOf(u)') <= MaxOnlineDevices + MaxAttempts - 1
  <2>1. CASE Owner[m] # u
    <3>1. DevicesOf(u)' \subseteq DevicesOf(u)
      BY <1>1, <1>2, <2>1 DEF DevicesOf, Of, Mac, IsEsp
    <3>2. /\ IsFiniteSet(DevicesOf(u))
          /\ Cardinality(DevicesOf(u)) <= MaxOnlineDevices + MaxAttempts - 1
      BY DEF LimitsInv
    <3>3. /\ IsFiniteSet(DevicesOf(u)') /\ Cardinality(DevicesOf(u)') \in Nat
          /\ Cardinality(DevicesOf(u)) \in Nat
          /\ Cardinality(DevicesOf(u)') <= Cardinality(DevicesOf(u))
      BY <3>1, <3>2, Counting
    <3> QED
      BY <3>2, <3>3
  <2>2. CASE Owner[m] = u
    <3>1. DevicesOf(u)' \subseteq others \cup attempts
      <4> SUFFICES ASSUME NEW n \in Macs, Owner[n] = u, NEW d \in Conns,
                          IsEsp(d)', Mac(d)' = n,
                          conn'[d].pc \in Authenticating \cup {"live"}
                   PROVE  n \in others \cup attempts
        BY DEF DevicesOf, Of
      <4>1. CASE conn'[d].pc \in Authenticating
        BY <4>1 DEF Attempts, Mac
      <4>2. CASE conn'[d].pc = "live"
        <5>1. d # c /\ conn'[d] = conn[d]
          BY <1>2, <4>2
        <5>2. n # m => d \in OtherLiveDevices(m) /\ n = mac[d]
          BY <2>2, <4>2, <5>1 DEF OtherLiveDevices, IsLive, IsEsp, Mac
        <5>3. m \in attempts
          BY <1>2 DEF Attempts, Authenticating
        <5> QED
          BY <5>2, <5>3
      <4> QED
        BY <4>1, <4>2
    <3>2. IsFiniteSet(OtherLiveDevices(m)) /\ Cardinality(OtherLiveDevices(m)) \in Nat
      BY Counting DEF OtherLiveDevices
    <3>3. Cardinality(OtherLiveDevices(m)) < MaxOnlineDevices
      BY <2>2 DEF ConnectEsp
    <3>4. IsFiniteSet(others) /\ Cardinality(others) <= Cardinality(OtherLiveDevices(m))
      BY <3>2, CountingMacs
    <3>5. IsFiniteSet(attempts) /\ Cardinality(attempts) <= Cardinality(Attempts')
      BY <1>3, CountingMacs
    <3>6. /\ Cardinality(others) \in Nat /\ Cardinality(attempts) \in Nat
          /\ Cardinality(Attempts') \in Nat
      BY <1>3, <3>4, <3>5, FS_CardinalityType
    <3>7. /\ IsFiniteSet(DevicesOf(u)') /\ Cardinality(DevicesOf(u)') \in Nat
          /\ Cardinality(DevicesOf(u)') <= Cardinality(others) + Cardinality(attempts)
      BY <3>1, <3>4, <3>5, CountingTwo
    <3> HIDE DEF others, attempts, m
    <3> QED
      BY <1>3, <3>2, <3>3, <3>4, <3>5, <3>6, <3>7
  <2> QED
    BY <2>1, <2>2
<1> QED
  BY <1>3, <1>4, <1>5 DEF LimitsInv

LEMMA LimitsNext == TypeOK /\ LimitsInv /\ [Next]_vars => LimitsInv'
<1> SUFFICES ASSUME TypeOK, LimitsInv, [Next]_vars PROVE LimitsInv'
  OBVIOUS
<1>1. ConnsOK
  BY DEF TypeOK
<1>2. CASE Connects
  BY <1>1, <1>2, LimitsEsp, LimitsUser DEF Connects
<1>3. CASE ~Connects
  <2>1. /\ IsFiniteSet(Attempts) /\ Cardinality(Attempts) <= MaxAttempts
        /\ \A u \in Users :
            /\ IsFiniteSet(SessionsOf(u))
            /\ Cardinality(SessionsOf(u)) <= MaxUserSessions + MaxAttempts - 1
            /\ IsFiniteSet(DevicesOf(u))
            /\ Cardinality(DevicesOf(u)) <= MaxOnlineDevices + MaxAttempts - 1
    BY Counting DEF LimitsInv, Attempts, SessionsOf
  <2>2. /\ Attempts' \subseteq Attempts
        /\ \A u \in Users :
            /\ SessionsOf(u)' \subseteq SessionsOf(u)
            /\ DevicesOf(u)' \subseteq DevicesOf(u)
    BY <1>1, <1>3, LimitsAdvance
  <2>3. Cardinality(Attempts') <= MaxAttempts
    BY <2>1, <2>2, Counting
  <2>4. ASSUME NEW u \in Users
        PROVE  Cardinality(SessionsOf(u)') <= MaxUserSessions + MaxAttempts - 1
    <3>1. /\ Cardinality(SessionsOf(u)') \in Nat /\ Cardinality(SessionsOf(u)) \in Nat
          /\ Cardinality(SessionsOf(u)') <= Cardinality(SessionsOf(u))
      BY <2>1, <2>2, Counting
    <3> QED
      BY <2>1, <3>1
  <2>5. ASSUME NEW u \in Users
        PROVE  /\ IsFiniteSet(DevicesOf(u)')
               /\ Cardinality(DevicesOf(u)') <= MaxOnlineDevices + MaxAttempts - 1
    <3>1. /\ Cardinality(DevicesOf(u)') \in Nat /\ Cardinality(DevicesOf(u)) \in Nat
          /\ Cardinality(DevicesOf(u)') <= Cardinality(DevicesOf(u))
          /\ IsFiniteSet(DevicesOf(u)')
      BY <2>1, <2>2, Counting
    <3> QED
      BY <2>1, <3>1
  <2> QED
    BY <2>3, <2>4, <2>5 DEF LimitsInv
<1> QED
  BY <1>2, <1>3

LEMMA LimitsHold == LimitsInv => UserLimit /\ DeviceLimit
<1> SUFFICES ASSUME LimitsInv, NEW u \in Users
             PROVE  /\ Cardinality(LiveSessions(u)) <= MaxUserSessions + MaxAttempts - 1
                    /\ Cardinality({m \in Macs : Owner[m] = u /\ Connected(m)})
                            <= MaxOnlineDevices + MaxAttempts - 1
  BY DEF UserLimit, DeviceLimit
<1>1. LiveSessions(u) \subseteq SessionsOf(u) /\ IsFiniteSet(SessionsOf(u))
  BY Counting DEF LiveSessions, SessionsOf, IsLive
<1>2. {m \in Macs : Owner[m] = u /\ Connected(m)} \subseteq DevicesOf(u)
  BY DEF Connected, DevicesOf, IsLive
<1>3. /\ Cardinality(SessionsOf(u)) <= MaxUserSessions + MaxAttempts - 1
      /\ IsFiniteSet(DevicesOf(u))
      /\ Cardinality(DevicesOf(u)) <= MaxOnlineDevices + MaxAttempts - 1
  BY DEF LimitsInv
<1>4. /\ Cardinality(LiveSessions(u)) \in Nat /\ Cardinality(SessionsOf(u)) \in Nat
      /\ Cardinality(LiveSessions(u)) <= Cardinality(SessionsOf(u))
  BY <1>1, Counting
<1> DEFINE online == {m \in Macs : Owner[m] = u /\ Connected(m)}
<1>5. /\ Cardinality(online) \in Nat /\ Cardinality(DevicesOf(u)) \in Nat
      /\ Cardinality(online) <= Cardinality(DevicesOf(u))
  BY <1>2, <1>3, Counting
<1> HIDE DEF online
<1>6. Cardinality(online) <= MaxOnlineDevices + MaxAttempts - 1
  BY <1>3, <1>5
<1>7. Cardinality(LiveSessions(u)) <= MaxUserSessions + MaxAttempts - 1
  BY <1>3, <1>4
<1> QED
  BY <1>6, <1>7 DEF online

LEMMA LimitsInvariant == Spec => [](TypeOK /\ LimitsInv)
<1>1. Init => TypeOK /\ LimitsInv
  BY TypeInit, LimitsInit
<1>2. TypeOK /\ LimitsInv /\ [Next]_vars => (TypeOK /\ LimitsInv)'
  BY TypeNext, LimitsNext
<1> QED
  BY <1>1, <1>2, PTL DEF Spec

\* However the connects of a user interleave with each other and with anything else, the
\* user's live sessions exceed their limit by the concurrent attempts besides the first and
\* by no more.
THEOREM UserLimitKept == Spec => []UserLimit
BY LimitsInvariant, LimitsHold, PTL

\* The same for the devices of one owner that are online: a device that is taken over by a
\* newer connection counts once.
THEOREM DeviceLimitKept == Spec => []DeviceLimit
BY LimitsInvariant, LimitsHold, PTL

-----------------------------------------------------------------------------
(* The device of a connection that has it to itself                        *)

Reserved == {"owner", "start", "done", "live"}
Started == {"done", "live"}

\* A device no two connections of which have overlapped has one at most; that one
\* holds the reservation from its write on and the session from its start on.
SoleInv ==
    /\ \A m \in Macs : alone[m] => \A c, d \in Of(m) : c = d
    /\ \A c \in Conns : (IsEsp(c) /\ alone[Mac(c)]) =>
        /\ conn[c].pc \in Reserved => reservation[Mac(c)] = Held(conn[c].id)
        /\ conn[c].pc \in Started => session[Mac(c)] = Held(conn[c].id)

LEMMA SoleInit == Init => SoleInv
BY DEF Init, SoleInv, IdleConn, Of, IsEsp

\* What a step of the handler of one device's connection may do.
LEMMA SoleStep ==
    ASSUME TypeOK, SoleInv, UNCHANGED alone, NEW c \in Conns, IsEsp(c),
           \A d \in Conns \ {c} : conn'[d] = conn[d],
           \A m \in Macs \ {Mac(c)} :
                reservation'[m] = reservation[m] /\ session'[m] = session[m],
           conn'[c].pc # "idle" =>
                /\ conn'[c].id = conn[c].id
                /\ alone[Mac(c)] =>
                    /\ conn'[c].pc \in Reserved => reservation'[Mac(c)] = Held(conn[c].id)
                    /\ conn'[c].pc \in Started => session'[Mac(c)] = Held(conn[c].id)
    PROVE  SoleInv'
<1>0. \A d \in Conns : IsEsp(d) => Mac(d) \in Macs
  BY DEF IsEsp, Mac
<1>1. \A d \in Conns : IsEsp(d)' => IsEsp(d) /\ Mac(d)' = Mac(d)
  BY DEF IsEsp, Mac
<1>2. ASSUME NEW m \in Macs, alone'[m], NEW b \in Of(m)', NEW d \in Of(m)' PROVE b = d
  BY <1>1, <1>2 DEF SoleInv, Of
<1>3. ASSUME NEW d \in Conns, IsEsp(d)', alone'[Mac(d)']
      PROVE  /\ conn'[d].pc \in Reserved => reservation'[Mac(d)'] = Held(conn'[d].id)
             /\ conn'[d].pc \in Started => session'[Mac(d)'] = Held(conn'[d].id)
  <2>1. CASE d = c
    BY <1>1, <1>3, <2>1 DEF IsEsp
  <2>2. CASE d # c
    <3>1. Mac(d) # Mac(c)
      BY <1>0, <1>1, <1>3, <2>2 DEF SoleInv, Of
    <3> QED
      BY <1>0, <1>1, <1>3, <2>2, <3>1 DEF SoleInv
  <2> QED
    BY <2>1, <2>2
<1> QED
  BY <1>2, <1>3 DEF SoleInv

\* A step that writes neither reservation nor session and takes on no device.
LEMMA SoleAdvance ==
    ASSUME TypeOK, SoleInv, UNCHANGED <<reservation, session, alone>>,
           \A d \in Conns :
                \/ conn'[d] = conn[d] \/ ~IsEsp(d)'
                \/ /\ conn[d].pc # "idle" /\ conn'[d].id = conn[d].id
                   /\ conn'[d].pc \in Reserved => conn[d].pc \in Started
    PROVE  SoleInv'
<1>1. \A d \in Conns : IsEsp(d)' =>
        /\ IsEsp(d) /\ Mac(d)' = Mac(d) /\ conn'[d].id = conn[d].id
        /\ conn'[d].pc \in Reserved => conn[d].pc \in Reserved
        /\ conn'[d].pc \in Started => conn[d].pc \in Started
  BY DEF IsEsp, Mac, Reserved, Started
<1>2. ASSUME NEW m \in Macs, alone'[m], NEW b \in Of(m)', NEW d \in Of(m)' PROVE b = d
  BY <1>1, <1>2 DEF SoleInv, Of
<1>3. ASSUME NEW d \in Conns, IsEsp(d)', alone'[Mac(d)']
      PROVE  /\ conn'[d].pc \in Reserved => reservation'[Mac(d)'] = Held(conn'[d].id)
             /\ conn'[d].pc \in Started => session'[Mac(d)'] = Held(conn'[d].id)
  BY <1>1, <1>3 DEF SoleInv
<1> QED
  BY <1>2, <1>3 DEF SoleInv

LEMMA SoleConnect ==
    ASSUME TypeOK, SoleInv, NEW c \in Conns, NEW id \in EspIds, ConnectEsp(c, id)
    PROVE  SoleInv'
<1> DEFINE m == MacOf[id]
<1>1. /\ conn[c].pc = "idle" /\ conn'[c].pc = "get" /\ conn'[c].id = id /\ m \in Macs
      /\ \A d \in Conns \ {c} : conn'[d] = conn[d]
  BY Beginning, Constants DEF TypeOK, ConnectEsp, EspPcs
<1>2. /\ alone'[m] = (Of(m) = {}) /\ \A n \in Macs \ {m} : alone'[n] = alone[n]
      /\ UNCHANGED <<reservation, session>>
  BY <1>1 DEF TypeOK, ConnectEsp, Begin
<1>3. /\ IsEsp(c)' /\ Mac(c)' = m /\ ~IsEsp(c)
      /\ \A d \in Conns \ {c} : IsEsp(d)' = IsEsp(d) /\ Mac(d)' = Mac(d)
  BY <1>1 DEF IsEsp, Mac
<1>4. Of(m)' = Of(m) \cup {c} /\ \A n \in Macs \ {m} : Of(n)' = Of(n)
  BY <1>1, <1>3 DEF Of
<1>5. ASSUME NEW n \in Macs, alone'[n], NEW b \in Of(n)', NEW d \in Of(n)' PROVE b = d
  <2>1. CASE n = m
    <3>1. Of(m) = {}
      BY <1>2, <1>5, <2>1
    <3> QED
      BY <1>4, <1>5, <2>1, <3>1
  <2>2. CASE n # m
    <3>1. alone[n] /\ b \in Of(n) /\ d \in Of(n)
      BY <1>2, <1>4, <1>5, <2>2
    <3> QED
      BY <3>1 DEF SoleInv
  <2> QED
    BY <2>1, <2>2
<1>6. ASSUME NEW d \in Conns, IsEsp(d)', alone'[Mac(d)']
      PROVE  /\ conn'[d].pc \in Reserved => reservation'[Mac(d)'] = Held(conn'[d].id)
             /\ conn'[d].pc \in Started => session'[Mac(d)'] = Held(conn'[d].id)
  <2>1. CASE d = c
    BY <1>1, <2>1 DEF Reserved, Started
  <2>2. CASE d # c
    <3>1. IsEsp(d) /\ Mac(d)' = Mac(d) /\ Mac(d) \in Macs /\ d \in Of(Mac(d))
      BY <1>3, <1>6, <2>2 DEF IsEsp, Mac, Of
    <3>2. Mac(d) # m
      BY <1>2, <1>6, <3>1
    <3> QED
      BY <1>1, <1>2, <1>6, <2>2, <3>1, <3>2 DEF SoleInv
  <2> QED
    BY <2>1, <2>2
<1> QED
  BY <1>5, <1>6 DEF SoleInv

LEMMA SoleNext == TypeOK /\ SoleInv /\ [Next]_vars => SoleInv'
<1> SUFFICES ASSUME TypeOK, SoleInv, [Next]_vars PROVE SoleInv'
  OBVIOUS
<1>0. /\ ConnsOK /\ HoldersOK /\ alone \in [Macs -> BOOLEAN]
      /\ reservation \in [Macs -> Holder] /\ session \in [Macs -> Holder]
  BY DEF TypeOK, HoldersOK
<1>1. CASE UNCHANGED vars
  BY <1>1, SoleAdvance DEF vars
<1>2. ASSUME NEW c \in Conns, NEW id \in EspIds, ConnectEsp(c, id) PROVE SoleInv'
  BY <1>2, SoleConnect
<1>3. ASSUME NEW c \in Conns, NEW id \in UserIds, NEW u \in Users, ConnectUser(c, id, u)
      PROVE  SoleInv'
  <2>1. id \in Ids /\ id \notin EspIds /\ "devices" \in UserPcs
    BY DEF Ids, UserPcs
  <2>2. conn'[c].id = id /\ \A d \in Conns \ {c} : conn'[d] = conn[d]
    BY <1>0, <1>3, <2>1, Beginning DEF ConnectUser
  <2>3. ~IsEsp(c)' /\ UNCHANGED <<reservation, session, alone>>
    BY <1>3, <2>1, <2>2 DEF IsEsp, ConnectUser, Begin
  <2> QED
    BY <2>2, <2>3, SoleAdvance
<1>4. ASSUME NEW c \in Conns, Leave(c), UNCHANGED <<reservation, session, alone>>
      PROVE  SoleInv'
  <2>1. conn'[c].pc = "idle" /\ \A d \in Conns \ {c} : conn'[d] = conn[d]
    BY <1>0, <1>4, Leaving
  <2> QED
    BY <1>4, <2>1, SoleAdvance DEF IsEsp
\* A step that only moves the handler on, with nothing more to hold than before.
<1>5. ASSUME NEW c \in Conns, NEW pc \in EspPcs \cup UserPcs, Goto(c, pc),
             conn[c].pc # "idle", pc \in Reserved => conn[c].pc \in Started,
             UNCHANGED <<reservation, session, alone>>
      PROVE  SoleInv'
  <2>1. /\ conn'[c].pc = pc /\ conn'[c].id = conn[c].id
        /\ \A d \in Conns \ {c} : conn'[d] = conn[d]
    BY <1>0, <1>5, GoingOn
  <2> QED
    BY <1>5, <2>1, SoleAdvance
<1>6. ASSUME NEW c \in Conns, GetReservation(c) PROVE SoleInv'
  <2>1. /\ conn[c].pc \in EspPcs \ UserPcs /\ conn[c].pc = "get"
        /\ {"set", "owner"} \subseteq EspPcs /\ UNCHANGED <<reservation, session, alone>>
    BY <1>6 DEF GetReservation, EspPcs, UserPcs
  <2>2. IsEsp(c) /\ Mac(c) \in Macs /\ conn[c].id \in Ids
    BY <1>0, <2>1, DeviceAt
  <2>3. CASE Goto(c, "set")
    BY <1>5, <2>1, <2>3 DEF Reserved
  <2>4. CASE Leave(c)
    BY <1>4, <2>1, <2>4
  <2>5. CASE reservation[Mac(c)].set /\ reservation[Mac(c)].id = conn[c].id /\ Goto(c, "owner")
    <3>1. reservation[Mac(c)] \in Holder
      BY <1>0, <2>2
    <3>2. reservation[Mac(c)] = Held(conn[c].id)
      BY <2>5, <3>1 DEF Holder, Held
    <3>3. /\ conn'[c].pc = "owner" /\ conn'[c].id = conn[c].id
          /\ \A d \in Conns \ {c} : conn'[d] = conn[d]
      BY <1>0, <2>1, <2>5, GoingOn
    <3> QED
      BY <2>1, <2>2, <3>2, <3>3, SoleStep DEF Started
  <2> QED
    BY <1>6, <2>3, <2>4, <2>5 DEF GetReservation
<1>7. ASSUME NEW c \in Conns, SetReservation(c) PROVE SoleInv'
  <2>1. /\ conn[c].pc \in EspPcs \ UserPcs /\ "owner" \in EspPcs /\ Goto(c, "owner")
        /\ reservation' = [reservation EXCEPT ![Mac(c)] = Held(conn[c].id)]
        /\ UNCHANGED <<session, alone>>
    BY <1>7 DEF SetReservation, EspPcs, UserPcs
  <2>2. IsEsp(c) /\ Mac(c) \in Macs
    BY <1>0, <2>1, DeviceAt
  <2>3. /\ conn'[c].pc = "owner" /\ conn'[c].id = conn[c].id
        /\ \A d \in Conns \ {c} : conn'[d] = conn[d]
    BY <1>0, <2>1, GoingOn
  <2>4. /\ reservation'[Mac(c)] = Held(conn[c].id)
        /\ \A m \in Macs \ {Mac(c)} : reservation'[m] = reservation[m] /\ session'[m] = session[m]
    BY <1>0, <2>1, <2>2
  <2> QED
    BY <2>1, <2>2, <2>3, <2>4, SoleStep DEF Started
\* The connection had the reservation before and starts its session.
<1>8. ASSUME NEW c \in Conns, conn[c].pc \in {"owner", "start"}, Goto(c, "done"),
             session' = [session EXCEPT ![Mac(c)] = Held(conn[c].id)],
             UNCHANGED <<reservation, alone>>
      PROVE  SoleInv'
  <2>1. conn[c].pc \in EspPcs \ UserPcs /\ "done" \in EspPcs /\ conn[c].pc \in Reserved
    BY <1>8 DEF EspPcs, UserPcs, Reserved
  <2>2. IsEsp(c) /\ Mac(c) \in Macs
    BY <1>0, <2>1, DeviceAt
  <2>3. /\ conn'[c].pc = "done" /\ conn'[c].id = conn[c].id
        /\ \A d \in Conns \ {c} : conn'[d] = conn[d]
    BY <1>0, <1>8, <2>1, GoingOn
  <2>4. /\ session'[Mac(c)] = Held(conn[c].id)
        /\ \A m \in Macs \ {Mac(c)} : reservation'[m] = reservation[m] /\ session'[m] = session[m]
    BY <1>0, <1>8, <2>2
  <2>5. alone[Mac(c)] => reservation'[Mac(c)] = Held(conn[c].id)
    BY <1>8, <2>1, <2>2 DEF SoleInv
  <2> QED
    BY <1>8, <2>2, <2>3, <2>4, <2>5, SoleStep
<1>9. ASSUME NEW c \in Conns, StartEspSession(c) PROVE SoleInv'
  <2>1. /\ conn[c].pc = "owner" /\ conn[c].pc \in EspPcs \ UserPcs /\ "start" \in EspPcs
        /\ conn[c].pc \in Reserved /\ UNCHANGED <<reservation, alone>>
    BY <1>9 DEF StartEspSession, EspPcs, UserPcs, Reserved
  <2>2. IsEsp(c) /\ Mac(c) \in Macs
    BY <1>0, <2>1, DeviceAt
  <2>3. CASE session[Mac(c)].set
    <3>1. Goto(c, "start") /\ session' = [session EXCEPT ![Mac(c)] = None]
      BY <1>9, <2>3 DEF StartEspSession
    <3>2. /\ conn'[c].pc = "start" /\ conn'[c].id = conn[c].id
          /\ \A d \in Conns \ {c} : conn'[d] = conn[d]
      BY <1>0, <2>1, <3>1, GoingOn
    <3>3. \A m \in Macs \ {Mac(c)} : reservation'[m] = reservation[m] /\ session'[m] = session[m]
      BY <1>0, <2>1, <2>2, <3>1
    <3>4. alone[Mac(c)] => reservation'[Mac(c)] = Held(conn[c].id)
      BY <2>1, <2>2 DEF SoleInv
    <3> QED
      BY <2>1, <2>2, <3>2, <3>3, <3>4, SoleStep DEF Started
  <2>4. CASE ~session[Mac(c)].set
    BY <1>8, <1>9, <2>1, <2>4 DEF StartEspSession
  <2> QED
    BY <2>3, <2>4
<1>10. ASSUME NEW c \in Conns, StartAfterClosing(c) PROVE SoleInv'
  BY <1>8, <1>10 DEF StartAfterClosing
<1>11. ASSUME NEW c \in Conns, ReadDevices(c) PROVE SoleInv'
  <2>1. /\ conn[c].pc = "devices" /\ "done" \in UserPcs /\ Goto(c, "done")
        /\ UNCHANGED <<reservation, session, alone>>
    BY <1>11 DEF ReadDevices, UserPcs
  <2>2. ~IsEsp(c)
    BY <1>0, <2>1 DEF ConnsOK, EspPcs
  <2>3. /\ conn'[c].pc = "done" /\ conn'[c].id = conn[c].id
        /\ \A d \in Conns \ {c} : conn'[d] = conn[d]
    BY <1>0, <2>1, GoingOn
  <2>4. ~IsEsp(c)'
    BY <2>1, <2>2, <2>3 DEF IsEsp
  <2> QED
    BY <2>1, <2>3, <2>4, SoleAdvance
\* A connection that ends holds nothing any more.
<1>12. \A d \in Conns : IsLive(d) /\ conn'[d] = Ended(d) =>
            \/ ~IsEsp(d)'
            \/ /\ conn[d].pc # "idle" /\ conn'[d].id = conn[d].id
               /\ conn'[d].pc \in Reserved => conn[d].pc \in Started
  <2> SUFFICES ASSUME NEW d \in Conns, IsLive(d), conn'[d] = Ended(d), IsEsp(d)'
               PROVE  conn[d].pc # "idle" /\ conn'[d].id = conn[d].id /\ conn[d].pc \in Started
    OBVIOUS
  <2>1. IsEsp(d)
    BY <1>0, Ending DEF IsEsp
  <2> QED
    BY <1>0, <2>1, Ending DEF IsLive, Started
<1>13. ASSUME NEW c \in Conns, Register(c) PROVE SoleInv'
  <2>1. UNCHANGED <<reservation, session, alone>> /\ conn[c].pc \in Started /\ conn[c].pc # "idle"
    BY <1>13 DEF Register, Started
  <2>2. \A d \in SameId(c) : IsLive(d) /\ d \in Conns
    BY DEF SameId
  <2> QED
    BY <1>0, <1>12, <1>13, <2>1, <2>2, Registering, SoleAdvance
<1>14. ASSUME NEW c \in Conns, Drop(c) PROVE SoleInv'
  <2>1. UNCHANGED <<reservation, session, alone>> /\ IsLive(c)
    BY <1>14 DEF Drop
  <2> QED
    BY <1>0, <1>12, <1>14, <2>1, Dropping, SoleAdvance
<1>15. ASSUME NEW c \in Conns, ReadReservation(c) PROVE SoleInv'
  BY <1>5, <1>15 DEF ReadReservation, EspPcs, Reserved
<1>16. ASSUME NEW c \in Conns, DeleteReservation(c) PROVE SoleInv'
  <2>1. /\ conn[c].pc \in EspPcs \ UserPcs /\ "end" \in EspPcs /\ Goto(c, "end")
        /\ reservation' = [reservation EXCEPT ![Mac(c)] = None]
        /\ UNCHANGED <<session, alone>>
    BY <1>16 DEF DeleteReservation, EspPcs, UserPcs
  <2>2. IsEsp(c) /\ Mac(c) \in Macs
    BY <1>0, <2>1, DeviceAt
  <2>3. /\ conn'[c].pc = "end" /\ conn'[c].id = conn[c].id
        /\ \A d \in Conns \ {c} : conn'[d] = conn[d]
    BY <1>0, <2>1, GoingOn
  <2>4. \A m \in Macs \ {Mac(c)} : reservation'[m] = reservation[m] /\ session'[m] = session[m]
    BY <1>0, <2>1, <2>2
  <2> QED
    BY <2>1, <2>2, <2>3, <2>4, SoleStep DEF Reserved, Started
<1>17. ASSUME NEW c \in Conns, EndEspSession(c) PROVE SoleInv'
  <2>1. /\ conn[c].pc \in EspPcs \ UserPcs /\ Leave(c) /\ UNCHANGED <<reservation, alone>>
        /\ session' = session \/ session' = [session EXCEPT ![Mac(c)] = None]
    BY <1>17 DEF EndEspSession, EspPcs, UserPcs
  <2>2. IsEsp(c) /\ Mac(c) \in Macs
    BY <1>0, <2>1, DeviceAt
  <2>3. conn'[c].pc = "idle" /\ \A d \in Conns \ {c} : conn'[d] = conn[d]
    BY <1>0, <2>1, Leaving
  <2>4. \A m \in Macs \ {Mac(c)} : reservation'[m] = reservation[m] /\ session'[m] = session[m]
    BY <1>0, <2>1, <2>2
  <2> QED
    BY <2>1, <2>2, <2>3, <2>4, SoleStep
<1>18. ASSUME NEW c \in Conns, FailAuthentication(c) \/ FindDropped(c) PROVE SoleInv'
  BY <1>4, <1>18 DEF FailAuthentication, FindDropped
<1> QED
  BY <1>1, <1>2, <1>3, <1>6, <1>7, <1>9, <1>10, <1>11, <1>13, <1>14, <1>15, <1>16, <1>17,
     <1>18 DEF Next, Authenticate, Disconnect

\* However many connections of a device came before and however they ended, one that
\* then has the device to itself holds its reservation and its performance session.
THEOREM SoleConnectionHolds == Spec => []SoleConnectionHoldsDevice
<1>1. Init => TypeOK /\ SoleInv
  BY TypeInit, SoleInit
<1>2. TypeOK /\ SoleInv /\ [Next]_vars => (TypeOK /\ SoleInv)'
  BY TypeNext, SoleNext
<1>3. SoleInv => SoleConnectionHoldsDevice
  BY DEF SoleInv, SoleConnectionHoldsDevice, IsLive, Reserved, Started
<1> QED
  BY <1>1, <1>2, <1>3, PTL DEF Spec

================================================================================
