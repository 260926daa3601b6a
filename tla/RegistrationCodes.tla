---------------------------- MODULE RegistrationCodes ----------------------------
(***************************************************************************)
(* How a device comes to its owner: the code the owner is given, the       *)
(* registration a device makes with it, the token it gets, and its         *)
(* deletion. Requests of DevicesService interleave at their awaits.        *)
(***************************************************************************)
EXTENDS Naturals, FiniteSets

CONSTANTS
    Owners,
    Macs,           \* MAC addresses, upper case
    RegRequests,    \* requests in flight
    MaxCodes,       \* bound: codes issued
    MaxDevices,     \* bound: device documents created
    MaxRegAborts    \* bound: requests that end early

ASSUME RegAssumption ==
    /\ Owners # {} /\ Macs # {} /\ IsFiniteSet(RegRequests)
    /\ MaxCodes \in Nat /\ MaxDevices \in Nat /\ MaxRegAborts \in Nat

VARIABLES
    regCodes,    \* the codes, in the order of createdAt
    codeCount,   \* codes 1..codeCount exist
    devices,     \* device documents, in the order they were created
    deviceCount,
    deviceTokens,\* tokens: their device, and the owner the registration acted for
    aborts,      \* history: requests that ended early
    regReq,      \* each request: where it is and what it remembers
    registered   \* history: for each code, the registrations made with it

regVars == <<regCodes, codeCount, devices, deviceCount, deviceTokens,
             aborts, regReq, registered>>

Codes == 1..MaxCodes
Devices == 1..MaxDevices

\* active: neither consumed nor expired.
RegCode == [owner : Owners, active : BOOLEAN]
Device == [mac : Macs, owner : Owners, live : BOOLEAN]
DeviceToken == [device : Devices, for : Owners]

\* code 0: the owner registers the device, without a code.
RegRequest == [pc : {"idle", "issue", "owner", "device", "save", "create", "mark", "token",
                     "store", "delete"},
               code : 0..MaxCodes, owner : Owners, mac : Macs, device : 0..MaxDevices]

IdleReg == [pc |-> "idle", code |-> 0, owner |-> CHOOSE o \in Owners : TRUE,
            mac |-> CHOOSE m \in Macs : TRUE, device |-> 0]

RegInit ==
    /\ regCodes = [c \in Codes |-> [owner |-> IdleReg.owner, active |-> FALSE]]
    /\ codeCount = 0
    /\ devices = [d \in Devices |-> [mac |-> IdleReg.mac, owner |-> IdleReg.owner, live |-> FALSE]]
    /\ deviceCount = 0
    /\ deviceTokens = {}
    /\ aborts = 0
    /\ regReq = [r \in RegRequests |-> IdleReg]
    /\ registered = [c \in Codes |-> 0]

ActiveCodes == {c \in 1..codeCount : regCodes[c].active}
WithMac(m) == {d \in Devices : devices[d].live /\ devices[d].mac = m}

RegBegin(r, pc, c, o, m, d) ==
    /\ regReq[r].pc = "idle"
    /\ regReq' = [regReq EXCEPT ![r] =
                    [pc |-> pc, code |-> c, owner |-> o, mac |-> m, device |-> d]]
RegGoto(r, pc, d) == regReq' = [regReq EXCEPT ![r] = [regReq[r] EXCEPT !.pc = pc, !.device = d]]
RegDone(r) == regReq' = [regReq EXCEPT ![r] = IdleReg]

-----------------------------------------------------------------------------
(* createRegistrationCode                                                  *)

ConsumeEarlierCodes(r, o) ==
    /\ RegBegin(r, "issue", 0, o, IdleReg.mac, 0)
    /\ regCodes' = [c \in Codes |->
                      IF c \in ActiveCodes /\ regCodes[c].owner = o
                      THEN [regCodes[c] EXCEPT !.active = FALSE] ELSE regCodes[c]]
    /\ UNCHANGED <<codeCount, devices, deviceCount, deviceTokens, aborts, registered>>

CreateCode(r) ==
    /\ regReq[r].pc = "issue"
    /\ codeCount < MaxCodes
    /\ codeCount' = codeCount + 1
    /\ regCodes' = [regCodes EXCEPT ![codeCount + 1] =
                      [owner |-> regReq[r].owner, active |-> TRUE]]
    /\ RegDone(r)
    /\ UNCHANGED <<devices, deviceCount, deviceTokens, aborts, registered>>

-----------------------------------------------------------------------------
(* registerDeviceWithCode                                                  *)

FindCode(r, c, m) ==
    /\ c \in ActiveCodes
    /\ RegBegin(r, "owner", c, regCodes[c].owner, m, 0)
    /\ UNCHANGED <<regCodes, codeCount, devices, deviceCount, deviceTokens, aborts, registered>>

\* The owner exists and has verified the address; otherwise the request ends (AbortRegistration).
CheckOwner(r) ==
    /\ regReq[r].pc = "owner"
    /\ RegGoto(r, "device", 0)
    /\ UNCHANGED <<regCodes, codeCount, devices, deviceCount, deviceTokens, aborts, registered>>

\* MUTANT: the device is taken whoever has it.
FindAnyDevice(r) ==
    /\ regReq[r].pc = "device"
    /\ \/ \E d \in WithMac(regReq[r].mac) : RegGoto(r, "save", d)
       \/ WithMac(regReq[r].mac) = {} /\ RegGoto(r, "create", 0)
    /\ UNCHANGED <<regCodes, codeCount, devices, deviceCount, deviceTokens, aborts, registered>>

\* A device of another owner is refused; one of this owner registers again.
FindDevice(r) ==
    /\ regReq[r].pc = "device"
    /\ \/ \E d \in WithMac(regReq[r].mac) :
            IF devices[d].owner = regReq[r].owner THEN RegGoto(r, "save", d) ELSE RegDone(r)
       \/ WithMac(regReq[r].mac) = {} /\ RegGoto(r, "create", 0)
    /\ UNCHANGED <<regCodes, codeCount, devices, deviceCount, deviceTokens, aborts, registered>>

Registers(r) == registered' =
    IF regReq[r].code = 0 THEN registered
    ELSE [registered EXCEPT ![regReq[r].code] = registered[regReq[r].code] + 1]

\* save() throws when the document is gone.
SaveDevice(r) ==
    LET d == regReq[r].device IN
    /\ regReq[r].pc = "save"
    /\ IF devices[d].live THEN RegGoto(r, "mark", d) /\ Registers(r)
                          ELSE RegDone(r) /\ UNCHANGED registered
    /\ UNCHANGED <<regCodes, codeCount, devices, deviceCount, deviceTokens, aborts>>

\* The owner registers a device, without a code.
RegisterDevice(r, o, m) ==
    /\ RegBegin(r, "create", 0, o, m, 0)
    /\ UNCHANGED <<regCodes, codeCount, devices, deviceCount, deviceTokens, aborts, registered>>

\* registerDevice refuses an address that is taken, and so does the unique index for one
\* taken since that look.
CreateDevice(r) ==
    LET d == deviceCount + 1 IN
    /\ regReq[r].pc = "create"
    /\ \/ /\ WithMac(regReq[r].mac) = {} /\ d \in Devices
          /\ devices' = [devices EXCEPT ![d] =
                           [mac |-> regReq[r].mac, owner |-> regReq[r].owner, live |-> TRUE]]
          /\ deviceCount' = d
          /\ IF regReq[r].code = 0 THEN RegDone(r) ELSE RegGoto(r, "mark", d)
          /\ Registers(r)
       \/ /\ WithMac(regReq[r].mac) # {}
          /\ RegDone(r)
          /\ UNCHANGED <<devices, deviceCount, registered>>
    /\ UNCHANGED <<regCodes, codeCount, deviceTokens, aborts>>

\* MUTANT: the code is left as it is.
LeaveCode(r) ==
    /\ regReq[r].pc = "mark"
    /\ RegGoto(r, "token", regReq[r].device)
    /\ UNCHANGED <<regCodes, codeCount, devices, deviceCount, deviceTokens, aborts, registered>>

ConsumeCode(r) ==
    /\ regReq[r].pc = "mark"
    /\ regCodes' = [regCodes EXCEPT ![regReq[r].code] =
                      [regCodes[regReq[r].code] EXCEPT !.active = FALSE]]
    /\ RegGoto(r, "token", regReq[r].device)
    /\ UNCHANGED <<codeCount, devices, deviceCount, deviceTokens, aborts, registered>>

\* generateDeviceToken: the device is read, and the token stored once its hash is computed.
ReadForToken(r) ==
    /\ regReq[r].pc = "token"
    /\ IF devices[regReq[r].device].live THEN RegGoto(r, "store", regReq[r].device) ELSE RegDone(r)
    /\ UNCHANGED <<regCodes, codeCount, devices, deviceCount, deviceTokens, aborts, registered>>

StoreToken(r) ==
    /\ regReq[r].pc = "store"
    /\ deviceTokens' = deviceTokens \cup {[device |-> regReq[r].device, for |-> regReq[r].owner]}
    /\ RegDone(r)
    /\ UNCHANGED <<regCodes, codeCount, devices, deviceCount, aborts, registered>>

-----------------------------------------------------------------------------
(* deleteDevice, and what happens around                                   *)

DeleteTokens(r, d) ==
    /\ devices[d].live
    /\ RegBegin(r, "delete", 0, devices[d].owner, devices[d].mac, d)
    /\ deviceTokens' = {t \in deviceTokens : t.device # d}
    /\ UNCHANGED <<regCodes, codeCount, devices, deviceCount, aborts, registered>>

DeleteDocument(r) ==
    /\ regReq[r].pc = "delete"
    /\ devices' = [devices EXCEPT ![regReq[r].device] =
                     [devices[regReq[r].device] EXCEPT !.live = FALSE]]
    /\ RegDone(r)
    /\ UNCHANGED <<regCodes, codeCount, deviceCount, deviceTokens, aborts, registered>>

\* revokeToken: a revoked token is never accepted again.
RevokeToken(t) ==
    /\ deviceTokens' = deviceTokens \ {t}
    /\ UNCHANGED <<regCodes, codeCount, devices, deviceCount, aborts, regReq, registered>>

\* A check fails, a service throws or the process stops.
AbortRegistration(r) ==
    /\ regReq[r].pc # "idle" /\ aborts < MaxRegAborts
    /\ aborts' = aborts + 1
    /\ RegDone(r)
    /\ UNCHANGED <<regCodes, codeCount, devices, deviceCount, deviceTokens, registered>>

\* expiresAt is over.
ExpireCode(c) ==
    /\ c \in ActiveCodes
    /\ regCodes' = [regCodes EXCEPT ![c] = [regCodes[c] EXCEPT !.active = FALSE]]
    /\ UNCHANGED <<codeCount, devices, deviceCount, deviceTokens, aborts, regReq, registered>>

RegNext ==
    \/ \E r \in RegRequests :
        \/ \E o \in Owners : \/ ConsumeEarlierCodes(r, o)
                             \/ \E m \in Macs : RegisterDevice(r, o, m)
        \/ \E c \in Codes, m \in Macs : FindCode(r, c, m)
        \/ \E d \in Devices : DeleteTokens(r, d)
        \/ CreateCode(r) \/ CheckOwner(r) \/ FindDevice(r) \/ SaveDevice(r) \/ CreateDevice(r)
        \/ ConsumeCode(r) \/ ReadForToken(r) \/ StoreToken(r) \/ DeleteDocument(r)
        \/ AbortRegistration(r)
    \/ \E t \in deviceTokens : RevokeToken(t)
    \/ \E c \in Codes : ExpireCode(c)

RegSpec == RegInit /\ [][RegNext]_regVars

-----------------------------------------------------------------------------

RegTypeOK ==
    /\ regCodes \in [Codes -> RegCode]
    /\ codeCount \in 0..MaxCodes
    /\ devices \in [Devices -> Device]
    /\ deviceCount \in 0..MaxDevices
    /\ \A d \in Devices : devices[d].live => d <= deviceCount
    /\ deviceTokens \subseteq DeviceToken
    /\ aborts \in 0..MaxRegAborts
    /\ regReq \in [RegRequests -> RegRequest]
    /\ registered \in [Codes -> Nat]
    /\ \A r \in RegRequests : regReq[r].pc \in {"save", "mark", "token", "store", "delete"} =>
            regReq[r].device \in 1..deviceCount

\* What a request found or made in earlier awaits may be gone or another's by the time it
\* stores the token: all the same, every token opens a device of the owner whose code the
\* device presented.
TokensForOwner == \A t \in deviceTokens : devices[t.device].owner = t.for

\* A code is looked up in the first await and marked after the device is stored: it
\* registers more than once only if requests were in flight together or ended early.
RegistrationsBounded ==
    \A c \in Codes : registered[c] <= Cardinality(RegRequests) + aborts

=============================================================================
