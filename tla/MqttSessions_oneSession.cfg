SPECIFICATION Spec
CONSTANTS
    Conns = {c1, c2}
    Macs = {"a"}
    EspIds = {a1, a2}
    MacOf <- MCOneDevice
    UserIds = {}
    Users = {"owner"}
    NoUser = "nobody"
    Owner <- MCOwner
    MaxUserSessions = 1
    MaxOnlineDevices = 1
    MaxAttempts = 2
INVARIANTS
    OneSessionPerDevice
