SPECIFICATION Spec
CONSTANTS
    Conns = {c1, c2, c3}
    Macs = {m1, m2, m3}
    EspIds = {m1, m2, m3}
    MacOf <- MCOneSpelling
    UserIds = {u1, u2, u3}
    Users = {"owner"}
    NoUser = "nobody"
    Owner <- MCOwner
    MaxUserSessions = 1
    MaxOnlineDevices = 1
    MaxAttempts = 2
SYMMETRY Symmetry
INVARIANTS
    TypeOK
    UserLimit
    DeviceLimit
