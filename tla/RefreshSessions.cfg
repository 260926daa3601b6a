SPECIFICATION Spec
CONSTANTS
    Clients = {c1}
    NoClient = NoClient
    Requests = {r1, r2}
    Grace = 1
    MaxTime = 1
    MaxTokens = 3
    MaxResets = 1
SYMMETRY Symmetry
INVARIANTS
    TypeOK
    ResetEndsSessions
    OneTokenPerLogin
    LoggedOutTokenDead
    NotStranded
CHECK_DEADLOCK FALSE
