SPECIFICATION Spec
CONSTANTS
    r1 = r1
    r2 = r2
    d1 = d1
    d2 = d2
    f1 = f1
    f2 = f2
    Rules = {r1}
    GasRules = {}
    Devices = {d1}
    Firers = {f1, f2}
    Resolvers = {s1, s2}
    Handlers = {h1}
    RuleCooldown = 1
    MaxBackoff = 2
    CoolOff = 1
    Delivered = {1}
    Bodies = {1}
    MaxTime = 0
    MaxIncidents = 2
    MaxNotices = 3
    MaxRestarts = 0
SYMMETRY Symmetry
CONSTRAINT Explored
INVARIANTS
    NoOlderPending
    IncidentAnnounced
    ResolutionsBounded
PROPERTIES
    LedgerSpec
CHECK_DEADLOCK FALSE
