SPECIFICATION Spec
CONSTRAINT Explored
CONSTANTS
    d1 = d1
    Rules = {r1, r2}
    GasRules = {r2}
    Devices = {d1, d2}
    Firers = {f1}
    Resolvers = {s1}
    Handlers = {h1}
    RuleCooldown = 1
    MaxBackoff = 2
    CoolOff = 1
    Delivered = {}
    Bodies = {1}
    MaxTime = 2
    MaxIncidents = 3
    MaxNotices = 2
    MaxRestarts = 1
INVARIANTS
    TypeOK
    CoolOffSpacing
    GateHasIncident
    OneOpenIncident
CHECK_DEADLOCK FALSE
