SPECIFICATION Spec
CONSTANTS
    r1 = r1
    r2 = r2
    d1 = d1
    d2 = d2
    f1 = f1
    f2 = f2
    Rules = {r1}
    GasRules = {}
    Devices = {d1}
    Firers = {f1, f2}
    Resolvers = {}
    Handlers = {}
    RuleCooldown = 1
    MaxBackoff = 2
    CoolOff = 1
    Delivered = {}
    Bodies = {}
    MaxTime = 0
    MaxIncidents = 2
    MaxNotices = 2
    MaxRestarts = 0
INVARIANTS
    OneOpenIncident
CHECK_DEADLOCK FALSE
