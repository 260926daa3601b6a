SPECIFICATION DocumentsSpec
CONSTANTS
    Flows = {f1}
    Devices = {d1, d2, d3}
    FlowRequests = {r1, r2}
    FlowMessages = {g1, g2}
    MaxRevisions = 2
    NoFlow = NoFlow
    Nodes = {n1, n2}
    Modules = {m1, m2}
    Keys = {"analog", "digital"}
    RuleIds = {1, 2, 3}
    RuleRequests = {r1, r2}
    RequiredKey = "analog"
    MaxAdmin = 1
    NoModule = NoModule
INVARIANTS
    LinksBounded
PROPERTIES
    AloneIsWhole
    LinkAloneIsExclusive
    EditAloneCoversNodes
    AloneRespectsPolicy
SYMMETRY DocumentSymmetry
CHECK_DEADLOCK FALSE
