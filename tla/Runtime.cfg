SPECIFICATION RuntimeSpec
CONSTANTS
    Thresholds = {0, 10}
    Readings <- MCReadings
    OperatorLists <- MCOperatorLists
    NoNumber = NoNumber
    Users = {u1, u2}
    Phones = {p1, p2}
    Tokens = {t1, t2}
    TargetRequests = {r1, r2}
    NoToken = NoToken
    PrefRequests = {q1, q2}
    PrefReadings = {m1}
    GraphNodes = {1, 2, 3, 4}
    Ids = {1, 2, 3, 4}
    Catalogue <- MCCatalogue
    MaxEdges = 3
    MaxPaths = 2
    MaxSteps = 4
    MaxFunctions = 1
    SentNumbers <- MCSentNumbers
    MaxFields = 2
    BridgeFlows = {"f1", "f2"}
    BridgeDevices = {"d1", "d2"}
    BridgeUsers = {"u1", "u2"}
    OwnerOf <- MCOwnerOf
    Sensors = {"s1", "n1"}
    Channels = {"c1", "n1"}
    Unlinked = "none"
    Programs <- MCPrograms
    MaxTasks = 2
    MaxHops = 2
INVARIANTS
    ProgramIsAllPaths
    OneDriver
    ValueSurvives
    ForwardOnce
    AcceptedPolicyMakesRule
    OptedOutIsSilent
PROPERTIES
    AloneRegistrationTakes
SYMMETRY RuntimeSymmetry
CHECK_DEADLOCK FALSE
