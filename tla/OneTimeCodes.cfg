SPECIFICATION CodesSpec
CONSTANTS
    OtpRequests = {r1, r2}
    MaxFailedAttempts = 1
    MaxOtps = 3
    Owners = {o1, o2}
    Macs = {m1}
    RegRequests = {r1, r2}
    MaxCodes = 2
    MaxDevices = 2
    MaxRegAborts = 1
    GoogleUsers = {g1, g2}
    NoGoogle = NoGoogle
    Emails = {e1, e2}
    GRequests = {r1, r2}
    MaxAccounts = 2
    MaxHandoffs = 1
INVARIANTS CodesTypeOK GuessesBounded UsesBounded UsableBounded
           TokensForOwner RegistrationsBounded SessionOfGoogleUser HandoffOnce
SYMMETRY CodesSymmetry
CHECK_DEADLOCK FALSE
