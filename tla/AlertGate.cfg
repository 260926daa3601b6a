SPECIFICATION Spec
CONSTANTS
    RuleCooldown = 2
    MaxBackoff = 30
    CoolOff = 10
INVARIANTS
    BoundedSilence
PROPERTIES
    Renotified
CHECK_DEADLOCK FALSE
