SPECIFICATION Spec
CONSTANTS
    RuleCooldown = 2
    MaxBackoff = 30
    CoolOff = 10
PROPERTIES
    ImmediateAfterCoolOff
CHECK_DEADLOCK FALSE
