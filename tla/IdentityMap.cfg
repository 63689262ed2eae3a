SPECIFICATION Spec
CONSTANTS
    N <- MCN
    Configs <- MCConfigs
CHECK_DEADLOCK FALSE
INVARIANTS
    IdentityMap
