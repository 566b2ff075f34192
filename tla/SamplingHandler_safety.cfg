\* Every kind of configuration, four keys, a clock that may be set back.
SPECIFICATION Spec
CONSTANTS
    Keys = {k1, k2, k3, k4}
    Configs <- AllConfigs
    DefaultMaxKeys = 3
    MaxTime = 3
    MaxCalls = 6
SYMMETRY Symmetry
INVARIANTS
    TypeOK
    Bounded
    SilencedForAnInterval
    ForgetsInvisibly
