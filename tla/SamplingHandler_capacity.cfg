\* More keys than the memory holds.
SPECIFICATION Spec
CONSTANTS
    Keys = {k1, k2, k3}
    Configs <- TwoKeys
    DefaultMaxKeys = 3
    MaxTime = 3
    MaxCalls = 5
SYMMETRY Symmetry
INVARIANT
    OncePerInterval
