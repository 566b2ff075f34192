\* Three keys for two entries, an invalid interval, a clock that may be set back.
SPECIFICATION Spec
CONSTANTS
    Goroutines = {g1, g2}
    Keys = {k1, k2, k3}
    Intervals = {0, 2}
    MaxKeys = 2
    MaxTime = 2
    MaxCalls = 6
    None = None
SYMMETRY Symmetry
INVARIANTS
    TypeOK
    Bounded
    SuppressedReported
    OncePerFirstInterval
