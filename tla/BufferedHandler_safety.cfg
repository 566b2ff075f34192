\* Two Handle calls, two Flush calls and a Shutdown over a queue of one, whose
\* size is given as 0 and clamped.
SPECIFICATION Spec
CONSTANTS
    Records = {r1, r2}
    Flushes = {f1, f2}
    Shutdowns = {s1}
    Deadlines = {f1, f2, s1}
    Size = 0
    Worker = Worker
    None = None
SYMMETRY Symmetry

INVARIANTS
    TypeOK
    NothingLostOrReordered
    DrainIsFinal
    FlushPromise
    ShutdownPromise
    BarrierNeverAbandoned
    FirstErrorTold
PROPERTIES
    ImplementsAsyncDelivery
