\* Liveness (no symmetry) over a queue of one. A handler below that never returns,
\* the queue full, a Flush that waits for room in it under the read lock, a Shutdown
\* that waits for the lock and a third Handle that arrives then are among its behaviours.
SPECIFICATION OrderedSpec
CONSTANTS
    Records = {r1, r2, r3}
    r1 = r1
    r2 = r2
    r3 = r3
    Flushes = {f1}
    Shutdowns = {s1}
    Deadlines = {f1, s1}
    Size = 1
    Worker = Worker
    None = None
PROPERTIES
    ContextHonoured
    AcceptedDelivered
    WaitersReturn
    HandleReturns
