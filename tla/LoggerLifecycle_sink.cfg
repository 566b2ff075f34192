\* Config.Sink with a buffer of its own, under a buffer that New adds.
SPECIFICATION Spec
CONSTANTS
    r1 = r1
    r2 = r2
    f1 = f1
    s1 = s1
    s2 = s2
    Records = {r1, r2}
    Flushes = {f1}
    Shutdowns = {s1, s2}
    Setups <- SinkSetups
    Size = 2
    Drainer = Drainer
    None = None
INVARIANT
    ShutdownDelivers
