\* Graphs of buffers and fan-outs: Config.PipelineOverride, Sink and Writer.
SPECIFICATION FairSpec
CONSTANTS
    r1 = r1
    r2 = r2
    f1 = f1
    s1 = s1
    s2 = s2
    Records = {r1, r2}
    Flushes = {f1}
    Shutdowns = {s1, s2}
    Setups <- PassSetups
    Size = 1
    Drainer = Drainer
    None = None
INVARIANTS
    TypeOK
    ShutdownDeliversUnlessOvertaken
    FlushDelivers
    EveryRecordAccounted
PROPERTIES
    DoneIsFinal
    CallsEnd
