\* Sixteen scenarios: pinned and renamed keys, rules, fan-out with global fields,
\* and two goroutines that use the process-wide logger.
SPECIFICATION Spec
CONSTANTS
    Goroutines = {g1, g2}
    LazyDefault = 2
    Ensured = 3
    None = None
    Attributes <- MCAttributes
    Scenarios <- MCScenarios
    Spare = 1
INVARIANTS
    TypeOK
    SiblingsIsolated
    ExplicitWins
    LastValueFirstPlace
    MatchedIsHidden
    ChildrenIndependent
    GlobalFieldsKept
CHECK_DEADLOCK FALSE
