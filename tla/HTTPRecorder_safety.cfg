\* Every order of up to four calls: an invalid, an informational and three
\* final statuses, an empty and a non-empty body.
SPECIFICATION Spec
CONSTANTS
    Statuses = {99, 103, 200, 404, 503}
    Chunks = {0, 1}
    MaxCalls = 4
INVARIANTS
    TypeOK
    NeverAltersUnlessSlipped
    OneTrueLine
