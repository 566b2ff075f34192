\* A handler that uses final statuses only, and copies from a reader that
\* has nothing or fails at once.
SPECIFICATION Spec
CONSTANTS
    Statuses = {200, 404, 500}
    Chunks = {0, 1}
    MaxCalls = 2
INVARIANT
    NeverAlters
