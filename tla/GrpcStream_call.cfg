\* Two messages of the server and one of the client, streaming and single responses,
\* a handler that ends in any way, and a context that may end at any time.
SPECIFICATION FairCallSpec
CONSTANT
    MaxMessages = 2
    MaxSends = 1
INVARIANTS
    CallTypeOK
    LoggedBeforeTold
    LinesAgree
PROPERTY
    StreamEnds
