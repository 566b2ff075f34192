\* A sender that meets the end of a call that failed.
SPECIFICATION Spec
CONSTANT
    MaxMessages = 1
    MaxSends = 1
INVARIANT
    OKIsCleanEnd
