\* Three copies of a message, two of which share an object.
SPECIFICATION Spec
CONSTANTS
    c1 = c1
    c2 = c2
    c3 = c3
    k1 = k1
    k2 = k2
    Copies <- MCCopies
    Key <- MCKey
    NoKey = NoKey
    NoCopy = NoCopy
    MaxRetries = 2
    JobAttempts = 2
INVARIANTS
    IngestedOnce
    RowsReferredTo
    SkippedForAnother
CHECK_DEADLOCK FALSE
