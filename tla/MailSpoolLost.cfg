\* Copies that are skipped for each other.
SPECIFICATION Spec
CONSTANTS
    c1 = c1
    c2 = c2
    c3 = c3
    k1 = k1
    k2 = k2
    Copies <- MCCopies
    Key <- MCKey
    NoKey = NoKey
    NoCopy = NoCopy
    MaxRetries = 2
    JobAttempts = 2
INVARIANTS
    MessageKept
CHECK_DEADLOCK FALSE
