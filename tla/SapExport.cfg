SPECIFICATION Spec
CONSTANTS
    w1 = w1
    r1 = r1
    NItems = 2
    Workers <- OneWorker
    RmaNos <- OneNumber
    NoRma = none
    BadRma = bad
    MaxExports = 1
    MaxVersion = 3
    MaxAttempts = 2
    Crashes = TRUE
    Others = TRUE
    Attended = TRUE
INVARIANTS
    OneRequestPerItem
    AcceptedIsThere
    CompleteBeforeMail
CHECK_DEADLOCK FALSE
