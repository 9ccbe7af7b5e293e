SPECIFICATION FairSpec
CONSTANTS
    w1 = w1
    r1 = r1
    NItems = 2
    Workers <- OneWorker
    RmaNos <- OneNumber
    NoRma = none
    BadRma = bad
    MaxExports = 1
    MaxVersion = 1
    MaxAttempts = 1
    Crashes = TRUE
    Others = FALSE
    Attended = FALSE
PROPERTY UncertainIsReconciled
CHECK_DEADLOCK FALSE
