SPECIFICATION FairSpec
CONSTANTS
    w1 = w1
    r1 = r1
    NItems = 1
    Workers <- OneWorker
    RmaNos <- OneNumber
    NoRma = none
    BadRma = bad
    MaxExports = 2
    MaxVersion = 6
    MaxAttempts = 1
    Crashes = FALSE
    Others = TRUE
    Attended = FALSE
PROPERTY OthersAreRead
CHECK_DEADLOCK FALSE
