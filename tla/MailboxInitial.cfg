\* The first synchronisation of a folder that holds more than one batch.
SPECIFICATION FairSpec
CONSTANTS
    MaxUid = 2
    Ages = {"same_day", "wanted"}
    MaxEpoch = 2
    InitialLimit = 1
    IncrementalLimit = 1
    MaxRetries = 2
    JobAttempts = 2
PROPERTIES
    InitialSyncCompletes
CHECK_DEADLOCK FALSE
