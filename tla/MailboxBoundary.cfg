\* Mails from before the time boundary.
SPECIFICATION Spec
CONSTANTS
    MaxUid = 2
    Ages = {"earlier", "same_day", "wanted"}
    MaxEpoch = 2
    InitialLimit = 1
    IncrementalLimit = 1
    MaxRetries = 2
    JobAttempts = 2
PROPERTIES
    BoundaryRespected
CHECK_DEADLOCK FALSE
