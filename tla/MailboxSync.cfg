\* Every wanted mail is found and taken, across crashes and a new UIDVALIDITY.
SPECIFICATION FairSpec
CONSTANTS
    MaxUid = 2
    Ages = {"same_day", "wanted"}
    MaxEpoch = 2
    InitialLimit = 1
    IncrementalLimit = 1
    MaxRetries = 2
    JobAttempts = 2
INVARIANTS
    NoGap
PROPERTIES
    NotSelectedAgain
    WantedMailTaken
CHECK_DEADLOCK FALSE
