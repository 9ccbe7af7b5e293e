\* Queue safety, refinement and liveness while no attempt outlives its lease.
SPECIFICATION FairSpec
CONSTANTS
    mail1 = mail1
    mail2 = mail2
    api = api
    send = send
    fetch = fetch
    poll = poll
    Jobs = {send, fetch, poll}
    Workers = {mail1, mail2, api}
    NoWorker = NoWorker
    NoJob = NoJob
    Serves <- MCServes
    MaxAttempts <- MCMaxAttempts
    RetriesFailure = {send}
    Polls = {poll}
    Tracking = {fetch}
    Legacy = {fetch}
    MaxPolls = 1
    LeaseOutlivesAttempt = TRUE
INVARIANTS
    HolderOwnsRow
    AttemptBudget
PROPERTIES
    FinishedIsFinal
    EveryJobEnds
    ImplementsLifecycle
CHECK_DEADLOCK FALSE
