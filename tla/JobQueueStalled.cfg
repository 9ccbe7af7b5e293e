\* The retry limit when an attempt may outlive its lease.
SPECIFICATION Spec
CONSTANTS
    mail1 = mail1
    mail2 = mail2
    api = api
    send = send
    fetch = fetch
    poll = poll
    Jobs = {send, fetch, poll}
    Workers = {mail1, mail2, api}
    NoWorker = NoWorker
    NoJob = NoJob
    Serves <- MCServes
    MaxAttempts <- MCMaxAttempts
    RetriesFailure = {send}
    Polls = {poll}
    Tracking = {fetch}
    Legacy = {fetch}
    MaxPolls = 1
    LeaseOutlivesAttempt = FALSE
INVARIANTS
    AttemptBudget
CHECK_DEADLOCK FALSE
