\* One reply, an RMA reply or a follow-up: delivery, ledger, closing, counting.
SPECIFICATION FairSpec
CONSTANTS
    only = only
    mailer = mailer
    Replies = {only}
    Workers = {mailer}
    NoReply = NoReply
    MaxAttempts = 2
    MaxFollowups = 1
    LeaseOutlivesAttempt = TRUE
INVARIANTS
    SendsOnce
    LedgerIsTrue
    ClosedOnEvidence
    FollowupsCounted
    SpecialHeldBack
PROPERTIES
    ClosedIsFinal
    KeepsPromise
    SendingSettles
CHECK_DEADLOCK FALSE
