\* A lost commit on the last attempt.
SPECIFICATION Spec
CONSTANTS
    only = only
    mailer = mailer
    Replies = {only}
    Workers = {mailer}
    NoReply = NoReply
    MaxAttempts = 2
    MaxFollowups = 1
    LeaseOutlivesAttempt = TRUE
INVARIANTS
    NothingStranded
CHECK_DEADLOCK FALSE
