\* A sent reply and an operator's rejection.
SPECIFICATION Spec
CONSTANTS
    only = only
    mailer = mailer
    Replies = {only}
    Workers = {mailer}
    NoReply = NoReply
    MaxAttempts = 2
    MaxFollowups = 1
    LeaseOutlivesAttempt = TRUE
PROPERTIES
    SentIsImmutable
CHECK_DEADLOCK FALSE
