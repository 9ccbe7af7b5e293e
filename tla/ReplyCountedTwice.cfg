\* One follow-up, settled by an operator while its worker still has to write its result.
SPECIFICATION Spec
CONSTANTS
    only = only
    mailer = mailer
    Replies = {only}
    Workers = {mailer}
    NoReply = NoReply
    MaxAttempts = 2
    MaxFollowups = 2
    LeaseOutlivesAttempt = TRUE
INVARIANTS
    CountedOnce
CHECK_DEADLOCK FALSE
