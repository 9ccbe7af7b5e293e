\* Manual reconciliation of an uncertain RMA reply.
SPECIFICATION Spec
CONSTANTS
    only = only
    mailer = mailer
    Replies = {only}
    Workers = {mailer}
    NoReply = NoReply
    MaxAttempts = 2
    MaxFollowups = 1
    LeaseOutlivesAttempt = TRUE
INVARIANTS
    Reconcilable
CHECK_DEADLOCK FALSE
