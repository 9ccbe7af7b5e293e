\* The ticket moves while its RMA reply is being sent.
SPECIFICATION Spec
CONSTANTS
    only = only
    mailer = mailer
    Replies = {only}
    Workers = {mailer}
    NoReply = NoReply
    MaxAttempts = 2
    MaxFollowups = 1
    LeaseOutlivesAttempt = TRUE
PROPERTIES
    LegalPath
CHECK_DEADLOCK FALSE
