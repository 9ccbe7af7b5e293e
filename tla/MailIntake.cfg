SPECIFICATION Spec
CONSTANTS
  Mails = {1, 2}
  Answers <- MCAnswers
  Copies = {"a", "b", "c"}
  MailOf <- MCMailOf
  Retries = 1
  Fallback = TRUE
  MaxAttempts = 2
  MaxTickets = 2
  MaxRequests = 1
INVARIANT OnlyWhenSure
PROPERTY MailSettles
CHECK_DEADLOCK FALSE
