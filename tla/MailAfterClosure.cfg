SPECIFICATION Spec
CONSTANTS
  Mails = {1, 2}
  Answers <- MCAnswers
  Copies = {"a", "b", "c"}
  MailOf <- MCMailOf
  Retries = 1
  Fallback = TRUE
  MaxAttempts = 2
  MaxTickets = 2
  MaxRequests = 1
PROPERTY NewTicketAfterClosure
CHECK_DEADLOCK FALSE
