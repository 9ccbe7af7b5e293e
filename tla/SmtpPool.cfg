SPECIFICATION Spec
CONSTANTS
  Threads = {t1, t2, t3}
  Size = 2
  PerConnection = 2
  MaxAge = 2
  MaxIdle = 1
  Limit = 1
  Minute = 2
  To = {"a"}
  Cc = {"c"}
  MaxMails = 4
INVARIANTS
  WithinRate
  ResultsAreTrue
PROPERTY EverySendEnds
CHECK_DEADLOCK FALSE
