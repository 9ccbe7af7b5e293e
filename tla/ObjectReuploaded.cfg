CONSTANTS
  Mails = {m1, m2}
  Procs = {p1}
  MaxFaults = 1
SPECIFICATION DeletionSpec
INVARIANT ReuploadedStays
CHECK_DEADLOCK FALSE
