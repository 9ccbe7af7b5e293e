CONSTANTS
  Mails = {m1, m2}
  Procs = {p1, p2}
  MaxFaults = 2
SPECIFICATION DeletionSpec
INVARIANT KeptIsThere
PROPERTY OrderIsCarriedOut
CHECK_DEADLOCK FALSE
