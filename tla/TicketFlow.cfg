\* One ticket, every parse, every resolution; at most three open tasks at a time.
SPECIFICATION Spec
CONSTANTS
  Relay = {TRUE, FALSE}
  MaxOpen = 3
INVARIANTS
  AlertWhileError
PROPERTIES
  LeavesReviewClear
  ReadyOnEvidence
  ClosedAfterDelivery
CHECK_DEADLOCK FALSE
