\* The data of a ticket whose RMA was sent.
SPECIFICATION Spec
CONSTANTS
  Relay = {TRUE}
  MaxOpen = 2
PROPERTIES
  SentDataFixed
CHECK_DEADLOCK FALSE
