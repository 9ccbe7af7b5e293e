SPECIFICATION MasterSpec
CONSTANTS
  Processes = {"p1", "p2"}
  Ins = {1, 2}
  Sns = {"s1", "s2"}
  FirstRecords = {"s1", "uncoded", "absent"}
  MaxEvents = 3
PROPERTIES
  StaysMirrored
  SourceWins
