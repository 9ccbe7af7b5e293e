\* By hand: two administrators dismiss the two operators that tasks fall to at the same time.
SPECIFICATION BoardSpec
CONSTANTS
  Miya = miya
  Demi = demi
  Others = {other}
  Admins = {admin}
  Nobody = nobody
INVARIANTS
  PairIsThere
CHECK_DEADLOCK FALSE
