\* Two operators whom tasks fall to, another one, an administrator, and one overtaken request.
SPECIFICATION BoardSpec
CONSTANTS
  Miya = miya
  Demi = demi
  Others = {other}
  Admins = {admin}
  Nobody = nobody
INVARIANTS
  SomebodyIsThere
  OwnerIsTold
PROPERTIES
  RepairRestores
