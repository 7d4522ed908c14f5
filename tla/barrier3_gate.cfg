SPECIFICATION Spec
CONSTANTS
  d1 = d1
  d2 = d2
  Dates <- MCDates
  DefaultDate = d1
  None = None
  Torn = Torn
  Foreign = Foreign
  Lost = Lost
  MaxCrashes = 0
  MaxDamage = 0
INVARIANTS
  FinishedPackagePassesGate
CHECK_DEADLOCK FALSE
