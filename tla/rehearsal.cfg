SPECIFICATION Spec
CONSTANTS
  d1 = d1
  d2 = d2
  Dates <- MCDates
  DefaultDate = d1
  None = None
  Torn = Torn
  Foreign = Foreign
  Lost = Lost
  MaxCrashes = 2
  MaxDamage = 1
INVARIANTS
  OneLineage
  CrashesAreHarmless
PROPERTIES
  ScienceIsWrittenOnce
  RefinesStagedRun
  RetriesComplete
CHECK_DEADLOCK FALSE
