SPECIFICATION Spec
CONSTANTS
  t1 = t1
  t2 = t2
  t3 = t3
  p1 = p1
  p2 = p2
  Trials <- MCTrials
  Ingests <- MCIngests
  NoTrial = NoTrial
  Torn = Torn
  MinValid = 2
  MaxValid = 3
  RequireBelowHalf = TRUE
  MaxLines = 3
INVARIANTS
  StoreLoadable
  StopDecisionIsEarned
PROPERTIES
  BrokenStoreIsFrozen
  RefinesTrialLog
CHECK_DEADLOCK FALSE
