SPECIFICATION Spec
CONSTANTS
  x1 = x1
  x2 = x2
  m1 = m1
  m2 = m2
  c1 = c1
  e1 = e1
  e2 = e2
  e3 = e3
  e4 = e4
  None = None
  Experiments <- MCExperiments
  Machines <- MCMachines
  Cohorts <- MCCohorts
  EventNames <- MCEventNames
  ExperimentOf <- MCExperimentOf
  MaxRecords = 4
  MaxNotes = 2
  MaxDepth = 2
SYMMETRY Symmetry
INVARIANTS
  LedgerVerifies
  LedgerReplaysMachines
  SealsAreLedgered
PROPERTY
  RefinesAtomicSealing
CHECK_DEADLOCK FALSE
