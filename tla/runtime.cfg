SPECIFICATION Spec
CONSTANTS
  r1 = r1
  r2 = r2
  NoRun = NoRun
  Runs <- MCRuns
  MaxFaults = 2
  MaxCrashes = 2
INVARIANTS
  SettledRunsAgree
  FinalMeansNoLiveJob
PROPERTIES
  FinalStatusNeverImproves
  LaunchedRunsGetGoing
  EndedJobsSettle
CHECK_DEADLOCK FALSE
