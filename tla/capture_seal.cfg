SPECIFICATION Spec
CONSTANTS
  t1 = t1
  t2 = t2
  Trials <- MCTrials
  FirstArm <- MCFirstArm
  Profiles <- MCProfiles
  Accepted <- MCAccepted
  None = None
  MaxHandlers = 2
  MaxFrames <- MCMaxFrames
  MaxTaken = 3
  MaxHasty = 0
  MaxReadings = 3
  MaxStagings = 2
PROPERTY
  SealedSessionIsFinal
