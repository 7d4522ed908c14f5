SPECIFICATION Spec
CONSTANTS
  h1 = h1
  h2 = h2
  Digest <- MCDigest
  NoDigest = NoDigest
  Claims = {"PREREGISTERED", "RUNNING"}
  MaxEntries = 7
  MaxByHand = 4
INVARIANTS
  JournalReplays
  NoPreregistrationDrift
PROPERTIES
  LostPinNeverArms
  JournalAppendOnly
CHECK_DEADLOCK FALSE
