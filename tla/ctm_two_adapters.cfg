SPECIFICATION Spec
CONSTANTS
  h1 = h1
  h2 = h2
  a1 = a1
  a2 = a2
  Digest <- MCDigest
  Adapters <- MCAdapters
  NoDigest = NoDigest
  Torn = Torn
  MaxEntries = 2
PROPERTY
  OnlyThePinnedFollows
CHECK_DEADLOCK FALSE
