SPECIFICATION ConsoleSpec
CONSTANTS
  s1 = s1
  s2 = s2
  bad = bad
  i1 = i1
  h1 = h1
  h2 = h2
  None = None
  Sessions <- MCSessions
  Good <- MCGood
  Inferences <- MCInferences
  Handlers <- MCHandlers
INVARIANT
  OnlyGoodSessionsAreAnalysed
CHECK_DEADLOCK FALSE
