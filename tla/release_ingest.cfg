CONSTANTS
  Scripts = {s1, s2}
  Experiments = {x1, x2}
  Evidence = {g1}
  Dates = {d1, d2}
  None = None
  Torn = Torn
  MaxCrashes = 1
SPECIFICATION Spec
SYMMETRY Symmetry
INVARIANTS RegisteredIsSealed
PROPERTIES SealedReleaseIsFinal EntriesStay
