\* Two presses, one after the other; aborts, failures and a crash.
SPECIFICATION Spec
CONSTANTS
  Jobs = {j1, j2}
  Manifests = {m1, m2, m3}
  Width = 1
  SaveEvery = 2
  Exclusive = TRUE
  Unanswered = TRUE
  Crashes = 1
SYMMETRY Symmetry
INVARIANTS
  MarkedMeansMinted
  ExposureBounded
  DuplicatesHaveACause
PROPERTIES
  SavedNeverResent
