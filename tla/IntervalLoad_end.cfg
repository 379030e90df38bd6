\* Two jobs at a time: every job ends, and each uses its pool as it may.
SPECIFICATION Spec
CONSTANTS
  Jobs = {j1, j2}
  Manifests = {m1, m2}
  Width = 2
  SaveEvery = 2
  Exclusive = FALSE
  Unanswered = FALSE
  Crashes = 0
PROPERTIES
  JobsEnd
  UsesPool
