\* Four items, at most three in flight, recovery after two clean results.
\* The runner against the work pool, and its end.
SPECIFICATION Spec
CONSTANTS
  N = 4
  MaxConcurrency = 3
  MinConcurrency = 1
  RecoverAfter = 2
INVARIANTS
  CleanRunBeforeRecovery
  NothingForgotten
PROPERTIES
  OverloadAnsweredFirst
  ImplementsPool
  Terminates
