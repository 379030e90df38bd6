\* Three rows, two attempts each, the breaker opens after two failures;
\* history writes may fail, invalid rows are skipped or tried.
SPECIFICATION Spec
CONSTANTS
  N = 3
  MaxAttempts = 2
  Threshold = 2
  StoreOutcomes = {TRUE, FALSE}
INVARIANTS
  BreakerIsExact
  HistoryMatchesResults
  AnsweredRunsRecorded
  ConfirmedAttemptIsLast
  AbortStopsTraffic
PROPERTIES
  EveryRowAnswered
  ImplementsContract
