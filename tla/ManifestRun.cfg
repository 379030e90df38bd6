\* Two runs, one after the other or one over the other; four interactions.
SPECIFICATION Spec
CONSTANTS
  NoRow = NoRow
  MaxRuns = 2
  MaxClicks = 4
  Timeout = 2
INVARIANTS
  OutcomesAreTrue
  VerdictIsOfShownRun
PROPERTIES
  OutcomeIsFinal
  PollingEnds
