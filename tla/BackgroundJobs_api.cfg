\* Two panels, two loads; a button may be pressed long after it was drawn.
SPECIFICATION JobsSpec
CONSTANTS
  Sessions = {s1, s2}
  MaxJobs = 2
  Total = 2
INVARIANTS
  RunningStaysRegistered
  DoneMeansComplete
PROPERTIES
  JobsEnd
