\* Three manifests, two loads; batches of one, of two and of more than the service takes.
SPECIFICATION RecordsSpec
CONSTANTS
  NumFiles = 3
  Count <- MCCount
  BatchSizes = {1, 2, 3}
  MaxPerCall = 2
  MaxLoads = 2
  MaxTouches = 2
INVARIANTS
  SuccessIsStored
  EveryRecordAnswered
  BatchesAreBounded
