\* Two tiers, two runs; the operator interacts three times, a file changes twice.
SPECIFICATION Spec
CONSTANTS
  refdata = refdata
  other = other
  Tiers = {refdata, other}
  NoTier = NoTier
  NoRow = NoRow
  Size = 2
  TierOf <- MCTierOf
  Refs <- MCRefs
  Unstable = {2}
  MaxRuns = 2
  MaxClicks = 3
  MaxEdits = 2
INVARIANTS
  RunsAreRecorded
  LinksAgree
  StatusesAreTrue
  LoadsAreWhole
