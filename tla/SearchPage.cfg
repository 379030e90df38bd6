\* Two kinds, one text, up to three pages within the ceiling; four interactions.
SPECIFICATION Spec
CONSTANTS
  k1 = k1
  k2 = k2
  Kinds = {k1, k2}
  spud = spud
  Texts = {spud}
  NoText = NoText
  Garbled = Garbled
  Hits <- MCHits
  Malformed = {2}
  PageSize = 2
  Ceiling = 4
  MaxClauses = 1
  MaxClicks = 4
SYMMETRY KindSymmetry
INVARIANTS
  PageIsOneAnswer
  ExportsAreWhole
  FirstLoadIsAccountedFor
