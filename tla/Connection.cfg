\* Two tabs, two connections of a user and one of a service principal.
SPECIFICATION Spec
CONSTANTS
  Tabs = {t1, t2}
  UserSettings = {u, v}
  AppSettings = {p}
  Secrets = {x}
  a = a
  b = b
  Tokens = {a, b}
  Length <- MCLength
  MaxChunks = 3
  MaxClicks = 5
  None = None
SYMMETRY TabSymmetry
INVARIANTS
  TokensComeBackWhole
  VerdictsAreCurrent
PROPERTIES
  ShownIsSaved
