\* A short queue, a long one and one over the cap.
SPECIFICATION Spec
CONSTANTS
  Lengths = {1, 2, 4}
  MaxQueue = 3
INVARIANTS
  ClickIsHonoured
