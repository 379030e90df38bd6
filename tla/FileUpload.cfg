\* Three uploads, seven interactions.
SPECIFICATION Spec
CONSTANTS
  MaxUploads = 3
  MaxClicks = 7
INVARIANTS
  ListedIsStored
PROPERTIES
  OrphansAreNamed
