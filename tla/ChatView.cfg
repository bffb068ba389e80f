SPECIFICATION ViewFairSpec
CONSTANTS
  MaxHeard = 3
  MaxOwn = 2
  Lines = 2
  Page = 3
INVARIANTS
  ViewSound
PROPERTIES
  CursorStays
  EveryMessageDrawn
\* The user may leave, or the behaviour be undefined.
CHECK_DEADLOCK FALSE
