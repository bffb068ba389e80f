SPECIFICATION BoardFairSpec
CONSTANTS
  Ports <- Boundaries
  NoNumber = NoNumber
  Word = 65536
  MaxInt = 2000000
  Ephemeral = {32768, 60999}
  MaxJoins = 3
INVARIANTS
  FrameWasTrue
PROPERTIES
  ErrorEnds
  LeftDashboardServesOn
  DashboardCatchesUp
\* The process may end.
CHECK_DEADLOCK FALSE
