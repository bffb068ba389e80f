SPECIFICATION FairSpec
CONSTANTS
  Conn <- Pair
  Script <- Talk
  MaxMsg = 2
  MaxTransfer = 2
  Quitters = {"bob"}
  Listeners = {"ana"}
  ClientOverlaps = FALSE
  AcceptErrors = TRUE
INVARIANTS
  ExactRelay
PROPERTIES
  NeverGivesUp
  Served
  GoneIsDropped
  WholeFrameIsRelayed
  ListenerHearsAll
\* Clients connect once and run out of script: then nothing is left to do.
CHECK_DEADLOCK FALSE
