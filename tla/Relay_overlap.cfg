SPECIFICATION Spec
CONSTANTS
  Conn <- Pair
  Script <- Talk
  MaxMsg = 2
  MaxTransfer = 2
  Quitters = {}
  Listeners = {}
  ClientOverlaps = FALSE
  AcceptErrors = FALSE
INVARIANTS
  NoConcurrentWrites
\* Clients connect once and run out of script: then nothing is left to do.
CHECK_DEADLOCK FALSE
