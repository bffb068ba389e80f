SPECIFICATION Spec
CONSTANTS
  Conn <- Trio
  Script <- TwiceAndNothing
  MaxMsg = 2
  MaxTransfer = 2
  Quitters = {"cid"}
  Listeners = {}
  ClientOverlaps = TRUE
  AcceptErrors = TRUE
INVARIANTS
  NothingLostOrReordered
  TypeOK
  WireIntegrity
  DiesOnlyOfHalfWrittenFrame
  RegistryConsistent
PROPERTIES
  ImplementsRoom
\* Clients connect once and run out of script: then nothing is left to do.
CHECK_DEADLOCK FALSE
