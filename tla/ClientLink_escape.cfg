SPECIFICATION Spec
CONSTANTS
  Heard <- OneTextOneAlien
  Texts <- TwoShort
  MaxMsg = 2
  MaxTransfer = 2
PROPERTIES
  EscapeQuits
\* Whatever was to be done is done, or the process is over.
CHECK_DEADLOCK FALSE
