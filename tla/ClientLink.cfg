SPECIFICATION FairSpec
CONSTANTS
  Heard <- TextOddBad
  Texts <- TwoGoodOneLong
  MaxMsg = 1
  MaxTransfer = 2
INVARIANTS
  OrderKept
  WireIsMessages
PROPERTIES
  LostEndsThread
  HeardIsShown
  ImplementsClient
\* Whatever was to be done is done, or the process is over.
CHECK_DEADLOCK FALSE
