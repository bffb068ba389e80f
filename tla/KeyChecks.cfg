SPECIFICATION MCSpec
CONSTANTS
  Keys <- SmallKeys
  Byte = 4
  MAX_MSG = 100
  IntMax = 31
  Kilo = 4
  MaxNumber = 7300
INVARIANTS
  ChecksAreRight
  MetricsAreRight
  SizesSurvive
CHECK_DEADLOCK FALSE
