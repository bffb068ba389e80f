SPECIFICATION Spec
CONSTANTS
  Keyring <- AllKeys
  KeyOf <- KeyFacts
  NoKey = "null"
  Word = 16
  MaxSel = 3
  MaxSaid = 1
INVARIANTS
  AcceptedIsCorrect
\* The user may quit.
CHECK_DEADLOCK FALSE
