SPECIFICATION Spec
CONSTANTS
  Keyring <- AllKeys
  KeyOf <- KeyFacts
  NoKey = "null"
  Word = 16
  MaxSel = 3
  MaxSaid = 1
INVARIANTS
  MenusSound
  ChatOnlyChecked
  ErrorLeadsBack
  PassphraseVerified
PROPERTIES
  NoWayBack
\* The user may quit.
CHECK_DEADLOCK FALSE
