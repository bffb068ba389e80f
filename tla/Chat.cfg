SPECIFICATION ChatFairSpec
CONSTANTS
  ana = ana
  bob = bob
  cid = cid
  Conn <- Trio
  Payload <- Numbers
  Recipients <- Picked
  MaxSaid = 2
  Leavers = {bob, cid}
INVARIANTS
  ListsSound
  CausalOrder
PROPERTIES
  RecipientsRead
CHECK_DEADLOCK FALSE
