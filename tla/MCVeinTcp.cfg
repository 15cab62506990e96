CONSTANTS
  c1 = c1
  c2 = c2
  Clients = {c1, c2}
  Base = 2
  HeaderLen = 2
  Messages <- MCMessages
  NullArray = NullArray
  MaxSent <- MCMaxSent
SPECIFICATION FairSpec
INVARIANT TypeOK
PROPERTIES
  ImplementsChannel
  MessageArrives
  PeerFreed
CHECK_DEADLOCK FALSE
