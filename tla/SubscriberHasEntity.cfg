CONSTANTS
  e1 = e1
  c1 = c1
  Entities = {e1}
  RpcNames = {}
  Values = {v1, v2}
  Invalid = Invalid
  Absent = Absent
  InitKeys <- MCInitKeys
  InitValue = v1
  NoPeer = NoPeer
  NoComponent = NoComponent
  Components = {c1}
  ComponentOrder <- MCOneOrder
  ReadOnly = {}
  Peers = {p1, p2}
  InitPeers = {p1, p2}
  MaxOps = 3
SPECIFICATION Spec
INVARIANT SubscriberHasEntity
CHECK_DEADLOCK FALSE
