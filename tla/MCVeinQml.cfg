CONSTANTS
  e0 = e0
  e1 = e1
  c1 = c1
  Entities = {e0}
  Components = {c1}
  ComponentOrder <- MCOrder
  RpcNames = {}
  Values = {v1, empty}
  Invalid = Invalid
  Absent = Absent
  ReadOnly = {}
  InitKeys <- MCInitKeys
  InitValue = v1
  Peers = {p1, p2}
  InitPeers = {p1, p2}
  NoPeer = NoPeer
  NoComponent = NoComponent
  MaxOps = 4
  QmlPeer = p1
  SessionKey <- MCSessionKey
  EmptySession = empty
SPECIFICATION QmlSpec
CHECK_DEADLOCK FALSE
INVARIANTS
  QmlTypeOK
  ReplicaConverges
  StorageFollowsModules
  NoSneakingSubscription
  ResolvedIsHeld
  SubscribedHasMap
