CONSTANTS
  e1 = e1
  c1 = c1
  c2 = c2
  v1 = v1
  v3 = v3
  get = get
  set = set
  Entities = {e1}
  RpcNames = {}
  Invalid = Invalid
  Absent = Absent
  NoPeer = NoPeer
  NoComponent = NoComponent
  Components = {c1, c2}
  ComponentOrder <- MCOrder
  Values = {v1, v2, v3}
  InitKeys <- MCInitKeys
  InitValue = v2
  ReadOnly = {}
  Peers = {p1}
  InitPeers = {}
  MaxOps = 3
  TaskPeer = p1
  Tasks = {get, set}
  Kind <- MCKind
  TaskKey <- MCTaskKey
  TaskValue <- MCTaskValue
  Unparsable <- MCUnparsable
SPECIFICATION TaskFairSpec
CHECK_DEADLOCK FALSE
INVARIANTS TaskTypeOK SetterTruthful
PROPERTIES FetchAnswered SubscriptionAnswered
