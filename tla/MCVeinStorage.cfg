CONSTANTS
  e1 = e1
  c1 = c1
  c2 = c2
  h1 = h1
  h2 = h2
  Entities = {e1}
  Components = {c1, c2}
  RpcNames = {r1}
  Values = {v1}
  Invalid = Invalid
  Absent = Absent
  Consumers = {h1, h2}
  Watches <- MCWatches
  MaxObjects = 4
SPECIFICATION Spec
INVARIANTS
  TypeOK
  FuturesKept
  ObjectsApart
  ConsumerUpToDate
PROPERTIES
  DetachedOnlyByRemove
  ImplementsDatabase
