CONSTANTS
  e1 = e1
  c1 = c1
  c2 = c2
  h1 = h1
  h2 = h2
  w1 = w1
  Entities = {e1}
  Components = {c1, c2}
  RpcNames = {}
  Values = {0, 1}
  Invalid = Invalid
  Absent = Absent
  Consumers = {h1, h2, w1}
  Writers = {w1}
  Watches <- MCWatches
  MaxObjects = 2
  Trigger = h1
  TriggerVal = 1
  Factor = 2
  MaxRecords = 4
  MaxTime = 1
SPECIFICATION RecorderSpec
INVARIANT AveragesSplitRecords
PROPERTY RecordsVein
CHECK_DEADLOCK FALSE
