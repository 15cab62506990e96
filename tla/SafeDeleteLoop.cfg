CONSTANTS
  Items = {i1, i2, i3, i4}
  NoItem = NoItem
  RehashAt = {3}
SPECIFICATION Spec
INVARIANTS
  TypeOK
  CalledExactlyOnce
  HoldsWhatIsWanted
PROPERTY RemovedNotCalled
