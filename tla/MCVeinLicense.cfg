CONSTANTS
  sys1 = sys1
  sys2 = sys2
  dev1 = dev1
  Systems = {sys1, sys2}
  Serials = {dev1, dev2}
  NoSerial = NoSerial
  AnySerial = AnySerial
  NoSystem = NoSystem
  NoFile = NoFile
  Files <- MCFiles
  LastMonth = 2
SPECIFICATION Spec
INVARIANT GrantsEarned
PROPERTY RefusedOnlyUncovered
