CONSTANTS
  s1 = s1
  s2 = s2
  s2Displayed = s2Displayed
  unknown = unknown
  Sessions = {s1, s2}
  Names <- MCNames
  JsonName <- MCJsonName
  NoSession = NoSession
  XSessions = {x1, x2}
  XNames = {x1, x2, x3}
  InitX = x1
  Invalid = Invalid
  DevMode = FALSE
  Failures = {"write", "commit", "restart"}
  MaxRequests = 3
SPECIFICATION FairSpec
INVARIANTS
  TypeOK
  SessionSettles
PROPERTIES
  SessionLeftFirst
  OneSessionAtATime
  SessionShown
CHECK_DEADLOCK FALSE
