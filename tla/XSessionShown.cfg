CONSTANTS
  s1 = s1
  s2 = s2
  s2Displayed = s2Displayed
  unknown = unknown
  Sessions = {s1, s2}
  Names <- MCNames
  JsonName <- MCJsonName
  NoSession = NoSession
  XSessions = {x1, x2}
  XNames = {x1, x2}
  InitX = x1
  Invalid = Invalid
  DevMode = FALSE
  Failures = {}
  MaxRequests = 2
SPECIFICATION Spec
INVARIANT XSessionShown
CHECK_DEADLOCK FALSE
