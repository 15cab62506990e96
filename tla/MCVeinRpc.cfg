SPECIFICATION FairSpec
CONSTANTS
  Peers = {"task", "qml"}
  QmlPeers = {"qml"}
  Calls = {"c1", "c2"}
  Caller <- MCCaller
  ProcOrder <- MCProcOrder
  Names <- MCNames
  Uses <- MCUses
  Matches <- MCMatches
  Threaded = {"threaded"}
  Async = {"async"}
  Simplified = {"simplified"}
  NoParams = {"threaded"}
  Missing = {"missing"}
  MaxChanges = 1
INVARIANTS TypeOK SuccessMeansRan RunsOnce PendingIsOwed
PROPERTIES FinishedOnce CallAnswered
CHECK_DEADLOCK FALSE
