SPECIFICATION FairSpec
CONSTANTS
  r1 = r1  r2 = r2
  NoChannel = NoChannel
  NoTask = NoTask
  Requests = {r1, r2}
  FaultBudget <- AllFaults
  KindsAtOnce = 2
INVARIANTS TypeOK PublishedIsKept DownOnlyByFault
PROPERTIES TasksTaken RequestsEnd
CHECK_DEADLOCK FALSE
