SPECIFICATION FairSpec
CONSTANTS
  r1 = r1  r2 = r2
  NoChannel = NoChannel
  NoTask = NoTask
  Requests = {r1, r2}
  FaultBudget <- OneCut
  KindsAtOnce = 2
PROPERTY Reconnects
CHECK_DEADLOCK FALSE
