SPECIFICATION FairSpec
CONSTANTS
  f1 = f1  f2 = f2  u1 = u1  u2 = u2  c1 = c1  c2 = c2  c3 = c3
  NoId = NoId
  Files = {f1, f2}
  Users = {u1, u2}
  Clients = {c1, c2, c3}
  FileOf <- TwoFiles
  UserOf <- TwoUsers
  FileSize <- TwoAndNone
  ChunkSize = 2
  PieceCount = 2
  FaultBudget <- AllFaults
  KindsAtOnce = 2
  TakeTurns = TRUE
INVARIANTS SessionOwnsOneFile ListedChunksAreWhole RegisteredIsWhole
PROPERTIES KeepsPromise ResumeSucceeds
CHECK_DEADLOCK FALSE
