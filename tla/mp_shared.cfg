SPECIFICATION Spec
CONSTANTS
  f1 = f1  f2 = f2  u1 = u1  u2 = u2  c1 = c1  c2 = c2  c3 = c3
  NoId = NoId
  Files = {f1}
  Users = {u1, u2}
  Clients = {c1, c2}
  FileOf <- SameFile
  UserOf <- TwoUsers
  FileSize <- TwoChunks
  ChunkSize = 2
  PieceCount = 2
  FaultBudget <- AllFaults
  KindsAtOnce = 1
  TakeTurns = FALSE
INVARIANTS TypeOK ChunkIntegrity MergeSeesAllChunks RegisteredIsPublished MarkedIsStored
PROPERTY DiscardOnlyRegistered
CHECK_DEADLOCK FALSE
