SPECIFICATION Spec
CONSTANTS
  f1 = f1  f2 = f2  u1 = u1  u2 = u2  c1 = c1  c2 = c2  c3 = c3
  NoId = NoId
  Files = {f1}
  Users = {u1}
  Clients = {c1}
  FileOf <- SameFile
  UserOf <- SameUser
  FileSize <- TwoChunks
  ChunkSize = 2
  PieceCount = 1
  FaultBudget <- CutAndExpiry
  KindsAtOnce = 2
  TakeTurns = TRUE
INVARIANT AllChunksUploaded
CHECK_DEADLOCK FALSE
