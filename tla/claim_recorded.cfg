SPECIFICATION Spec
CONSTANTS
  h1 = h1  h2 = h2  n1 = n1  n2 = n2  u1 = u1  u2 = u2  u3 = u3
  v1 = v1  v2 = v2  d1 = d1
  None = None
  Hashes = {h1}
  Names = {n1}
  Users = {v1, v2}
  Uploads = {u1}
  KindOf <- EachKind
  HashOf <- OneFile
  NameOf <- OneName
  UserOf <- TwoUsers
  Downloads = {}
  WantedBy <- WantFirst
  FaultBudget <- NoFault
  KindsAtOnce = 0
INVARIANT MovedIsRecorded
CHECK_DEADLOCK FALSE
