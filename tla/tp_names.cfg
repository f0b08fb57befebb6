SPECIFICATION Spec
CONSTANTS
  h1 = h1  h2 = h2  n1 = n1  n2 = n2  u1 = u1  u2 = u2  u3 = u3
  v1 = v1  v2 = v2  d1 = d1
  None = None
  Hashes = {h1, h2}
  Names = {n1}
  Users = {v1, v2}
  Uploads = {u1, u2, u3}
  KindOf <- PlainPlainMulti
  HashOf <- OtherFile
  NameOf <- OneName
  UserOf <- TwoUsers
  Downloads = {d1}
  WantedBy <- WantFirst
  FaultBudget <- AllFaults
  KindsAtOnce = 2
INVARIANTS ObjectsHeal DownloadsAreWhole
PROPERTY RowsStayMoved
CHECK_DEADLOCK FALSE
