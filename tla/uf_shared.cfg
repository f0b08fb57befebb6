SPECIFICATION Spec
CONSTANTS
  f1 = f1  f2 = f2  v1 = v1  v2 = v2  a = a  b = b
  r1 = r1  r2 = r2  r3 = r3  r4 = r4
  NoRow = NoRow
  Files = {f1}
  Users = {v1, v2}
  Names = {a, b}
  Requests = {r1, r2, r3, r4}
  UserOf <- TwoUsers
  FaultBudget <- AllFaults
SYMMETRY Swaps
INVARIANTS TypeOK NamesAreOwn
PROPERTIES BinLeftByRecover AnswersAreTrue
CHECK_DEADLOCK FALSE
