SPECIFICATION Spec
CONSTANTS
  u1 = u1  p1 = p1  p2 = p2  b1 = b1  b2 = b2
  r1 = r1  r2 = r2  r3 = r3  r4 = r4
  NoRow = NoRow
  Users = {u1}
  Passwords = {p1, p2}
  Browsers = {b1, b2}
  Requests = {r1, r2, r3, r4}
  TTL = 1
  MaxClock = 2
  FaultBudget <- AllFaults
  KindsAtOnce = 2
SYMMETRY Swaps
INVARIANTS TypeOK SignupIsTrue TokenNeedsPassword LastSigninStands RefusedForCause InfoHasRow
CHECK_DEADLOCK FALSE
