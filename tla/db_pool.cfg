SPECIFICATION FairSpec
CONSTANTS
  c1 = c1  c2 = c2  c3 = c3  c4 = c4
  Calls = {c1, c2, c3}
  MaxOpenConns = 2
  MaxStatements = 2
  FindBudget = 2
  FaultBudget = 1
INVARIANTS TypeOK ConnectionsAccounted StatementsAccounted
PROPERTY CallsEnd
CHECK_DEADLOCK FALSE
