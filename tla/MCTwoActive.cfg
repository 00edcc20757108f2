SPECIFICATION Spec
CONSTANTS
  NoCreate = NoCreate
  c1 = c1
  c2 = c2
  c3 = c3
  k1 = k1
  Creates = {c1, c2, c3}
  Closers = {k1}
  LambdaTimeout = 2
  StaleAfter = 4
  MaxFailures = 0
  MaxLosses = 0
  ClosersWait = FALSE
INVARIANTS
  AtMostOneActive
