SPECIFICATION Spec
CONSTANTS
  t1 = t1
  t2 = t2
  ann = ann
  root = root
  None = None
  Tab = {t1, t2}
  Account = {ann, root}
  Admin = {root}
  MaxCalls = 2
  MaxMishaps = 1
INVARIANTS
  OnlyOwnKind
  ShownIsSignedIn
PROPERTIES
  DeadSessionEnds
CHECK_DEADLOCK FALSE
