SPECIFICATION Spec
CONSTANTS
  admin = admin
  c1 = c1
  c2 = c2
  d1 = d1
  t1 = t1
  Worker = {admin, c1}
  Db = {d1}
  Table = {t1}
  NCols = 2
  Script <- Deleter
  MaxStatements <- Once
  MaxCrashes = 0
INVARIANTS
  NeverFreed
CHECK_DEADLOCK FALSE
