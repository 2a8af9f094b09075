SPECIFICATION Spec
CONSTANTS
  admin = admin
  c1 = c1
  c2 = c2
  d1 = d1
  t1 = t1
  Worker = {admin, c1, c2}
  Db = {d1}
  Table = {t1}
  NCols = 2
  Script <- Anyone
  MaxStatements <- Once
  MaxCrashes = 1
INVARIANTS
  AckedRowsPersist
PROPERTIES
  StatementsEnd
CHECK_DEADLOCK FALSE
