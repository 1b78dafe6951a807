SPECIFICATION Spec
CONSTANTS
  CPU = {c1, c2}
  Env = {e1, e2}
  Frame = {f1, f2}
  NUser = 2
  DIRPAGES = 1
  PGSIZE = 2
  PaddedText = TRUE
  NoEnv = NoEnv
SYMMETRY Interchangeable
INVARIANTS
  TlbCoherent
  TablesInUse
  CheckIsExact
CHECK_DEADLOCK FALSE
