SPECIFICATION Spec
CONSTANTS
  Envs = {e1, e2, e3}
  Root = e1
  Pages = {p1, p2, p3, p4, p5, p6, p7, p8, p9}
  NData = 1
  Values = {0, 1}
  Zero = 0
  DupMayFail = FALSE
  Null = null
INVARIANTS
  WritableIsPrivate
  CanHandleFaults
PROPERTIES
  ForkCopiesMemory
SYMMETRY Symmetry
VIEW UpToPageNames
CHECK_DEADLOCK FALSE
