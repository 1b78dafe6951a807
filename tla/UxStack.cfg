SPECIFICATION Spec
CONSTANTS
  NU = 2
  NX = 33
  Locals = {0, 1}
  Overrun = FALSE
  Values = {1, 2}
VIEW UpToDeadWords
INVARIANTS
  SuspendedIntact
PROPERTIES
  FaultsReturn
