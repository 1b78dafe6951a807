SPECIFICATION LiveSpec
CONSTANTS
  NCPU = 2
  NENV = 3
  MaxGen = 1
  Calls = {"yield", "exofork", "set_status", "try_send", "recv"}
  Discipline = {"start_once", "destroy_once"}
INVARIANT
  MonitorOnlyWhenIdle
PROPERTIES
  RunnableRuns
  LockIsReleased
