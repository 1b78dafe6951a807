SPECIFICATION Spec
CONSTANTS
  NCPU = 3
  NENV = 2
  MaxGen = 2
  Calls = {"yield", "exofork", "set_status", "set_status_self",
           "destroy", "exit", "try_send", "recv", "brkpt"}
  Discipline = {"start_once", "destroy_once"}
INVARIANTS
  TypeOK
  LockProtectsKernel
  CurenvIsLive
  OneCpuPerEnv
  RunningIsOnCpu
  FreeListExact
  ReceiverIsBlocked
  OwnKernelStack
PROPERTIES
  ZombieFreedByItsCpu
  EndedBySelfOrCreator
