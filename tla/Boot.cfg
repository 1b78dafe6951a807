SPECIFICATION Spec
CONSTANTS
  SECTSIZE = 4
  PGSIZE = 4
  MPENTRY = 1
  IOPHYSMEM = 24
  EXTPHYSMEM = 32
  SixteenMB = 48
  End = 37
  SizePageInfo = 1
  SizeEnvs = 3
  MaxPages = 40
  Spare = 4
  NTables = 2
  PTPAGES = 8
  NPDENTRIES = 2
  NCPU = 2
  KSTK = 2
  KGAP = 1
  Machines <- MCMachines
INVARIANTS
  SegmentsLoaded
  FreeIsRam
  LayoutHolds
  ProcessorsKnown
CHECK_DEADLOCK FALSE
