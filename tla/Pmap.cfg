SPECIFICATION Spec
CONSTANTS
  Envs = {e1, e2}
  Pages = {1, 2, 3, 4, 5, 6, 7, 8, 9, 10}
  Page0 = 0
  Null = null
  First <- Least
  VAs <- ThreePages
  BootVAs <- OnePage
  LastIndex = 2
  TopDir = 1
  Perms = {TRUE, FALSE}
  RefWrap = 8
  MaxRef = 3
  Discipline = {"no_self_remap", "unmap_mapped", "destroy_nonempty"}
VIEW UpToPageNames
SYMMETRY Interchangeable
INVARIANTS
  MappedNotFree
  RefCoversMappings
  TablesWellFormed
PROPERTIES
  FailureKeepsMappings
