SPECIFICATION Spec
CONSTANTS
  Envs = {e1, e2}
  Pages = {1, 2, 3, 4, 5, 6, 7, 8, 9, 10}
  Page0 = 0
  Null = null
  First <- Least
  VAs <- OneTable
  BootVAs <- NoPages
  LastIndex = 2
  TopDir = 1
  Perms = {TRUE}
  RefWrap = 8
  MaxRef = 3
  Discipline = {"unmap_mapped", "destroy_nonempty"}
VIEW UpToPageNames
SYMMETRY Interchangeable
INVARIANTS
  MappedNotFree
