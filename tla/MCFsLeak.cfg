\* Two calls on an image with one file are enough.
CONSTANTS
  Procs = {p1, p2}
  MaxCalls = 2
  NINODES = 4
  NBLOCKS = 9
  NINODE = 4
  NDIRECT = 1
  NINDIRECT = 1
  Names = {"a", "b"}
  Files <- MCFiles
  Calls <- MCCalls
SYMMETRY Perms
SPECIFICATION Spec
INVARIANTS UnlinkedIsFreed
CHECK_DEADLOCK FALSE
