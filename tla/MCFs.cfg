\* Two processes on an image with one file; four calls between them.
CONSTANTS
  Procs = {p1, p2}
  MaxCalls = 4
  NINODES = 4
  NBLOCKS = 9
  NINODE = 4
  NDIRECT = 1
  NINDIRECT = 1
  Names = {"a", "b"}
  Files <- MCFiles
  Calls <- MCCalls
SYMMETRY Perms
SPECIFICATION Spec
INVARIANTS CacheExact NoPanic BlocksExact InodesLive CyclesOnlyInIput
CHECK_DEADLOCK FALSE
