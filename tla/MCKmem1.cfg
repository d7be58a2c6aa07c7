\* One processor: the configuration bootxv6.sh starts (-smp 1).
CONSTANTS
  Threads = {t1, t2}
  Frames = {f1, f2}
  NCPU = 1
  Null = Null
  MaxRefs = 2
  UintMod = 4
SPECIFICATION FairSpec
INVARIANTS LockSafe NoPanic FreeExact
PROPERTIES ImplementsPageAllocator CallsReturn
