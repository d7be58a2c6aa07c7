\* Two processors: the Makefile's default (CPUS := 2).
CONSTANTS
  Threads = {t1, t2}
  Frames = {f1, f2}
  NCPU = 2
  Null = Null
  MaxRefs = 2
  UintMod = 4
SPECIFICATION Spec
INVARIANT NoPanic
