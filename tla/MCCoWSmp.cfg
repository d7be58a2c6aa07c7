\* Two processors: two page faults, or a fault and a wait, at the same time.
CONSTANTS
  Frames = {f1, f2, f3}
  Procs = {p1, p2}
  InitProc = p1
  NPages = 2
  Values = {v0, v1}
  Zero = v0
  Text = v1
  Junk = junk
  None = none
  NCPU = 2
  Images = {}
  MinSize = 1
SPECIFICATION FairSpec
INVARIANT RefInv
PROPERTIES ImplementsPrivateMemory KernelReturns
