\* A program reads the kernel's mapping of a page it shares with its parent.
CONSTANTS
  Frames = {f1, f2, f3}
  Procs = {p1, p2}
  InitProc = p1
  NPages = 1
  Values = {v0, v1}
  Zero = v0
  Text = v1
  Junk = junk
  None = none
  NCPU = 1
  Images = {}
  MinSize = 1
SPECIFICATION SpecAny
INVARIANT WritableNotShared
