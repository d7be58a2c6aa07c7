\* fork, exec, sbrk of either sign, page faults, exit, wait and their failures,
\* two processes on one processor.
CONSTANTS
  Frames = {f1, f2, f3, f4}
  Procs = {p1, p2}
  InitProc = p1
  NPages = 3
  Values = {v0, v1}
  Zero = v0
  Text = v1
  Junk = junk
  None = none
  NCPU = 1
  Images = {1}
  MinSize = 2
SPECIFICATION Spec
INVARIANTS RefcExact WritableNotShared TlbSafe NoLeak AssertionsHold
PROPERTIES ImplementsPrivateMemory
SYMMETRY Symmetric
