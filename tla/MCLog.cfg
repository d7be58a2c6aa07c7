\* Two operations compete for the space of the log, commit together, and the
\* power fails anywhere.  As mkfs makes it, the log has a block less than
\* lh.block has entries, header included.
CONSTANTS
  Procs = {p1, p2}
  Blocks = {b1, b2, b3}
  Values = {v0, v1}
  None = none
  MAXOPBLOCKS = 1
  LOGSIZE = 3
  NLog = 3
  After = b3
SPECIFICATION FairSpec
INVARIANTS LogSafe
PROPERTIES ImplementsAtomicDisk SleepersWake
