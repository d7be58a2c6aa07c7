\* Two processes, three buffers of which the log may pin two, four blocks of which one
\* may be unreadable: bget may find no buffer.
CONSTANTS
  Procs = {p1, p2}
  Blocks = {n1, n2, n3, n4}
  Values = {v0, v1}
  Bad = {n4}
  Bufs = {b1, b2, b3}
  MaxDirty = 2
  None = none
SPECIFICATION Spec
INVARIANTS CacheExact RequestsExact
PROPERTIES ImplementsBlockStore
SYMMETRY Symmetric
