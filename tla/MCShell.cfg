CONSTANTS
  MAXARGS = 3
  NPROC = 6
  NFILE = 3
  NPIPE = 1
  NOFILE = 5
  PIPESIZE = 2
  UintMod = 4
  MaxIn = 2
  MaxOut = 3
  MaxTokens = 5
  RunLines <- MCRunLines
SPECIFICATION FairSpec
INVARIANTS ParseAgrees FilesExact StreamExact Wired NoLeak
PROPERTIES PromptReturns
CHECK_DEADLOCK FALSE
