\* Three slots, two processors, four pids.
CONSTANTS
  NPROC = 3
  NCPU = 2
  MaxPid = 4
  SleepTicks = 1
SPECIFICATION FairSpec
INVARIANTS SwitchSafe FamilyTree NoLostWakeup
PROPERTIES KilledDies OrphansReaped
