SPECIFICATION FairSpec
CONSTANTS
  Objects = {o1, o2}
  MaxPthreads = 2
  Keys <- MCKeys
  COUNTMAX = 16
  SelfDeleting = {o2}
  MAIN = MAIN
  NULL = NULL
INVARIANTS
  TypeOK
  FrameAlive
  OneRunner
  NoUseAfterFree
PROPERTIES
  StopEnds
  CallsReturn
CHECK_DEADLOCK FALSE
