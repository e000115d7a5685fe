SPECIFICATION Spec
CONSTANTS
  Objects = {o1, o2}
  MaxPthreads = 2
  Keys <- MCKeys
  COUNTMAX = 16
  SelfDeleting = {o2}
  MAIN = MAIN
  NULL = NULL
INVARIANT
  CurrentIsOwn
CHECK_DEADLOCK FALSE
