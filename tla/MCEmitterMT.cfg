SPECIFICATION SharedFairSpec
CONSTANTS
  HeaderSize <- MCHeaderSize
  UMAX <- MCUMAX
  NameSize <- MCNameSize
  BlockSize <- MCBlockSize
  NULL = NULL
  Garbage = Garbage
  Empty = Empty
  NONE = NONE
  n1 = n1
  n2 = n2
  long = long
  f = f
  g = g
  main = main
  runner = runner
  Threads = {main, runner}
  Cancellable = {runner}
  EventNames = {n1, n2, long}
  TooLong = {long}
  Listeners = {f, g}
  Uses <- MCUses
  MaxNames = 1
  MaxListeners = 3
INVARIANTS
  Exclusion
  RunningIsRegistered
  EmitsAtOneInstant
PROPERTY
  CallsReturn
CHECK_DEADLOCK FALSE
