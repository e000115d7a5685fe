SPECIFICATION Spec
CONSTANTS
  HeaderSize <- MCHeaderSize
  UMAX <- MCUMAX
  NameSize <- MCNameSize
  BlockSize <- MCBlockSize
  NULL = NULL
  Garbage = Garbage
  Empty = Empty
  n1 = n1
  n2 = n2
  n3 = n3
  long = long
  f = f
  EventNames = {n1, n2, n3, long, Empty}
  TooLong = {long}
  Listeners = {f, NULL}
  Uses <- MCUses
  MaxNames = 2
  MaxListeners = 3
INVARIANTS
  TypeOK
  NamesLinked
PROPERTY
  ImplementsRegistry
CHECK_DEADLOCK FALSE
VIEW Queues
