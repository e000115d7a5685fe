SPECIFICATION FairSpec
CONSTANTS
  HeaderSize <- MCHeaderSize
  UMAX <- MCUMAX
  NULL = NULL
  Garbage = Garbage
  Threads = {t1, t2, t3}
  Items = {a}
  ItemSize = 4
  Cap = 2
  Ops = {"put", "push", "pop", "length"}
INVARIANTS
  Exclusion
PROPERTIES
  Linearizable
  CallsReturn
