SPECIFICATION Spec
CONSTANTS
  HeaderSize <- MCHeaderSize
  UMAX <- MCUMAX
  NULL = NULL
  Garbage = Garbage
  Items = {a, b}
  Capacities = {0, 1, 3}
  ItemSize = 4
  Ops = {"init", "clear", "put", "get", "push", "pop", "dtor"}
  Corners = {}
INVARIANTS
  TypeOK
  RingShape
  AccessorsAgree
  IterationAgrees
PROPERTY
  ImplementsDeque
