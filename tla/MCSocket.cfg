SPECIFICATION TransferFairSpec
CONSTANTS
  Size = 3
  Packets = 2
  Room = 2
  Timeouts = {0, 1}
INVARIANTS
  StreamIntact
  ShortHasReason
PROPERTY
  CallsReturn
CHECK_DEADLOCK FALSE
