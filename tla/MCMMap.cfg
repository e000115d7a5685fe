SPECIFICATION Spec
CONSTANTS
  map = map
  mapFile = mapFile
  Objects = {map, mapFile}
  FileObjects = {mapFile}
  Lengths <- MCLengths
  Offsets <- MCOffsets
  Sizes <- MCSizes
  PAGE = 4
  INTMAX = 8
  WORD = 64
  Room = 24
  MaxFailures = 2
  NULL = NULL
  FAILED = FAILED
INVARIANTS
  TypeOK
  NothingMappedIsLost
  DescriptorsAccounted
  WindowRight
