SPECIFICATION FairSpec
CONSTANTS
  w1 = w1
  w2 = w2
  u = u
  gsListener = gsListener
  INVALID = INVALID
  Fds <- MCFds
  Workers <- MCWorkers
  Users <- MCUsers
  Sockets <- MCSockets
  MaxOpened = 4
INVARIANTS
  TypeOK
  HandlesOwn
  NothingLost
PROPERTY
  ClientsLetGo
CHECK_DEADLOCK FALSE
