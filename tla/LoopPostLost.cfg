CONSTANTS
  r1 = r1
  r2 = r2
  w1 = w1
  w2 = w2
  Nobody = Nobody
  Threads = {t1}
  Clients = {c1}
  IoOps = {r1}
  Fds = {3}
  WakeFd = 4
  OpFd <- SingleRead
  ReadOps = {r1}
  MaxEvents = 2
  FailingFds = {}
  Interrupts = FALSE
  PostOps = {p1}
  MayThrow = FALSE
  Spurious = FALSE
  MayDestroy = FALSE
SPECIFICATION FairSpec
PROPERTIES
  PostedIsDispatched
CHECK_DEADLOCK FALSE
