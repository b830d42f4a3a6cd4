CONSTANTS
  r1 = r1
  r2 = r2
  w1 = w1
  w2 = w2
  Nobody = Nobody
  Threads = {t1}
  Clients = {}
  IoOps = {r1, w1}
  Fds = {3, 5}
  WakeFd = 4
  OpFd <- OwnFd
  ReadOps = {r1}
  MaxEvents = 3
  FailingFds = {}
  Interrupts = FALSE
  PostOps = {p1, p2}
  MayThrow = TRUE
  Spurious = FALSE
  MayDestroy = FALSE
SPECIFICATION FairSpec
PROPERTIES
  PostedIsDispatched
  CancelledIsDispatched
  ReadyIsDispatched
  RunReturns
