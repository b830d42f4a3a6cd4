CONSTANTS
  r1 = r1
  r2 = r2
  w1 = w1
  w2 = w2
  Nobody = Nobody
  Threads = {t1}
  Clients = {}
  IoOps = {r1, r2, w1}
  Fds = {3, 5}
  WakeFd = 4
  OpFd <- SharedLast
  ReadOps = {r1, r2}
  MaxEvents = 2
  FailingFds = {5}
  Interrupts = TRUE
  PostOps = {p1}
  MayThrow = TRUE
  Spurious = FALSE
  MayDestroy = TRUE
SPECIFICATION Spec
INVARIANTS
  TypeOK
  TeardownLeaksNothing
  BlockedMeansIdle
PROPERTIES
  CompletionsAreFifo
