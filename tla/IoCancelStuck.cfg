CONSTANTS
  r1 = r1
  r2 = r2
  w1 = w1
  w2 = w2
  Nobody = Nobody
  Threads = {t1}
  Clients = {c1}
  IoOps = {r1, r2, w1}
  Fds = {3, 5}
  WakeFd = 4
  OpFd <- SharedLast
  ReadOps = {r1, r2}
  MaxEvents = 2
  FailingFds = {}
  Interrupts = FALSE
SPECIFICATION IoSpec
INVARIANTS
  CancelReturns
