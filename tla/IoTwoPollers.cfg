CONSTANTS
  r1 = r1
  r2 = r2
  w1 = w1
  w2 = w2
  Nobody = Nobody
  Threads = {t1, t2}
  Clients = {c1}
  IoOps = {r1, w1}
  Fds = {3}
  WakeFd = 4
  OpFd <- SharedOnly
  ReadOps = {r1}
  MaxEvents = 1
  FailingFds = {3}
  Interrupts = TRUE
SPECIFICATION IoFairSpec
INVARIANTS
  IoTypeOK
  IoInv
PROPERTIES
  ReadyIsServed
