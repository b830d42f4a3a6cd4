CONSTANTS
  r1 = r1
  r2 = r2
  w1 = w1
  w2 = w2
  Nobody = Nobody
  Threads = {t1}
  Clients = {c1}
  IoOps = {r1, r2, w1, w2}
  Fds = {3, 5, 7}
  WakeFd = 4
  OpFd <- SharedMiddle
  ReadOps = {r1, r2}
  MaxEvents = 1
  FailingFds = {}
  Interrupts = FALSE
SPECIFICATION IoSpec
INVARIANTS
  SortedByFd
  PollLengthExact
  PendingIsRegistered
  InterestIsWanted
  InOnePlace
PROPERTIES
  ImplementsAsyncIo
CHECK_DEADLOCK FALSE
