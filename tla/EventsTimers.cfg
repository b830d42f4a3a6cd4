CONSTANTS
    Ops = {o1, o2, o3}
    Fds = {3}
    FdOf <- OneFd
    Kinds = {"event", "semaphore", "timer", "free_timer", "signal"}
    Durations = {"zero", "below_ns", "positive", "negative"}
    MaxCount = 2
    MaxInputs = 2
    MayFail = TRUE
SPECIFICATION Spec
INVARIANTS TypeOK EventsConserved ExpiryIsFresh OneWaitPerTimer SuccessMeansRead
PROPERTIES  EventsMakeProgress
CHECK_DEADLOCK FALSE
