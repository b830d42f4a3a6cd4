CONSTANTS
    None = None
    Threads = {t1, t2}
    Ops = {o1, o2}
    Sockets = {s1, s2}
    Acceptors = {a1}
    SocketFiles = {net}
    Accepted = {acc}
    Listeners = {lst}
    MaxFd = 1
    MaxUnits = 1
    OnStreams = {"connect", "read", "write"}
    OnDatagrams = {"read", "write"}
SYMMETRY Symmetry
SPECIFICATION Spec
INVARIANTS TypeOK DescriptorsAccounted BlocksOnlyWhenUsedUp
PROPERTIES AbortsOnlyWhenClosed ConnectResultIsTrue
CHECK_DEADLOCK FALSE
