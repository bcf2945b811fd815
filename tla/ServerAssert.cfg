\* Short connections against assert(hdle).
SPECIFICATION Spec
CONSTANTS
    Threads = {t1, t2}
    Conns = {c1, c2}
    NoThread = NoThread
    NoConn = NoConn
    LastFd = 3
    FD_LIMIT = 5
    MAX_FD_NUM = 2
    MAX_EPOLL_EVENT_NUM = 2
    Kinds = {"close"}
    PeerFaults = {"fin"}
    MaxReq = 1
    Pipelined = FALSE
    EmptyBodyReturns = FALSE
SYMMETRY Symmetry
INVARIANT
    AssertHdle
