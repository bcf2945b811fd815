\* Two receivers, short connections, every fault; one usable descriptor.
SPECIFICATION Spec
CONSTANTS
    Threads = {t1, t2}
    Conns = {c1, c2}
    NoThread = NoThread
    NoConn = NoConn
    LastFd = 4
    FD_LIMIT = 4
    MAX_FD_NUM = 2
    MAX_EPOLL_EVENT_NUM = 2
    Kinds = {"close", "empty"}
    PeerFaults = {"fin"}
    MaxReq = 1
    Pipelined = FALSE
    EmptyBodyReturns = FALSE
SYMMETRY Symmetry
INVARIANT
    InsertFindsFree
    ConnectionCount
