\* Two receivers, clients that keep their connection, fall silent or hang up.
SPECIFICATION Spec
CONSTANTS
    Threads = {t1, t2}
    Conns = {c1, c2}
    NoThread = NoThread
    NoConn = NoConn
    LastFd = 4
    FD_LIMIT = 5
    MAX_FD_NUM = 2
    MAX_EPOLL_EVENT_NUM = 2
    Kinds = {"keep"}
    PeerFaults = {"fin"}
    MaxReq = 1
    Pipelined = FALSE
    EmptyBodyReturns = FALSE
SYMMETRY Symmetry
INVARIANT
    SingleOwner
    ServesOwnSocket
    NoOrphan
    
    ServerInv
PROPERTY
    ImplementsConnections
