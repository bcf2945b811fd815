\* Liveness under the scheduler fairness, every kind of client and fault;
\* requests without content as http_server.babyEasy treats them.
SPECIFICATION FairSpec
CONSTANTS
    Threads = {t1, t2}
    Conns = {c1}
    NoThread = NoThread
    NoConn = NoConn
    LastFd = 3
    FD_LIMIT = 5
    MAX_FD_NUM = 2
    MAX_EPOLL_EVENT_NUM = 2
    Kinds = {"keep", "close", "bad", "empty"}
    PeerFaults = {"fin", "rst", "stall"}
    MaxReq = 2
    Pipelined = FALSE
    EmptyBodyReturns = TRUE
PROPERTY
    RequestAnswered
    StopCompletes
