----------------------------- MODULE HttpServer -----------------------------
(***************************************************************************)
(* The receiver threads of Http_Server (src/http_server/http_server.cpp)   *)
(* and the kernel objects they share.  Every thread runs svc(): it takes   *)
(* _epoll_mutex, refills the array of ready events when it is used up,     *)
(* takes one event, drops the mutex and serves that connection in          *)
(* recv_request().  Connections live in m_fd_set, a map from descriptor    *)
(* to a reference-counted SocketHandle, under _map_mutex.                  *)
(*                                                                         *)
(* One action is the code between two points where another thread, a       *)
(* client or the main thread can be seen: a lock, a system call, or a      *)
(* shared variable.  A connection is also the identity of the              *)
(* SocketHandle that create_handle() allocates for it.                     *)
(***************************************************************************)
EXTENDS Integers, Sequences, FiniteSets

CONSTANTS
    Threads,      \* the receiver threads (config.receiver_num of them)
    Conns,        \* client connections; each connects at most once
    NoThread, NoConn,
    LastFd,       \* the largest descriptor the process may open (RLIMIT_NOFILE)
    FD_LIMIT,     \* the literal 1024 of "new_fd >= 1024"
    MAX_FD_NUM,   \* connections allowed by _now_connections
    MAX_EPOLL_EVENT_NUM,
    Kinds,        \* kinds of request that clients send
    PeerFaults,   \* what a client may do other than send requests
    MaxReq,       \* bound: requests per connection
    Pipelined,    \* may a client send a request before the last answer?
    EmptyBodyReturns  \* TRUE for src/http_server.babyEasy

(***************************************************************************)
(* A request is a header and, unless the header announces no content, one  *)
(* unit of content.  "keep" asks for Connection: keep-alive, "close" does  *)
(* not, "empty" has no Content-Length, "bad" has an unusable first line.   *)
(***************************************************************************)
HeaderKinds == {"keep", "close", "empty", "bad"}
Tokens == Kinds \cup {"body"}

ASSUME ThreadAssumption == NoThread \notin Threads /\ IsFiniteSet(Threads)
ASSUME ConnAssumption == NoConn \notin Conns /\ IsFiniteSet(Conns)
ASSUME KindAssumption == Kinds \subseteq HeaderKinds
                         /\ PeerFaults \subseteq {"fin", "rst", "stall"}
ASSUME BoundAssumption == /\ LastFd \in Nat /\ FD_LIMIT \in Nat
                          /\ MAX_FD_NUM \in Nat /\ MaxReq \in Nat
                          /\ MAX_EPOLL_EVENT_NUM \in Nat \ {0}
                          /\ Pipelined \in BOOLEAN
                          /\ EmptyBodyReturns \in BOOLEAN

PipeFd == 1
ListenFd == 2
Fds == 3..LastFd
AllFds == {PipeFd, ListenFd} \cup Fds

VARIABLES
    \* clients and the network
    phase,      \* "new", "pending" (in the listen queue), "open", "closed"
    peer,       \* "up", "fin", "rst" or "stall" (has stopped reading)
    sent,       \* requests begun
    owes,       \* header sent, content still to come
    rx,         \* tokens received by the kernel, not yet read
    replies,    \* answers written to the connection
    \* descriptors and epoll
    sock,       \* descriptor -> connection
    interest,   \* descriptors registered with _epoll_fd
    ready,      \* the kernel's list of registered descriptors with an edge
    \* Http_Server
    stop_task,
    epoll_mutex, map_mutex,          \* owner, or NoThread
    ready_event,      \* entries of _epoll_ready_event below _epoll_ready_event_num
    now_connections,
    m_fd_set,         \* descriptor -> handle
    live,             \* handle allocated and not deleted
    ref,              \* SocketHandle::_ref
    read_buf,         \* SocketHandle::_read_buf
    \* threads
    pc,
    fd,               \* the local variable fd (new_fd while accepting)
    hdle,             \* the local variable hdle
    req,              \* header kind in the worker; "none" on the error paths
    sig,              \* SIGTERM sent by join() and not yet delivered
    \* main thread: pause(), stop(), delete http
    main, unjoined, joining,
    fault             \* how the process died, or "none"

netVars == <<phase, peer, sent, owes, rx, replies>>
pollVars == <<sock, interest, ready>>
handleVars == <<now_connections, m_fd_set, live, ref, read_buf>>
lockVars == <<epoll_mutex, map_mutex>>
threadVars == <<pc, fd, hdle, req, sig>>
mainVars == <<stop_task, main, unjoined, joining>>
vars == <<netVars, pollVars, handleVars, lockVars, ready_event, threadVars,
          mainVars, fault>>

PCs == {"top", "lock", "epoll", "dispatch", "accept", "insert", "addnew",
        "get", "header", "body", "send", "release", "erase", "readd", "done"}

NetType ==
    /\ phase \in [Conns -> {"new", "pending", "open", "closed"}]
    /\ peer \in [Conns -> {"up", "fin", "rst", "stall"}]
    /\ sent \in [Conns -> Nat] /\ replies \in [Conns -> Nat]
    /\ owes \in [Conns -> BOOLEAN]
    /\ rx \in [Conns -> Seq(Tokens)]

PollType ==
    /\ sock \in [Fds -> Conns \cup {NoConn}]
    /\ interest \subseteq AllFds
    /\ ready \subseteq interest
    /\ ready_event \subseteq AllFds

HandleType ==
    /\ now_connections \in Int
    /\ m_fd_set \in [Fds -> Conns \cup {NoConn}]
    /\ live \in [Conns -> BOOLEAN]
    /\ ref \in [Conns -> Int]
    /\ read_buf \in [Conns -> Seq(Tokens)]

ThreadType ==
    /\ pc \in [Threads -> PCs]
    /\ fd \in [Threads -> AllFds]
    /\ hdle \in [Threads -> Conns \cup {NoConn}]
    /\ req \in [Threads -> Kinds \cup {"none"}]
    /\ sig \in [Threads -> BOOLEAN]
    /\ epoll_mutex \in Threads \cup {NoThread}
    /\ map_mutex \in Threads \cup {NoThread}

MainType ==
    /\ stop_task \in BOOLEAN
    /\ main \in {"run", "flagged", "join", "deleted"}
    /\ unjoined \subseteq Threads
    /\ joining \in Threads \cup {NoThread}
    /\ fault \in {"none", "assert", "null", "use_after_free"}

TypeOK == NetType /\ PollType /\ HandleType /\ ThreadType /\ MainType

(***************************************************************************)
(* State after Http_Server::open(), register_handler() and activate(): the *)
(* pipe and the listening socket are registered, every thread is past the  *)
(* barrier of task_base (module TaskBase) and no client has connected.     *)
(***************************************************************************)
Init ==
    /\ phase = [c \in Conns |-> "new"] /\ peer = [c \in Conns |-> "up"]
    /\ sent = [c \in Conns |-> 0] /\ replies = [c \in Conns |-> 0]
    /\ owes = [c \in Conns |-> FALSE] /\ rx = [c \in Conns |-> <<>>]
    /\ sock = [f \in Fds |-> NoConn]
    /\ interest = {PipeFd, ListenFd} /\ ready = {}
    /\ stop_task = FALSE
    /\ epoll_mutex = NoThread /\ map_mutex = NoThread
    /\ ready_event = {} /\ now_connections = 0
    /\ m_fd_set = [f \in Fds |-> NoConn]
    /\ live = [c \in Conns |-> FALSE] /\ ref = [c \in Conns |-> 0]
    /\ read_buf = [c \in Conns |-> <<>>]
    /\ pc = [t \in Threads |-> "top"] /\ fd = [t \in Threads |-> ListenFd]
    /\ hdle = [t \in Threads |-> NoConn] /\ req = [t \in Threads |-> "none"]
    /\ sig = [t \in Threads |-> FALSE]
    /\ main = "run" /\ unjoined = Threads /\ joining = NoThread
    /\ fault = "none"

-----------------------------------------------------------------------------
(***************************************************************************)
(* The kernel, as the code uses it: descriptors and edge-triggered epoll.  *)
(***************************************************************************)
Readable(c) == rx[c] # <<>> \/ peer[c] \in {"fin", "rst"}

FdsOf(c) == {f \in Fds : sock[f] = c}

\* An edge on connection c: it is queued for every registration of c.
Edge(c) == ready' = ready \cup (interest \cap FdsOf(c))

\* epoll_wait() reports a queued descriptor only if it is readable now.
Pollable(f) ==
    CASE f = PipeFd -> stop_task
      [] f = ListenFd -> \E c \in Conns : phase[c] = "pending"
      [] OTHER -> sock[f] # NoConn /\ Readable(sock[f])

\* EPOLL_CTL_ADD with EPOLLIN | EPOLLET.  Errors (EBADF, EEXIST) are ignored.
add_input_fd(f) ==
    IF sock[f] = NoConn \/ f \in interest
    THEN UNCHANGED <<interest, ready>>
    ELSE /\ interest' = interest \cup {f}
         /\ ready' = IF Readable(sock[f]) THEN ready \cup {f} ELSE ready

\* Variant: the call is forgotten.
del_input_fd_Missing(f) == UNCHANGED <<interest, ready>>

del_input_fd(f) ==
    /\ interest' = interest \ {f}
    /\ ready' = ready \ {f}

Running == fault = "none" /\ main # "deleted"

At(t, here) == Running /\ pc[t] = here
Goto(t, there) == pc' = [pc EXCEPT ![t] = there]

\* Back to the loop of svc(): the locals of recv_request() are dead.
Return(t) ==
    /\ Goto(t, "top")
    /\ fd' = [fd EXCEPT ![t] = ListenFd]
    /\ hdle' = [hdle EXCEPT ![t] = NoConn]
    /\ req' = [req EXCEPT ![t] = "none"]

-----------------------------------------------------------------------------
(***************************************************************************)
(* Clients.                                                                *)
(***************************************************************************)
Connect(c) ==
    /\ Running /\ phase[c] = "new"
    /\ phase' = [phase EXCEPT ![c] = "pending"]
    /\ ready' = ready \cup {ListenFd}
    /\ UNCHANGED <<peer, sent, owes, rx, replies, sock, interest, handleVars,
                   lockVars, ready_event, threadVars, mainVars, fault>>

Connected(c) == phase[c] \in {"pending", "open"} /\ peer[c] \in {"up", "stall"}

SendHeader(c, k) ==
    /\ Running /\ Connected(c) /\ ~owes[c]
    /\ sent[c] < MaxReq
    /\ Pipelined \/ replies[c] = sent[c]
    /\ sent' = [sent EXCEPT ![c] = @ + 1]
    /\ owes' = [owes EXCEPT ![c] = k \in {"keep", "close"}]
    /\ rx' = [rx EXCEPT ![c] = Append(@, k)]
    /\ Edge(c)
    /\ UNCHANGED <<phase, peer, replies, sock, interest, handleVars, lockVars,
                   ready_event, threadVars, mainVars, fault>>

SendBody(c) ==
    /\ Running /\ Connected(c) /\ owes[c]
    /\ owes' = [owes EXCEPT ![c] = FALSE]
    /\ rx' = [rx EXCEPT ![c] = Append(@, "body")]
    /\ Edge(c)
    /\ UNCHANGED <<phase, peer, sent, replies, sock, interest, handleVars,
                   lockVars, ready_event, threadVars, mainVars, fault>>

\* "fin": orderly close; "rst": reset, unread data is lost; "stall": the
\* client stops reading and the send buffer is full.
PeerFault(c, x) ==
    /\ Running /\ Connected(c) /\ peer[c] = "up"
    /\ peer' = [peer EXCEPT ![c] = x]
    /\ rx' = IF x = "rst" THEN [rx EXCEPT ![c] = <<>>] ELSE rx
    /\ IF x = "stall" THEN UNCHANGED ready ELSE Edge(c)
    /\ UNCHANGED <<phase, sent, owes, replies, sock, interest, handleVars,
                   lockVars, ready_event, threadVars, mainVars, fault>>

-----------------------------------------------------------------------------
(***************************************************************************)
(* Http_Server::svc(): the event loop.                                     *)
(***************************************************************************)
LoopTest(t) ==
    /\ At(t, "top")
    /\ Goto(t, IF stop_task THEN "done" ELSE "lock")
    /\ UNCHANGED <<netVars, pollVars, handleVars, lockVars, ready_event, fd,
                   hdle, req, sig, mainVars, fault>>

\* Variant: _stop_task is not tested again under the mutex.
LockEpoll_NoRecheck(t) ==
    /\ At(t, "lock") /\ epoll_mutex = NoThread
    /\ epoll_mutex' = t
    /\ Goto(t, IF ready_event = {} THEN "epoll" ELSE "dispatch")
    /\ UNCHANGED <<netVars, pollVars, handleVars, map_mutex, ready_event, fd,
                   hdle, req, sig, mainVars, fault>>

LockEpoll(t) ==
    /\ At(t, "lock") /\ epoll_mutex = NoThread
    /\ IF stop_task
       THEN Goto(t, "done") /\ UNCHANGED epoll_mutex
       ELSE /\ epoll_mutex' = t
            /\ Goto(t, IF ready_event = {} THEN "epoll" ELSE "dispatch")
    /\ UNCHANGED <<netVars, pollVars, handleVars, map_mutex, ready_event, fd,
                   hdle, req, sig, mainVars, fault>>

\* epoll_wait() returns at most MAX_EPOLL_EVENT_NUM descriptors, each once.
\* The order of the array, which the loop consumes from its end, is the
\* order of the edges: it is left open.
EpollWait(t) ==
    /\ At(t, "epoll")
    /\ LET avail == {f \in ready : Pollable(f)} IN
       \E b \in SUBSET avail :
          /\ b # {}
          /\ Cardinality(b) <= MAX_EPOLL_EVENT_NUM
          /\ b = avail \/ Cardinality(b) = MAX_EPOLL_EVENT_NUM
          /\ ready_event' = b
          /\ ready' = avail \ b
    /\ Goto(t, "dispatch")
    /\ UNCHANGED <<netVars, sock, interest, handleVars, lockVars, fd, hdle,
                   req, sig, mainVars, fault>>

\* epoll_wait() = -1 with EINTR: the count goes to -2, the array stays empty.
EpollEintr(t) ==
    /\ At(t, "epoll") /\ sig[t]
    /\ sig' = [sig EXCEPT ![t] = FALSE]
    /\ epoll_mutex' = NoThread
    /\ Goto(t, "top")
    /\ UNCHANGED <<netVars, pollVars, handleVars, map_mutex, ready_event, fd,
                   hdle, req, mainVars, fault>>

TakeListen(t) ==
    /\ At(t, "dispatch") /\ ListenFd \in ready_event
    /\ ready_event' = ready_event \ {ListenFd}
    /\ Goto(t, "accept")
    /\ UNCHANGED <<netVars, pollVars, handleVars, lockVars, fd, hdle, req, sig,
                   mainVars, fault>>

TakePipe(t) ==
    /\ At(t, "dispatch") /\ PipeFd \in ready_event
    /\ ready_event' = ready_event \ {PipeFd}
    /\ epoll_mutex' = NoThread
    /\ Goto(t, "top")
    /\ UNCHANGED <<netVars, pollVars, handleVars, map_mutex, fd, hdle, req,
                   sig, mainVars, fault>>

TakeConn(t) ==
    /\ At(t, "dispatch")
    /\ \E f \in ready_event \cap Fds :
          /\ ready_event' = ready_event \ {f}
          /\ del_input_fd(f)
          /\ fd' = [fd EXCEPT ![t] = f]
    /\ epoll_mutex' = NoThread
    /\ Goto(t, "get")
    /\ UNCHANGED <<netVars, sock, handleVars, map_mutex, hdle, req, sig,
                   mainVars, fault>>

-----------------------------------------------------------------------------
(***************************************************************************)
(* The accept loop, under _epoll_mutex.                                    *)
(***************************************************************************)
FreeFds == {f \in Fds : sock[f] = NoConn}

\* The kernel hands out the lowest free descriptor.
Lowest(f) == f \in FreeFds /\ \A g \in FreeFds : f <= g

OverLimit(f) == now_connections >= MAX_FD_NUM \/ f >= FD_LIMIT

\* accept(), the limits, and set_socket() on an accepted connection.
Accept(t, c) ==
    /\ At(t, "accept") /\ phase[c] = "pending"
    /\ \E f \in FreeFds :
          /\ Lowest(f) /\ ~OverLimit(f)
          /\ sock' = [sock EXCEPT ![f] = c]
          /\ fd' = [fd EXCEPT ![t] = f]
    /\ phase' = [phase EXCEPT ![c] = "open"]
    /\ now_connections' = now_connections + 1
    /\ Goto(t, "insert")
    /\ UNCHANGED <<peer, sent, owes, rx, replies, interest, ready, m_fd_set,
                   live, ref, read_buf, lockVars, ready_event, hdle, req, sig,
                   mainVars, fault>>

AcceptRefuse(t, c) ==
    /\ At(t, "accept") /\ phase[c] = "pending"
    /\ \E f \in FreeFds : Lowest(f) /\ OverLimit(f)
    /\ phase' = [phase EXCEPT ![c] = "closed"]
    /\ UNCHANGED <<peer, sent, owes, rx, replies, pollVars, handleVars,
                   lockVars, ready_event, threadVars, mainVars, fault>>

\* accept() fails: nothing is pending (EAGAIN) or no descriptor (EMFILE).
AcceptEnd(t) ==
    /\ At(t, "accept")
    /\ FreeFds = {} \/ \A c \in Conns : phase[c] # "pending"
    /\ epoll_mutex' = NoThread
    /\ Return(t)
    /\ UNCHANGED <<netVars, pollVars, handleVars, map_mutex, ready_event, sig,
                   mainVars, fault>>

\* create_handle() and insert_handle(): std::map::insert() does not replace
\* an entry; the new handle is then allocated but unreachable.
create_handle(t) ==
    /\ At(t, "insert") /\ map_mutex = NoThread
    /\ LET c == sock[fd[t]] IN
          /\ live' = [live EXCEPT ![c] = TRUE]
          /\ m_fd_set' = IF m_fd_set[fd[t]] = NoConn
                         THEN [m_fd_set EXCEPT ![fd[t]] = c] ELSE m_fd_set
    /\ Goto(t, "addnew")
    /\ UNCHANGED <<netVars, pollVars, now_connections, ref, read_buf, lockVars,
                   ready_event, fd, hdle, req, sig, mainVars, fault>>

AddNew(t) ==
    /\ At(t, "addnew")
    /\ add_input_fd(fd[t])
    /\ Goto(t, "accept")
    /\ UNCHANGED <<netVars, sock, handleVars, lockVars, ready_event, fd, hdle,
                   req, sig, mainVars, fault>>

-----------------------------------------------------------------------------
(***************************************************************************)
(* Http_Server::recv_request(): one request on the descriptor fd[t].       *)
(***************************************************************************)
get_handle(t) ==
    /\ At(t, "get") /\ map_mutex = NoThread
    /\ m_fd_set[fd[t]] # NoConn
    /\ ref' = [ref EXCEPT ![m_fd_set[fd[t]]] = @ + 1]
    /\ hdle' = [hdle EXCEPT ![t] = m_fd_set[fd[t]]]
    /\ Goto(t, "header")
    /\ UNCHANGED <<netVars, pollVars, now_connections, m_fd_set, live,
                   read_buf, lockVars, ready_event, fd, req, sig, mainVars,
                   fault>>

\* get_handle() returned NULL: assert(hdle) aborts the process.
AssertHandle(t) ==
    /\ At(t, "get") /\ map_mutex = NoThread
    /\ m_fd_set[fd[t]] = NoConn
    /\ fault' = "assert"
    /\ UNCHANGED <<netVars, pollVars, handleVars, lockVars, ready_event,
                   threadVars, mainVars>>

\* A step of t that dereferences hdle.
Holding(t, here) == At(t, here) /\ live[hdle[t]]

UsesHandle == {"header", "body", "send", "release"}

UseAfterFree(t) ==
    /\ Running /\ pc[t] \in UsesHandle /\ ~live[hdle[t]]
    /\ fault' = "use_after_free"
    /\ UNCHANGED <<netVars, pollVars, handleVars, lockVars, ready_event,
                   threadVars, mainVars>>

HasHeader(s) == \E i \in 1..Len(s) : s[i] # "body"
FirstHeader(s, i) == s[i] # "body" /\ \A j \in 1..(i - 1) : s[j] = "body"

\* What is left to read on the socket that fd[t] denotes at this moment.
NoData(t) == sock[fd[t]] # NoConn => rx[sock[fd[t]]] = <<>>

\* read_http_header_timeout(): one read() of up to READ_BUF_SIZE bytes, which
\* may bring in the content and later requests too.
ReadHeader(t) ==
    /\ Holding(t, "header") /\ ~HasHeader(read_buf[hdle[t]]) /\ ~NoData(t)
    /\ LET c == sock[fd[t]] IN \E n \in 1..Len(rx[c]) :
          /\ read_buf' = [read_buf EXCEPT ![hdle[t]] =
                              @ \o SubSeq(rx[c], 1, n)]
          /\ rx' = [rx EXCEPT ![c] = SubSeq(@, n + 1, Len(@))]
    /\ UNCHANGED <<phase, peer, sent, owes, replies, pollVars, now_connections,
                   m_fd_set, live, ref, lockVars, ready_event, threadVars,
                   mainVars, fault>>

\* A complete header is in _read_buf: cut it off and GetInfo() it.
GetInfo(t) ==
    /\ Holding(t, "header") /\ HasHeader(read_buf[hdle[t]])
    /\ LET s == read_buf[hdle[t]] IN \E i \in 1..Len(s) :
          /\ FirstHeader(s, i)
          /\ read_buf' = [read_buf EXCEPT ![hdle[t]] =
                              SubSeq(s, i + 1, Len(s))]
          /\ req' = [req EXCEPT ![t] = IF s[i] = "bad" THEN "none" ELSE s[i]]
          /\ Goto(t, IF s[i] = "bad" THEN "release" ELSE "body")
    /\ UNCHANGED <<netVars, pollVars, now_connections, m_fd_set, live, ref,
                   lockVars, ready_event, fd, hdle, sig, mainVars, fault>>

\* No header: poll() timed out or was interrupted, or read() returned 0 or -1.
HeaderFails(t) ==
    /\ Holding(t, "header") /\ ~HasHeader(read_buf[hdle[t]]) /\ NoData(t)
    /\ req' = [req EXCEPT ![t] = "none"]
    /\ Goto(t, "release")
    /\ UNCHANGED <<netVars, pollVars, handleVars, lockVars, ready_event, fd,
                   hdle, sig, mainVars, fault>>

\* readn_timeout(): the content is taken from _read_buf, or else read.
ReadBody(t) ==
    /\ Holding(t, "body") /\ req[t] # "empty"
    /\ \/ /\ read_buf[hdle[t]] # <<>>
          /\ read_buf' = [read_buf EXCEPT ![hdle[t]] = Tail(@)]
          /\ UNCHANGED rx
       \/ /\ read_buf[hdle[t]] = <<>> /\ ~NoData(t)
          /\ rx' = [rx EXCEPT ![sock[fd[t]]] = Tail(@)]
          /\ UNCHANGED read_buf
    /\ Goto(t, "send")
    /\ UNCHANGED <<phase, peer, sent, owes, replies, pollVars, now_connections,
                   m_fd_set, live, ref, lockVars, ready_event, fd, hdle, req,
                   sig, mainVars, fault>>

BodyFails(t) ==
    /\ Holding(t, "body") /\ req[t] # "empty"
    /\ read_buf[hdle[t]] = <<>> /\ NoData(t)
    /\ req' = [req EXCEPT ![t] = "none"]
    /\ Goto(t, "release")
    /\ UNCHANGED <<netVars, pollVars, handleVars, lockVars, ready_event, fd,
                   hdle, sig, mainVars, fault>>

\* content_len = 0: genContentBuf() leaves content_buf NULL, readn_timeout()
\* returns 0 and content_buf[0] is written.
EmptyBodyCrash(t) ==
    /\ Holding(t, "body") /\ req[t] = "empty" /\ ~EmptyBodyReturns
    /\ fault' = "null"
    /\ UNCHANGED <<netVars, pollVars, handleVars, lockVars, ready_event,
                   threadVars, mainVars>>

\* http_server.babyEasy: recv_request() returns -1 and does nothing else.
EmptyBodyReturn(t) ==
    /\ Holding(t, "body") /\ req[t] = "empty" /\ EmptyBodyReturns
    /\ Return(t)
    /\ UNCHANGED <<netVars, pollVars, handleVars, lockVars, ready_event, sig,
                   mainVars, fault>>

-----------------------------------------------------------------------------
(***************************************************************************)
(* HttpHandler::handle_worker() -> retrieve_worker(): answer, release the  *)
(* handle, and then recv_request() registers the descriptor again.         *)
(***************************************************************************)
PeerOf(t) == IF sock[fd[t]] = NoConn THEN "closed" ELSE peer[sock[fd[t]]]

send_result(t) ==
    /\ Holding(t, "send") /\ PeerOf(t) \in {"up", "fin"}
    /\ replies' = [replies EXCEPT ![sock[fd[t]]] = @ + 1]
    /\ Goto(t, "release")
    /\ UNCHANGED <<phase, peer, sent, owes, rx, pollVars, handleVars, lockVars,
                   ready_event, fd, hdle, req, sig, mainVars, fault>>

\* writen_timeout() returns -1: poll() times out, is interrupted, or reports
\* no POLLOUT.  The caller ignores it.
SendFails(t) ==
    /\ Holding(t, "send")
    /\ PeerOf(t) \in {"stall", "closed"} \/ sig[t]
    /\ sig' = [sig EXCEPT ![t] = FALSE]
    /\ Goto(t, "release")
    /\ UNCHANGED <<netVars, pollVars, handleVars, lockVars, ready_event, fd,
                   hdle, req, mainVars, fault>>

\* write() = -1 on a reset connection makes "left" grow: the loop of
\* writen_timeout() ends only when the int has run through its range.
SendSpinEnds(t) ==
    /\ Holding(t, "send") /\ PeerOf(t) = "rst"
    /\ Goto(t, "release")
    /\ UNCHANGED <<netVars, pollVars, handleVars, lockVars, ready_event, fd,
                   hdle, req, sig, mainVars, fault>>

\* Variant: release() of the handle is forgotten.
ReleaseKeep_NoCount(t) ==
    /\ Holding(t, "release") /\ req[t] = "keep" /\ map_mutex = NoThread
    /\ Goto(t, "readd")
    /\ UNCHANGED <<netVars, pollVars, handleVars, lockVars, ready_event, fd,
                   hdle, req, sig, mainVars, fault>>

\* release_handle(hdle, false).
ReleaseKeep(t) ==
    /\ Holding(t, "release") /\ req[t] = "keep" /\ map_mutex = NoThread
    /\ ref' = [ref EXCEPT ![hdle[t]] = @ - 1]
    /\ Goto(t, "readd")
    /\ UNCHANGED <<netVars, pollVars, now_connections, m_fd_set, live,
                   read_buf, lockVars, ready_event, fd, hdle, req, sig,
                   mainVars, fault>>

\* Variant: the error paths fall through to add_input_fd().
AfterRelease_Always(t) == Goto(t, "readd") /\ UNCHANGED <<fd, hdle, req>>

\* After release_handle(): retrieve_worker() goes back to add_input_fd(), the
\* error paths of recv_request() return.
AfterRelease(t) ==
    IF req[t] = "none" THEN Return(t)
    ELSE Goto(t, "readd") /\ UNCHANGED <<fd, hdle, req>>

\* close(): the descriptor and its registration go.
CloseFd(f) ==
    /\ sock' = [sock EXCEPT ![f] = NoConn]
    /\ phase' = IF sock[f] = NoConn THEN phase
                ELSE [phase EXCEPT ![sock[f]] = "closed"]

\* Variant: _map_mutex is dropped before the entry is erased.
ReleaseClose_Unlocks(t) ==
    /\ Holding(t, "release") /\ req[t] # "keep" /\ map_mutex = NoThread
    /\ ref[hdle[t]] = 1
    /\ ref' = [ref EXCEPT ![hdle[t]] = 0]
    /\ del_input_fd(fd[t]) /\ CloseFd(fd[t])
    /\ Goto(t, "erase")
    /\ UNCHANGED <<peer, sent, owes, rx, replies, now_connections, m_fd_set,
                   live, read_buf, lockVars, ready_event, fd, hdle, req, sig,
                   mainVars, fault>>

\* release_handle(hdle, true) up to close(): _map_mutex stays locked.
ReleaseClose(t) ==
    /\ Holding(t, "release") /\ req[t] # "keep" /\ map_mutex = NoThread
    /\ ref[hdle[t]] = 1
    /\ ref' = [ref EXCEPT ![hdle[t]] = 0]
    /\ del_input_fd(fd[t]) /\ CloseFd(fd[t])
    /\ map_mutex' = t
    /\ Goto(t, "erase")
    /\ UNCHANGED <<peer, sent, owes, rx, replies, now_connections, m_fd_set,
                   live, read_buf, epoll_mutex, ready_event, fd, hdle, req,
                   sig, mainVars, fault>>

\* Variant: _now_connections is not counted down.
EraseHandle_NoCount(t) ==
    /\ At(t, "erase")
    /\ live' = [live EXCEPT ![hdle[t]] = FALSE]
    /\ m_fd_set' = [m_fd_set EXCEPT ![fd[t]] = NoConn]
    /\ map_mutex' = NoThread
    /\ AfterRelease(t)
    /\ UNCHANGED <<netVars, pollVars, now_connections, ref, read_buf,
                   epoll_mutex, ready_event, sig, mainVars, fault>>

\* Variant: the map entry of the deleted handle stays.
EraseHandle_KeepsEntry(t) ==
    /\ At(t, "erase")
    /\ live' = [live EXCEPT ![hdle[t]] = FALSE]
    /\ now_connections' = now_connections - 1
    /\ map_mutex' = NoThread
    /\ AfterRelease(t)
    /\ UNCHANGED <<netVars, pollVars, m_fd_set, ref, read_buf, epoll_mutex,
                   ready_event, sig, mainVars, fault>>

\* ... delete hdle, erase the map entry, count down, unlock.
EraseHandle(t) ==
    /\ At(t, "erase")
    /\ live' = [live EXCEPT ![hdle[t]] = FALSE]
    /\ m_fd_set' = [m_fd_set EXCEPT ![fd[t]] = NoConn]
    /\ now_connections' = now_connections - 1
    /\ map_mutex' = NoThread
    /\ AfterRelease(t)
    /\ UNCHANGED <<netVars, pollVars, ref, read_buf, epoll_mutex, ready_event,
                   sig, mainVars, fault>>

\* release_handle(hdle, true) with other references: the log statement of
\* the error branch calls release() a second time, and nothing is closed.
ReleaseShared(t) ==
    /\ Holding(t, "release") /\ req[t] # "keep" /\ map_mutex = NoThread
    /\ ref[hdle[t]] # 1
    /\ ref' = [ref EXCEPT ![hdle[t]] = @ - 2]
    /\ AfterRelease(t)
    /\ UNCHANGED <<netVars, pollVars, now_connections, m_fd_set, live,
                   read_buf, lockVars, ready_event, sig, mainVars, fault>>

\* Variant: the descriptor is not registered again.
ReAdd_Missing(t) ==
    /\ At(t, "readd")
    /\ Return(t)
    /\ UNCHANGED <<netVars, pollVars, handleVars, lockVars, ready_event, sig,
                   mainVars, fault>>

ReAdd(t) ==
    /\ At(t, "readd")
    /\ add_input_fd(fd[t])
    /\ Return(t)
    /\ UNCHANGED <<netVars, sock, handleVars, lockVars, ready_event, sig,
                   mainVars, fault>>

-----------------------------------------------------------------------------
(***************************************************************************)
(* The main thread: stop() and the destructor.                             *)
(***************************************************************************)
StopFlag ==
    /\ Running /\ main = "run"
    /\ stop_task' = TRUE
    /\ main' = "flagged"
    /\ UNCHANGED <<netVars, pollVars, handleVars, lockVars, ready_event,
                   threadVars, unjoined, joining, fault>>

StopPipe ==
    /\ Running /\ main = "flagged"
    /\ ready' = ready \cup {PipeFd}
    /\ main' = "join"
    /\ UNCHANGED <<netVars, sock, interest, handleVars, lockVars, ready_event,
                   threadVars, stop_task, unjoined, joining, fault>>

\* task_base::join(): pthread_kill(SIGTERM), then pthread_join, one by one.
JoinKill(t) ==
    /\ Running /\ main = "join" /\ joining = NoThread /\ t \in unjoined
    /\ joining' = t
    /\ sig' = [sig EXCEPT ![t] = TRUE]
    /\ UNCHANGED <<netVars, pollVars, handleVars, lockVars, ready_event, pc,
                   fd, hdle, req, stop_task, main, unjoined, fault>>

\* sigterm_handler() runs while t is in no interruptible call.
SigHandled(t) ==
    /\ Running /\ sig[t]
    /\ sig' = [sig EXCEPT ![t] = FALSE]
    /\ UNCHANGED <<netVars, pollVars, handleVars, lockVars, ready_event, pc,
                   fd, hdle, req, mainVars, fault>>

JoinWait(t) ==
    /\ Running /\ joining = t /\ pc[t] = "done"
    /\ joining' = NoThread
    /\ unjoined' = unjoined \ {t}
    /\ UNCHANGED <<netVars, pollVars, handleVars, lockVars, ready_event,
                   threadVars, stop_task, main, fault>>

\* ~Http_Server(): every descriptor is closed, every handle deleted.
Delete ==
    /\ Running /\ main = "join" /\ unjoined = {}
    /\ main' = "deleted"
    /\ sock' = [f \in Fds |-> NoConn] /\ interest' = {} /\ ready' = {}
    /\ phase' = [c \in Conns |-> IF phase[c] = "new" THEN "new" ELSE "closed"]
    /\ live' = [c \in Conns |-> live[c] /\ \A f \in Fds : m_fd_set[f] # c]
    /\ UNCHANGED <<peer, sent, owes, rx, replies, now_connections, m_fd_set,
                   ref, read_buf, lockVars, ready_event, threadVars, stop_task,
                   unjoined, joining, fault>>

\* The process is gone, by return from main() or by a fault.
Ended == ~Running /\ UNCHANGED vars

-----------------------------------------------------------------------------
Client == \E c \in Conns : \/ Connect(c) \/ SendBody(c)
                           \/ \E k \in Kinds : SendHeader(c, k)
                           \/ \E x \in PeerFaults : PeerFault(c, x)

svc(t) == \/ LoopTest(t) \/ LockEpoll(t) \/ EpollWait(t) \/ EpollEintr(t)
          \/ TakeListen(t) \/ TakePipe(t) \/ TakeConn(t)
          \/ AcceptEnd(t) \/ create_handle(t) \/ AddNew(t)
          \/ \E c \in Conns : Accept(t, c) \/ AcceptRefuse(t, c)

recv_request(t) ==
    \/ get_handle(t) \/ AssertHandle(t) \/ UseAfterFree(t)
    \/ ReadHeader(t) \/ GetInfo(t) \/ HeaderFails(t)
    \/ ReadBody(t) \/ BodyFails(t) \/ EmptyBodyCrash(t) \/ EmptyBodyReturn(t)
    \/ send_result(t) \/ SendFails(t)
    \/ ReleaseKeep(t) \/ ReleaseClose(t) \/ EraseHandle(t) \/ ReleaseShared(t)
    \/ ReAdd(t)

Main == StopFlag \/ StopPipe \/ Delete
        \/ \E t \in Threads : JoinKill(t) \/ JoinWait(t)

Next == \/ Client \/ Main \/ Ended
        \/ \E t \in Threads : svc(t) \/ recv_request(t) \/ SendSpinEnds(t)
                              \/ SigHandled(t)

Spec == Init /\ [][Next]_vars

(***************************************************************************)
(* Fairness: the scheduler runs every receiver thread and the main thread. *)
(* Clients, signals and the way out of a spinning writen_timeout() get     *)
(* none.  A lock is taken with weak fairness only.                         *)
(***************************************************************************)
Fairness ==
    /\ \A t \in Threads : WF_vars(svc(t) \/ recv_request(t))
    /\ WF_vars(StopPipe \/ Delete \/ \E t \in Threads : JoinKill(t) \/ JoinWait(t))

FairSpec == Spec /\ Fairness

-----------------------------------------------------------------------------
(***************************************************************************)
(* Properties.                                                             *)
(***************************************************************************)
Serving == {"header", "body", "send", "release"}
Owning == Serving \cup {"get", "erase", "readd", "insert", "addnew"}
Holders(c) == {t \in Threads : pc[t] \in Serving /\ hdle[t] = c}

(* recv_request() works on _read_buf and the socket without a lock, so one *)
(* connection must never be in the hands of two threads; and _ref, which   *)
(* decides in release_handle() whether to close, must count exactly the    *)
(* threads between get_handle() and release_handle().                      *)
SingleOwner ==
    \A c \in Conns : /\ \A t, u \in Holders(c) : t = u
                     /\ live[c] => ref[c] = IF Holders(c) = {} THEN 0 ELSE 1

(* assert(hdle) in recv_request() holds, no thread touches a handle that   *)
(* release_handle() has deleted, and no request crashes the process.       *)
NoFault == fault = "none"

(* While t serves handle h, its descriptor still denotes the connection    *)
(* that h was created for: requests are read from, and answers written to, *)
(* the client whose handle is held, although descriptors are reused.       *)
ServesOwnSocket ==
    \A t \in Threads : pc[t] \in Serving => sock[fd[t]] = hdle[t]

(* No open connection is lost: it is registered with epoll, or one thread  *)
(* is working on it and will register or close it.                         *)
NoOrphan ==
    main # "deleted" =>
    \A f \in Fds : sock[f] # NoConn =>
        f \in interest \/ \E t \in Threads : fd[t] = f /\ pc[t] \in Owning

(* insert_handle() never meets an old entry ("insert map error!!"):        *)
(* release_handle() closes the descriptor before it erases the entry, but  *)
(* a thread that accepts the same descriptor has to wait for _map_mutex.   *)
InsertFindsFree ==
    \A t \in Threads : pc[t] = "insert" /\ map_mutex = NoThread
                          => m_fd_set[fd[t]] = NoConn

(* _now_connections counts the open sockets (and one that release_handle() *)
(* has closed but not yet subtracted), and stays within MAX_FD_NUM.        *)
ConnectionCount ==
    main # "deleted" =>
    /\ now_connections = Cardinality({f \in Fds : sock[f] # NoConn})
                       + Cardinality({t \in Threads : pc[t] = "erase"})
    /\ now_connections <= MAX_FD_NUM

(* The assertion of recv_request(): a descriptor taken from the event      *)
(* array has a handle when get_handle() looks it up.                       *)
AssertHdle ==
    \A t \in Threads : pc[t] = "get" /\ map_mutex = NoThread
                          => m_fd_set[fd[t]] # NoConn

(* As long as no client asks for a short connection, release_handle(hdle,  *)
(* true) closes the connection whose client has gone or has fallen silent: *)
(* its caller holds the last reference, however many receivers there are.  *)
(* With short connections two receivers may share a handle; neither of     *)
(* them then closes it, as release() is called once more for the log.      *)
CloseRequestCloses ==
    \A t \in Threads : pc[t] = "release" /\ req[t] # "keep" /\ live[hdle[t]]
                          => ref[hdle[t]] = 1

(* The receiver is inside writen_timeout() with a connection that its peer *)
(* has reset: write() returns -1 and the loop goes round.                  *)
Spinning(t) == pc[t] = "send" /\ PeerOf(t) = "rst"

(* babyEasy has dropped a request without content: the handle keeps its    *)
(* reference although no thread works on it.                               *)
Abandoned(c) == live[c] /\ ref[c] > 0 /\ Holders(c) = {}

(* A request that has arrived completely is answered, unless its           *)
(* connection is closed, its client has gone or reads no longer, babyEasy  *)
(* has dropped it, or the server is told to stop.                          *)
RequestAnswered ==
    \A c \in Conns :
        (sent[c] > replies[c] /\ ~owes[c]) ~>
        \/ sent[c] = replies[c] \/ phase[c] = "closed" \/ stop_task
        \/ peer[c] \in {"rst", "stall"} \/ Abandoned(c)

(* stop() returns and the server is deleted: the one byte in the pipe is   *)
(* enough to get every thread out of svc(), but for one that is spinning.  *)
StopCompletes == stop_task ~> (main = "deleted" \/ \E t \in Threads : Spinning(t))

-----------------------------------------------------------------------------
(***************************************************************************)
(* The invariant behind SingleOwner, NoFault, ServesOwnSocket and NoOrphan *)
(* when no client asks for a short connection.  A descriptor is, at any    *)
(* time, either registered with epoll or in the hands of one thread; only  *)
(* the entry that release_handle() is erasing may disagree with the kernel *)
(* about what a descriptor denotes.                                        *)
(***************************************************************************)
Working == Owning \ {"erase"}
Looping == {"epoll", "dispatch", "accept", "insert", "addnew"}

FdInv == \A t \in Threads :
            /\ pc[t] \in Owning => fd[t] \in Fds
            /\ pc[t] \in Serving \cup {"erase"} => hdle[t] \in Conns

LockInv == \A t \in Threads : /\ pc[t] \in Looping => epoll_mutex = t
                              /\ pc[t] = "erase" => map_mutex = t

EpollInv == /\ {PipeFd, ListenFd} \subseteq interest
            /\ ready_event \subseteq interest
            /\ \A f \in Fds : f \in interest => sock[f] # NoConn

OwnInv == \A t \in Threads : pc[t] \in Working =>
            /\ sock[fd[t]] # NoConn
            /\ fd[t] \notin interest
            /\ \A u \in Threads : pc[u] \in Working /\ fd[u] = fd[t] => u = t

SockInv == /\ \A f, g \in Fds : sock[f] = sock[g] /\ sock[f] # NoConn => f = g
           /\ \A f \in Fds : sock[f] # NoConn => phase[sock[f]] = "open"

Inserting(f) == \E t \in Threads : pc[t] = "insert" /\ fd[t] = f
Erasing(f) == \E t \in Threads : pc[t] = "erase" /\ fd[t] = f

MapInv ==
    /\ \A f \in Fds : sock[f] # NoConn /\ m_fd_set[f] # sock[f] => Inserting(f)
    /\ \A f \in Fds : m_fd_set[f] # NoConn =>
          live[m_fd_set[f]] /\ (m_fd_set[f] # sock[f] => Erasing(f))
    /\ \A t \in Threads : pc[t] = "erase" =>
          m_fd_set[fd[t]] = hdle[t] /\ phase[hdle[t]] = "closed"
    /\ \A t \in Threads : pc[t] = "insert" => ~live[sock[fd[t]]]
    /\ \A c \in Conns : live[c] => \E f \in Fds : m_fd_set[f] = c
    /\ \A c \in Conns : phase[c] \in {"new", "pending"} => ~live[c]

ServeInv == \A t \in Threads :
               pc[t] \in Serving \cup {"readd"} => hdle[t] = sock[fd[t]]

Held(c) == \E t \in Threads : pc[t] \in Serving /\ hdle[t] = c

RefInv == \A c \in Conns : ref[c] = IF Held(c) THEN 1 ELSE 0

ReqInv == \A t \in Threads : /\ pc[t] \in {"body", "send"} => req[t] = "keep"
                             /\ req[t] \in {"keep", "none"}
                             /\ pc[t] = "erase" => req[t] = "none"

NoOrphanInv == \A f \in Fds : sock[f] # NoConn =>
                 f \in interest \/ \E t \in Threads : fd[t] = f /\ pc[t] \in Working

JoinInv == \A t \in Threads : t \notin unjoined => pc[t] = "done"

UpInv == /\ LockInv /\ EpollInv /\ OwnInv /\ SockInv /\ MapInv
         /\ ServeInv /\ RefInv /\ ReqInv /\ NoOrphanInv

DownInv == /\ \A t \in Threads : pc[t] = "done"
           /\ \A c \in Conns : ~live[c]

(* The inductive invariant: with only "keep" and "bad" requests, UpInv     *)
(* holds until the destructor runs, and then every thread has left svc().  *)
ServerInv == /\ TypeOK /\ FdInv /\ JoinInv /\ fault = "none"
             /\ main # "deleted" => UpInv
             /\ main = "deleted" => DownInv

(***************************************************************************)
(* What is left of it for any mix of requests, short connections included: *)
(* two threads may then hold one handle, and a thread may hold a deleted   *)
(* one, but while _map_mutex is free the map and the kernel agree on every *)
(* descriptor that has an entry.                                           *)
(***************************************************************************)
EntryInv ==
    /\ \A f \in Fds : m_fd_set[f] # NoConn =>
          live[m_fd_set[f]] /\ (m_fd_set[f] # sock[f] => Erasing(f))
    /\ \A f, g \in Fds : m_fd_set[f] = m_fd_set[g] /\ m_fd_set[f] # NoConn
                            => f = g
    /\ \A t \in Threads : pc[t] = "erase" =>
          m_fd_set[fd[t]] = hdle[t] /\ phase[hdle[t]] = "closed"
    /\ \A t \in Threads : pc[t] = "insert" =>
          sock[fd[t]] # NoConn /\ ~live[sock[fd[t]]]
    /\ \A t \in Threads : pc[t] \in Serving =>
          IF live[hdle[t]] THEN m_fd_set[fd[t]] = hdle[t]
                           ELSE phase[hdle[t]] = "closed"
    /\ \A c \in Conns : phase[c] \in {"new", "pending"} => ~live[c]
    /\ \A c \in Conns : phase[c] = "open" => \E f \in Fds : sock[f] = c

(* The inductive invariant behind InsertFindsFree and ConnectionCount. *)
BookInv == /\ TypeOK /\ FdInv /\ JoinInv
           /\ main # "deleted" => LockInv /\ SockInv /\ EntryInv
           /\ main = "deleted" => \A t \in Threads : pc[t] = "done"
           /\ ConnectionCount

-----------------------------------------------------------------------------
(***************************************************************************)
(* Refinement of HttpConnections.                                          *)
(***************************************************************************)
\* Thread t is between svc()'s choice of c's descriptor and the end of
\* recv_request().
WorksOn(t, c) ==
    \/ pc[t] = "get" /\ sock[fd[t]] = c
    \/ pc[t] \in Serving \cup {"erase", "readd"} /\ hdle[t] = c

Worked(c) == \E t \in Threads : WorksOn(t, c)
WorkerOf(c) == IF Worked(c) THEN CHOOSE t \in Threads : WorksOn(t, c)
               ELSE NoThread

st == [c \in Conns |-> IF phase[c] = "pending" THEN "queued" ELSE phase[c]]
owner == [c \in Conns |-> WorkerOf(c)]
duty == [c \in Conns |->
            CASE ~Worked(c) -> "idle"
              [] Worked(c) /\ pc[WorkerOf(c)] \in {"get", "header", "body", "send"}
                    -> "reading"
              [] OTHER -> "done"]

Connections == INSTANCE HttpConnections WITH
                   Capacity <- MAX_FD_NUM, answers <- replies

(* Http_Server implements HttpConnections: under threads, epoll, descriptor *)
(* reuse and reference counts every connection keeps its life cycle.        *)
ImplementsConnections == Connections!Spec

=============================================================================
