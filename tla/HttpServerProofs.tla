-------------------------- MODULE HttpServerProofs --------------------------
(***************************************************************************)
(* Proofs about HttpServer, for any number of threads, connections and     *)
(* descriptors.                                                            *)
(***************************************************************************)
EXTENDS HttpServer, FiniteSetTheorems, TLAPS

USE DEF netVars, pollVars, handleVars, lockVars, threadVars, mainVars,
        Running, At, Goto, Return, Holding

-----------------------------------------------------------------------------
(***************************************************************************)
(* Sequences: reading takes a prefix off one sequence and appends it to    *)
(* another.                                                                *)
(***************************************************************************)
(* What a read() takes from the socket, and what it leaves, are tokens. *)
LEMMA SeqParts ==
    ASSUME NEW S, NEW r \in Seq(S), NEW n \in 1..Len(r)
    PROVE  /\ SubSeq(r, 1, n) \in Seq(S)
           /\ SubSeq(r, n + 1, Len(r)) \in Seq(S)
OBVIOUS

(* Consuming the first token leaves a sequence of tokens. *)
LEMMA SeqTail ==
    ASSUME NEW S, NEW r \in Seq(S), r # <<>>
    PROVE  Tail(r) \in Seq(S)
OBVIOUS

(* Appending what was read to _read_buf gives a sequence of tokens. *)
LEMMA SeqCat ==
    ASSUME NEW S, NEW r \in Seq(S), NEW s \in Seq(S)
    PROVE  s \o r \in Seq(S)
OBVIOUS

-----------------------------------------------------------------------------
(***************************************************************************)
(* Type correctness.  TypeOK needs two more facts: a thread that works on  *)
(* a connection has a connection's descriptor and handle in its locals,    *)
(* and the pipe and the listening socket stay registered.                  *)
(***************************************************************************)
Registered == main # "deleted" => {PipeFd, ListenFd} \subseteq interest

TypeInv == TypeOK /\ FdInv /\ Registered


(* Clients keep the types. *)
LEMMA ClientTypes ==
    ASSUME TypeInv, NEW c \in Conns,
           \/ Connect(c)
           \/ \E k \in Kinds : SendHeader(c, k)
           \/ SendBody(c)
           \/ \E x \in PeerFaults : PeerFault(c, x)
    PROVE  TypeInv'
<1>0. /\ NetType /\ PollType /\ HandleType /\ ThreadType /\ MainType
      /\ FdInv /\ Registered
    BY DEF TypeInv, TypeOK
<1>1. CASE Connect(c)
    BY <1>1, <1>0, KindAssumption DEF Connect, TypeInv, TypeOK, NetType,
       PollType, HandleType, ThreadType, MainType, FdInv, Registered
<1>2. ASSUME NEW k \in Kinds, SendHeader(c, k)
      PROVE  TypeInv'
    <2>1. NetType'
        BY <1>2, <1>0, KindAssumption DEF SendHeader, NetType, Tokens
    <2>2. PollType'
        BY <1>2, <1>0 DEF SendHeader, PollType, AllFds, Edge, FdsOf
    <2>3. HandleType'
        BY <1>2, <1>0 DEF SendHeader, HandleType
    <2>4. ThreadType'
        BY <1>2, <1>0 DEF SendHeader, ThreadType, PCs, AllFds
    <2>5. MainType'
        BY <1>2, <1>0 DEF SendHeader, MainType
    <2>6. FdInv'
        BY <1>2, <1>0 DEF SendHeader, FdInv, ThreadType, Owning, Serving
    <2>7. Registered'
        BY <1>2, <1>0 DEF SendHeader, Registered
    <2> QED BY <2>1, <2>2, <2>3, <2>4, <2>5, <2>6, <2>7 DEF TypeInv, TypeOK
<1>3. CASE SendBody(c)
    <2>1. NetType'
        BY <1>3, <1>0, KindAssumption DEF SendBody, NetType, Tokens
    <2>2. PollType'
        BY <1>3, <1>0 DEF SendBody, PollType, AllFds, Edge, FdsOf
    <2>3. HandleType'
        BY <1>3, <1>0 DEF SendBody, HandleType
    <2>4. ThreadType'
        BY <1>3, <1>0 DEF SendBody, ThreadType, PCs, AllFds
    <2>5. MainType'
        BY <1>3, <1>0 DEF SendBody, MainType
    <2>6. FdInv'
        BY <1>3, <1>0 DEF SendBody, FdInv, ThreadType, Owning, Serving
    <2>7. Registered'
        BY <1>3, <1>0 DEF SendBody, Registered
    <2> QED BY <2>1, <2>2, <2>3, <2>4, <2>5, <2>6, <2>7 DEF TypeInv, TypeOK
<1>4. ASSUME NEW x \in PeerFaults, PeerFault(c, x)
      PROVE  TypeInv'
    <2>1. NetType'
        BY <1>4, <1>0, KindAssumption DEF PeerFault, NetType, Tokens
    <2>2. PollType'
        BY <1>4, <1>0 DEF PeerFault, PollType, AllFds, Edge, FdsOf
    <2>3. HandleType'
        BY <1>4, <1>0 DEF PeerFault, HandleType
    <2>4. ThreadType'
        BY <1>4, <1>0 DEF PeerFault, ThreadType, PCs, AllFds
    <2>5. MainType'
        BY <1>4, <1>0 DEF PeerFault, MainType
    <2>6. FdInv'
        BY <1>4, <1>0 DEF PeerFault, FdInv, ThreadType, Owning, Serving
    <2>7. Registered'
        BY <1>4, <1>0 DEF PeerFault, Registered
    <2> QED BY <2>1, <2>2, <2>3, <2>4, <2>5, <2>6, <2>7 DEF TypeInv, TypeOK
<1> QED BY <1>1, <1>2, <1>3, <1>4

(* The event loop of svc() keeps the types. *)
LEMMA LoopTypes ==
    ASSUME TypeInv, NEW t \in Threads,
           \/ LoopTest(t) \/ LockEpoll(t) \/ EpollWait(t) \/ EpollEintr(t)
           \/ TakeListen(t) \/ TakePipe(t) \/ TakeConn(t)
    PROVE  TypeInv'
<1>0. /\ NetType /\ PollType /\ HandleType /\ ThreadType /\ MainType
      /\ FdInv /\ Registered
    BY DEF TypeInv, TypeOK
<1>1. CASE LoopTest(t)
    BY <1>1, <1>0, KindAssumption DEF LoopTest, TypeInv, TypeOK, NetType,
       PollType, HandleType, ThreadType, MainType, FdInv, Registered, Owning,
       Serving, PCs, AllFds, PipeFd, ListenFd
<1>2. CASE LockEpoll(t)
    <2>1. NetType'
        BY <1>2, <1>0 DEF LockEpoll, NetType
    <2>2. PollType'
        BY <1>2, <1>0 DEF LockEpoll, PollType
    <2>3. HandleType'
        BY <1>2, <1>0 DEF LockEpoll, HandleType
    <2>4. ThreadType'
        <3>1. CASE stop_task BY <3>1, <1>2, <1>0 DEF LockEpoll, ThreadType, PCs
        <3>2. CASE ~stop_task BY <3>2, <1>2, <1>0 DEF LockEpoll, ThreadType,
        PCs
        <3> QED BY <3>1, <3>2
    <2>5. MainType'
        BY <1>2, <1>0 DEF LockEpoll, MainType
    <2>6. FdInv'
        BY <1>2, <1>0 DEF LockEpoll, FdInv, ThreadType, Owning, Serving
    <2>7. Registered'
        BY <1>2, <1>0 DEF LockEpoll, Registered
    <2> QED BY <2>1, <2>2, <2>3, <2>4, <2>5, <2>6, <2>7 DEF TypeInv, TypeOK
<1>3. CASE EpollWait(t)
    <2>1. NetType'
        BY <1>3, <1>0 DEF EpollWait, NetType
    <2>2. PollType'
        BY <1>3, <1>0 DEF EpollWait, PollType
    <2>3. HandleType'
        BY <1>3, <1>0 DEF EpollWait, HandleType
    <2>4. ThreadType'
        BY <1>3, <1>0 DEF EpollWait, ThreadType, PCs, AllFds
    <2>5. MainType'
        BY <1>3, <1>0 DEF EpollWait, MainType
    <2>6. FdInv'
        BY <1>3, <1>0 DEF EpollWait, FdInv, ThreadType, Owning, Serving
    <2>7. Registered'
        BY <1>3, <1>0 DEF EpollWait, Registered
    <2> QED BY <2>1, <2>2, <2>3, <2>4, <2>5, <2>6, <2>7 DEF TypeInv, TypeOK
<1>4. CASE EpollEintr(t)
    BY <1>4, <1>0, KindAssumption DEF EpollEintr, TypeInv, TypeOK, NetType,
       PollType, HandleType, ThreadType, MainType, FdInv, Registered, Owning,
       Serving, PCs, AllFds, PipeFd, ListenFd
<1>5. CASE TakeListen(t)
    BY <1>5, <1>0, KindAssumption DEF TakeListen, TypeInv, TypeOK, NetType,
       PollType, HandleType, ThreadType, MainType, FdInv, Registered, Owning,
       Serving, PCs, AllFds, PipeFd, ListenFd
<1>6. CASE TakePipe(t)
    BY <1>6, <1>0, KindAssumption DEF TakePipe, TypeInv, TypeOK, NetType,
       PollType, HandleType, ThreadType, MainType, FdInv, Registered, Owning,
       Serving, PCs, AllFds, PipeFd, ListenFd
<1>7. CASE TakeConn(t)
    <2>1. NetType'
        BY <1>7, <1>0 DEF TakeConn, NetType
    <2>2. PollType'
        BY <1>7, <1>0 DEF TakeConn, PollType, AllFds, del_input_fd
    <2>3. HandleType'
        BY <1>7, <1>0 DEF TakeConn, HandleType
    <2>4. ThreadType'
        BY <1>7, <1>0 DEF TakeConn, ThreadType, PCs, AllFds
    <2>5. MainType'
        BY <1>7, <1>0 DEF TakeConn, MainType
    <2>6. FdInv'
        BY <1>7, <1>0 DEF TakeConn, FdInv, ThreadType, Owning, Serving
    <2>7. Registered'
        BY <1>7, <1>0 DEF TakeConn, Registered, del_input_fd, PipeFd,
           ListenFd, Fds
    <2> QED BY <2>1, <2>2, <2>3, <2>4, <2>5, <2>6, <2>7 DEF TypeInv, TypeOK
<1> QED BY <1>1, <1>2, <1>3, <1>4, <1>5, <1>6, <1>7

(* The accept loop of svc() keeps the types. *)
LEMMA AcceptTypes ==
    ASSUME TypeInv, NEW t \in Threads,
           \/ \E c \in Conns : Accept(t, c)
           \/ \E c \in Conns : AcceptRefuse(t, c)
           \/ AcceptEnd(t) \/ create_handle(t) \/ AddNew(t)
    PROVE  TypeInv'
<1>0. /\ NetType /\ PollType /\ HandleType /\ ThreadType /\ MainType
      /\ FdInv /\ Registered
    BY DEF TypeInv, TypeOK
<1>1. ASSUME NEW c \in Conns, Accept(t, c)
      PROVE  TypeInv'
    <2>1. NetType'
        BY <1>1, <1>0 DEF Accept, NetType
    <2>2. PollType'
        BY <1>1, <1>0 DEF Accept, PollType, AllFds, FreeFds
    <2>3. HandleType'
        BY <1>1, <1>0 DEF Accept, HandleType
    <2>4. ThreadType'
        BY <1>1, <1>0 DEF Accept, ThreadType, PCs, AllFds, FreeFds
    <2>5. MainType'
        BY <1>1, <1>0 DEF Accept, MainType
    <2>6. FdInv'
        BY <1>1, <1>0 DEF Accept, FdInv, ThreadType, Owning, Serving, FreeFds
    <2>7. Registered'
        BY <1>1, <1>0 DEF Accept, Registered
    <2> QED BY <2>1, <2>2, <2>3, <2>4, <2>5, <2>6, <2>7 DEF TypeInv, TypeOK
<1>2. ASSUME NEW c \in Conns, AcceptRefuse(t, c)
      PROVE  TypeInv'
    BY <1>2, <1>0, KindAssumption DEF AcceptRefuse, TypeInv, TypeOK, NetType,
       PollType, HandleType, ThreadType, MainType, FdInv, Registered
<1>3. CASE AcceptEnd(t)
    BY <1>3, <1>0, KindAssumption DEF AcceptEnd, TypeInv, TypeOK, NetType,
       PollType, HandleType, ThreadType, MainType, FdInv, Registered, Owning,
       Serving, PCs, AllFds, PipeFd, ListenFd
<1>4. CASE create_handle(t)
    <2>1. NetType'
        BY <1>4, <1>0 DEF create_handle, NetType
    <2>2. PollType'
        BY <1>4, <1>0 DEF create_handle, PollType
    <2>3. HandleType'
        BY <1>4, <1>0 DEF create_handle, HandleType, PollType, FdInv, Owning
    <2>4. ThreadType'
        BY <1>4, <1>0 DEF create_handle, ThreadType, PCs, AllFds
    <2>5. MainType'
        BY <1>4, <1>0 DEF create_handle, MainType
    <2>6. FdInv'
        BY <1>4, <1>0 DEF create_handle, FdInv, ThreadType, Owning, Serving
    <2>7. Registered'
        BY <1>4, <1>0 DEF create_handle, Registered
    <2> QED BY <2>1, <2>2, <2>3, <2>4, <2>5, <2>6, <2>7 DEF TypeInv, TypeOK
<1>5. CASE AddNew(t)
    <2>1. NetType'
        BY <1>5, <1>0 DEF AddNew, NetType
    <2>2. PollType'
        BY <1>5, <1>0 DEF AddNew, PollType, ThreadType, AllFds, add_input_fd
    <2>3. HandleType'
        BY <1>5, <1>0 DEF AddNew, HandleType
    <2>4. ThreadType'
        BY <1>5, <1>0 DEF AddNew, ThreadType, PCs, AllFds
    <2>5. MainType'
        BY <1>5, <1>0 DEF AddNew, MainType
    <2>6. FdInv'
        BY <1>5, <1>0 DEF AddNew, FdInv, ThreadType, Owning, Serving
    <2>7. Registered'
        BY <1>5, <1>0 DEF AddNew, Registered, add_input_fd
    <2> QED BY <2>1, <2>2, <2>3, <2>4, <2>5, <2>6, <2>7 DEF TypeInv, TypeOK
<1> QED BY <1>1, <1>2, <1>3, <1>4, <1>5

(* recv_request(), up to the complete request, keeps the types. *)
LEMMA RecvTypes ==
    ASSUME TypeInv, NEW t \in Threads,
           \/ get_handle(t) \/ AssertHandle(t) \/ UseAfterFree(t)
           \/ ReadHeader(t) \/ GetInfo(t) \/ HeaderFails(t) \/ ReadBody(t)
           \/ BodyFails(t) \/ EmptyBodyCrash(t) \/ EmptyBodyReturn(t)
    PROVE  TypeInv'
<1>0. /\ NetType /\ PollType /\ HandleType /\ ThreadType /\ MainType
      /\ FdInv /\ Registered
    BY DEF TypeInv, TypeOK
<1>1. CASE get_handle(t)
    <2>1. NetType'
        BY <1>1, <1>0 DEF get_handle, NetType
    <2>2. PollType'
        BY <1>1, <1>0 DEF get_handle, PollType
    <2>3. HandleType'
        <3>1. ref' \in [Conns -> Int]
            BY <1>1, <1>0 DEF get_handle, HandleType, FdInv, Owning
        <3> QED BY <3>1, <1>1, <1>0 DEF get_handle, HandleType
    <2>4. ThreadType'
        BY <1>1, <1>0 DEF get_handle, ThreadType, PCs, AllFds, HandleType,
           FdInv, Owning
    <2>5. MainType'
        BY <1>1, <1>0 DEF get_handle, MainType
    <2>6. FdInv'
        BY <1>1, <1>0 DEF get_handle, FdInv, ThreadType, Owning, Serving,
           HandleType
    <2>7. Registered'
        BY <1>1, <1>0 DEF get_handle, Registered
    <2> QED BY <2>1, <2>2, <2>3, <2>4, <2>5, <2>6, <2>7 DEF TypeInv, TypeOK
<1>2. CASE AssertHandle(t)
    BY <1>2, <1>0, KindAssumption DEF AssertHandle, TypeInv, TypeOK, NetType,
       PollType, HandleType, ThreadType, MainType, FdInv, Registered
<1>3. CASE UseAfterFree(t)
    BY <1>3, <1>0, KindAssumption DEF UseAfterFree, TypeInv, TypeOK, NetType,
       PollType, HandleType, ThreadType, MainType, FdInv, Registered
<1>4. CASE ReadHeader(t)
    <2> DEFINE c == sock[fd[t]]
    <2>a. c \in Conns
        <3>1. pc[t] = "header" /\ c # NoConn
            BY <1>4 DEF ReadHeader, NoData, Holding, At
        <3>2. fd[t] \in Fds
            BY <3>1, <1>0 DEF FdInv, Owning, Serving
        <3> QED BY <3>1, <3>2, <1>0 DEF PollType
    <2>b. PICK n \in 1..Len(rx[c]) :
              /\ read_buf' = [read_buf EXCEPT ![hdle[t]] =
                                 @ \o SubSeq(rx[c], 1, n)]
              /\ rx' = [rx EXCEPT ![c] = SubSeq(@, n + 1, Len(@))]
        BY <1>4 DEF ReadHeader
    <2>c. /\ SubSeq(rx[c], 1, n) \in Seq(Tokens)
          /\ SubSeq(rx[c], n + 1, Len(rx[c])) \in Seq(Tokens)
        BY <2>a, <1>0, SeqParts DEF NetType
    <2> HIDE DEF c
    <2>d. read_buf' \in [Conns -> Seq(Tokens)]
        BY <2>b, <2>c, <1>0, SeqCat DEF HandleType
    <2>e. rx' \in [Conns -> Seq(Tokens)]
        BY <2>a, <2>b, <2>c, <1>0 DEF NetType
    <2>1. NetType'
        BY <2>e, <1>4, <1>0 DEF ReadHeader, NetType
    <2>2. PollType'
        BY <1>4, <1>0 DEF ReadHeader, PollType
    <2>3. HandleType'
        BY <2>d, <1>4, <1>0 DEF ReadHeader, HandleType
    <2>4. ThreadType'
        BY <1>4, <1>0 DEF ReadHeader, ThreadType, PCs, AllFds
    <2>5. MainType'
        BY <1>4, <1>0 DEF ReadHeader, MainType
    <2>6. FdInv'
        BY <1>4, <1>0 DEF ReadHeader, FdInv, ThreadType, Owning, Serving
    <2>7. Registered'
        BY <1>4, <1>0 DEF ReadHeader, Registered
    <2> QED BY <2>1, <2>2, <2>3, <2>4, <2>5, <2>6, <2>7 DEF TypeInv, TypeOK
<1>5. CASE GetInfo(t)
    <2> DEFINE s == read_buf[hdle[t]]
    <2>a. s \in Seq(Tokens)
        BY <1>5, <1>0 DEF GetInfo, HandleType, FdInv, Serving
    <2>b. PICK i \in 1..Len(s) :
              /\ FirstHeader(s, i)
              /\ read_buf' = [read_buf EXCEPT ![hdle[t]] =
                                 SubSeq(s, i + 1, Len(s))]
              /\ req' = [req EXCEPT ![t] = IF s[i] = "bad" THEN "none"
                                           ELSE s[i]]
              /\ Goto(t, IF s[i] = "bad" THEN "release" ELSE "body")
        BY <1>5 DEF GetInfo
    <2>c. SubSeq(s, i + 1, Len(s)) \in Seq(Tokens) /\ s[i] \in Kinds
        BY <2>a, <2>b, SeqParts DEF FirstHeader, Tokens
    <2> HIDE DEF s
    <2>d. read_buf' \in [Conns -> Seq(Tokens)]
        BY <2>b, <2>c, <1>0 DEF HandleType
    <2>e. req' \in [Threads -> Kinds \cup {"none"}]
        BY <2>b, <2>c, <1>0 DEF ThreadType
    <2>f. pc' \in [Threads -> PCs]
        BY <2>b, <1>0 DEF ThreadType, PCs
    <2>1. NetType'
        BY <1>5, <1>0 DEF GetInfo, NetType
    <2>2. PollType'
        BY <1>5, <1>0 DEF GetInfo, PollType
    <2>3. HandleType'
        BY <2>d, <1>5, <1>0 DEF GetInfo, HandleType
    <2>4. ThreadType'
        BY <2>e, <2>f, <1>5, <1>0 DEF GetInfo, ThreadType
    <2>5. MainType'
        BY <1>5, <1>0 DEF GetInfo, MainType
    <2>6. FdInv'
        BY <1>5, <1>0 DEF GetInfo, FdInv, ThreadType, Owning, Serving
    <2>7. Registered'
        BY <1>5, <1>0 DEF GetInfo, Registered
    <2> QED BY <2>1, <2>2, <2>3, <2>4, <2>5, <2>6, <2>7 DEF TypeInv, TypeOK
<1>6. CASE HeaderFails(t)
    <2>1. NetType'
        BY <1>6, <1>0 DEF HeaderFails, NetType
    <2>2. PollType'
        BY <1>6, <1>0 DEF HeaderFails, PollType
    <2>3. HandleType'
        BY <1>6, <1>0 DEF HeaderFails, HandleType
    <2>4. ThreadType'
        BY <1>6, <1>0 DEF HeaderFails, ThreadType, PCs, AllFds, PipeFd,
           ListenFd
    <2>5. MainType'
        BY <1>6, <1>0 DEF HeaderFails, MainType
    <2>6. FdInv'
        BY <1>6, <1>0 DEF HeaderFails, FdInv, ThreadType, Owning, Serving
    <2>7. Registered'
        BY <1>6, <1>0 DEF HeaderFails, Registered
    <2> QED BY <2>1, <2>2, <2>3, <2>4, <2>5, <2>6, <2>7 DEF TypeInv, TypeOK
<1>7. CASE ReadBody(t)
    <2>1. NetType'
        <3>1. CASE rx' = rx
            BY <3>1, <1>7, <1>0 DEF ReadBody, NetType
        <3>2. ASSUME NEW c \in Conns, rx[c] # <<>>,
                     rx' = [rx EXCEPT ![c] = Tail(@)]
              PROVE  rx' \in [Conns -> Seq(Tokens)]
            <4>1. Tail(rx[c]) \in Seq(Tokens)
                BY <3>2, <1>0, SeqTail DEF NetType
            <4> QED BY <4>1, <3>2, <1>0 DEF NetType
        <3>3. rx' = rx \/ \E c \in Conns : /\ rx[c] # <<>>
                                         /\ rx' = [rx EXCEPT ![c] = Tail(@)]
            BY <1>7, <1>0 DEF ReadBody, NoData, PollType, FdInv, Owning,
               Serving
        <3> QED BY <3>1, <3>2, <3>3, <1>7, <1>0 DEF ReadBody, NetType
    <2>2. PollType'
        BY <1>7, <1>0 DEF ReadBody, PollType
    <2>3. HandleType'
        <3>1. CASE read_buf' = read_buf
            BY <3>1, <1>7, <1>0 DEF ReadBody, HandleType
        <3>2. ASSUME NEW c \in Conns, read_buf[c] # <<>>,
                     read_buf' = [read_buf EXCEPT ![c] = Tail(@)]
              PROVE  read_buf' \in [Conns -> Seq(Tokens)]
            <4>1. Tail(read_buf[c]) \in Seq(Tokens)
                BY <3>2, <1>0, SeqTail DEF HandleType
            <4> QED BY <4>1, <3>2, <1>0 DEF HandleType
        <3>3. read_buf' = read_buf \/
              \E c \in Conns : /\ read_buf[c] # <<>>
                               /\ read_buf' = [read_buf EXCEPT ![c] = Tail(@)]
            BY <1>7, <1>0 DEF ReadBody, FdInv, Serving
        <3> QED BY <3>1, <3>2, <3>3, <1>7, <1>0 DEF ReadBody, HandleType
    <2>4. ThreadType'
        BY <1>7, <1>0 DEF ReadBody, ThreadType, PCs, AllFds
    <2>5. MainType'
        BY <1>7, <1>0 DEF ReadBody, MainType
    <2>6. FdInv'
        BY <1>7, <1>0 DEF ReadBody, FdInv, ThreadType, Owning, Serving
    <2>7. Registered'
        BY <1>7, <1>0 DEF ReadBody, Registered
    <2> QED BY <2>1, <2>2, <2>3, <2>4, <2>5, <2>6, <2>7 DEF TypeInv, TypeOK
<1>8. CASE BodyFails(t)
    BY <1>8, <1>0, KindAssumption DEF BodyFails, TypeInv, TypeOK, NetType,
       PollType, HandleType, ThreadType, MainType, FdInv, Registered, Owning,
       Serving, PCs, AllFds, PipeFd, ListenFd
<1>9. CASE EmptyBodyCrash(t)
    <2>1. NetType'
        BY <1>9, <1>0 DEF EmptyBodyCrash, NetType
    <2>2. PollType'
        BY <1>9, <1>0 DEF EmptyBodyCrash, PollType
    <2>3. HandleType'
        BY <1>9, <1>0 DEF EmptyBodyCrash, HandleType
    <2>4. ThreadType'
        BY <1>9, <1>0 DEF EmptyBodyCrash, ThreadType, PCs, AllFds, PipeFd,
           ListenFd
    <2>5. MainType'
        BY <1>9, <1>0 DEF EmptyBodyCrash, MainType
    <2>6. FdInv'
        BY <1>9, <1>0 DEF EmptyBodyCrash, FdInv, ThreadType, Owning, Serving
    <2>7. Registered'
        BY <1>9, <1>0 DEF EmptyBodyCrash, Registered
    <2> QED BY <2>1, <2>2, <2>3, <2>4, <2>5, <2>6, <2>7 DEF TypeInv, TypeOK
<1>10. CASE EmptyBodyReturn(t)
    <2>1. NetType'
        BY <1>10, <1>0 DEF EmptyBodyReturn, NetType
    <2>2. PollType'
        BY <1>10, <1>0 DEF EmptyBodyReturn, PollType
    <2>3. HandleType'
        BY <1>10, <1>0 DEF EmptyBodyReturn, HandleType
    <2>4. ThreadType'
        BY <1>10, <1>0 DEF EmptyBodyReturn, ThreadType, PCs, AllFds, PipeFd,
           ListenFd
    <2>5. MainType'
        BY <1>10, <1>0 DEF EmptyBodyReturn, MainType
    <2>6. FdInv'
        BY <1>10, <1>0 DEF EmptyBodyReturn, FdInv, ThreadType, Owning, Serving
    <2>7. Registered'
        BY <1>10, <1>0 DEF EmptyBodyReturn, Registered
    <2> QED BY <2>1, <2>2, <2>3, <2>4, <2>5, <2>6, <2>7 DEF TypeInv, TypeOK
<1> QED BY <1>1, <1>2, <1>3, <1>4, <1>5, <1>6, <1>7, <1>8, <1>9, <1>10

(* retrieve_worker() and release_handle() keep the types. *)
LEMMA ReplyTypes ==
    ASSUME TypeInv, NEW t \in Threads,
           \/ send_result(t) \/ SendFails(t) \/ SendSpinEnds(t)
           \/ ReleaseKeep(t) \/ ReleaseClose(t) \/ EraseHandle(t)
           \/ ReleaseShared(t) \/ ReAdd(t)
    PROVE  TypeInv'
<1>0. /\ NetType /\ PollType /\ HandleType /\ ThreadType /\ MainType
      /\ FdInv /\ Registered
    BY DEF TypeInv, TypeOK
<1>1. CASE send_result(t)
    <2>1. NetType'
        <3>1. replies' \in [Conns -> Nat]
            BY <1>1, <1>0 DEF send_result, PeerOf, NetType, PollType, FdInv,
               Owning, Serving
        <3> QED BY <3>1, <1>1, <1>0 DEF send_result, NetType
    <2>2. PollType'
        BY <1>1, <1>0 DEF send_result, PollType
    <2>3. HandleType'
        BY <1>1, <1>0 DEF send_result, HandleType
    <2>4. ThreadType'
        BY <1>1, <1>0 DEF send_result, ThreadType, PCs, AllFds
    <2>5. MainType'
        BY <1>1, <1>0 DEF send_result, MainType
    <2>6. FdInv'
        BY <1>1, <1>0 DEF send_result, FdInv, ThreadType, Owning, Serving
    <2>7. Registered'
        BY <1>1, <1>0 DEF send_result, Registered
    <2> QED BY <2>1, <2>2, <2>3, <2>4, <2>5, <2>6, <2>7 DEF TypeInv, TypeOK
<1>2. CASE SendFails(t)
    <2>1. NetType'
        BY <1>2, <1>0 DEF SendFails, NetType
    <2>2. PollType'
        BY <1>2, <1>0 DEF SendFails, PollType
    <2>3. HandleType'
        BY <1>2, <1>0 DEF SendFails, HandleType
    <2>4. ThreadType'
        BY <1>2, <1>0 DEF SendFails, ThreadType, PCs, AllFds
    <2>5. MainType'
        BY <1>2, <1>0 DEF SendFails, MainType
    <2>6. FdInv'
        BY <1>2, <1>0 DEF SendFails, FdInv, ThreadType, Owning, Serving
    <2>7. Registered'
        BY <1>2, <1>0 DEF SendFails, Registered
    <2> QED BY <2>1, <2>2, <2>3, <2>4, <2>5, <2>6, <2>7 DEF TypeInv, TypeOK
<1>3. CASE SendSpinEnds(t)
    BY <1>3, <1>0, KindAssumption DEF SendSpinEnds, TypeInv, TypeOK, NetType,
       PollType, HandleType, ThreadType, MainType, FdInv, Registered, Owning,
       Serving, PCs, AllFds, PipeFd, ListenFd
<1>4. CASE ReleaseKeep(t)
    <2>1. NetType'
        BY <1>4, <1>0 DEF ReleaseKeep, NetType
    <2>2. PollType'
        BY <1>4, <1>0 DEF ReleaseKeep, PollType
    <2>3. HandleType'
        <3>1. ref' \in [Conns -> Int]
            BY <1>4, <1>0 DEF ReleaseKeep, HandleType, FdInv, Serving
        <3> QED BY <3>1, <1>4, <1>0 DEF ReleaseKeep, HandleType
    <2>4. ThreadType'
        BY <1>4, <1>0 DEF ReleaseKeep, ThreadType, PCs, AllFds
    <2>5. MainType'
        BY <1>4, <1>0 DEF ReleaseKeep, MainType
    <2>6. FdInv'
        BY <1>4, <1>0 DEF ReleaseKeep, FdInv, ThreadType, Owning, Serving
    <2>7. Registered'
        BY <1>4, <1>0 DEF ReleaseKeep, Registered
    <2> QED BY <2>1, <2>2, <2>3, <2>4, <2>5, <2>6, <2>7 DEF TypeInv, TypeOK
<1>5. CASE ReleaseClose(t)
    <2>1. NetType'
        BY <1>5, <1>0 DEF ReleaseClose, NetType, CloseFd, PollType
    <2>2. PollType'
        BY <1>5, <1>0 DEF ReleaseClose, PollType, AllFds, CloseFd,
           del_input_fd
    <2>3. HandleType'
        <3>1. ref' \in [Conns -> Int]
            BY <1>5, <1>0 DEF ReleaseClose, HandleType, FdInv, Serving
        <3> QED BY <3>1, <1>5, <1>0 DEF ReleaseClose, HandleType
    <2>4. ThreadType'
        BY <1>5, <1>0 DEF ReleaseClose, ThreadType, PCs, AllFds
    <2>5. MainType'
        BY <1>5, <1>0 DEF ReleaseClose, MainType
    <2>6. FdInv'
        BY <1>5, <1>0 DEF ReleaseClose, FdInv, ThreadType, Owning, Serving
    <2>7. Registered'
        BY <1>5, <1>0 DEF ReleaseClose, Registered, del_input_fd, AllFds,
           PipeFd, ListenFd, Fds, FdInv, Owning, Serving
    <2> QED BY <2>1, <2>2, <2>3, <2>4, <2>5, <2>6, <2>7 DEF TypeInv, TypeOK
<1>6. CASE EraseHandle(t)
    <2>1. NetType'
        BY <1>6, <1>0 DEF EraseHandle, NetType
    <2>2. PollType'
        BY <1>6, <1>0 DEF EraseHandle, PollType
    <2>3. HandleType'
        <3>1. live' \in [Conns -> BOOLEAN]
            BY <1>6, <1>0 DEF EraseHandle, HandleType
        <3>2. m_fd_set' \in [Fds -> Conns \cup {NoConn}]
            BY <1>6, <1>0 DEF EraseHandle, HandleType
        <3>3. now_connections' \in Int
            BY <1>6, <1>0 DEF EraseHandle, HandleType
        <3> QED BY <3>1, <3>2, <3>3, <1>6, <1>0 DEF EraseHandle, HandleType
    <2>4. ThreadType'
        <3>1. CASE req[t] = "none"
            BY <3>1, <1>6, <1>0 DEF EraseHandle, AfterRelease, ThreadType,
               PCs, AllFds
        <3>2. CASE req[t] # "none"
            BY <3>2, <1>6, <1>0 DEF EraseHandle, AfterRelease, ThreadType,
               PCs, AllFds
        <3> QED BY <3>1, <3>2
    <2>5. MainType'
        BY <1>6, <1>0 DEF EraseHandle, MainType
    <2>6. FdInv'
        <3>1. CASE req[t] = "none"
            BY <3>1, <1>6, <1>0 DEF EraseHandle, AfterRelease, FdInv,
               ThreadType, Owning, Serving
        <3>2. CASE req[t] # "none"
            BY <3>2, <1>6, <1>0 DEF EraseHandle, AfterRelease, FdInv,
               ThreadType, Owning
        <3> QED BY <3>1, <3>2
    <2>7. Registered'
        BY <1>6, <1>0 DEF EraseHandle, Registered
    <2> QED BY <2>1, <2>2, <2>3, <2>4, <2>5, <2>6, <2>7 DEF TypeInv, TypeOK
<1>7. CASE ReleaseShared(t)
    <2>1. NetType'
        BY <1>7, <1>0 DEF ReleaseShared, NetType
    <2>2. PollType'
        BY <1>7, <1>0 DEF ReleaseShared, PollType
    <2>3. HandleType'
        <3>1. ref' \in [Conns -> Int]
            BY <1>7, <1>0 DEF ReleaseShared, HandleType, FdInv, Serving
        <3> QED BY <3>1, <1>7, <1>0 DEF ReleaseShared, HandleType
    <2>4. ThreadType'
        <3>1. CASE req[t] = "none"
            BY <3>1, <1>7, <1>0 DEF ReleaseShared, AfterRelease, ThreadType,
               PCs, AllFds
        <3>2. CASE req[t] # "none"
            BY <3>2, <1>7, <1>0 DEF ReleaseShared, AfterRelease, ThreadType,
               PCs, AllFds
        <3> QED BY <3>1, <3>2
    <2>5. MainType'
        BY <1>7, <1>0 DEF ReleaseShared, MainType
    <2>6. FdInv'
        <3>1. CASE req[t] = "none"
            BY <3>1, <1>7, <1>0 DEF ReleaseShared, AfterRelease, FdInv,
               ThreadType, Owning, Serving
        <3>2. CASE req[t] # "none"
            BY <3>2, <1>7, <1>0 DEF ReleaseShared, AfterRelease, FdInv,
               ThreadType, Owning, Serving
        <3> QED BY <3>1, <3>2
    <2>7. Registered'
        BY <1>7, <1>0 DEF ReleaseShared, Registered
    <2> QED BY <2>1, <2>2, <2>3, <2>4, <2>5, <2>6, <2>7 DEF TypeInv, TypeOK
<1>8. CASE ReAdd(t)
    <2>1. NetType'
        BY <1>8, <1>0 DEF ReAdd, NetType
    <2>2. PollType'
        BY <1>8, <1>0 DEF ReAdd, PollType, ThreadType, AllFds, add_input_fd
    <2>3. HandleType'
        BY <1>8, <1>0 DEF ReAdd, HandleType
    <2>4. ThreadType'
        BY <1>8, <1>0 DEF ReAdd, ThreadType, PCs, AllFds, PipeFd, ListenFd
    <2>5. MainType'
        BY <1>8, <1>0 DEF ReAdd, MainType
    <2>6. FdInv'
        BY <1>8, <1>0 DEF ReAdd, FdInv, ThreadType, Owning, Serving
    <2>7. Registered'
        BY <1>8, <1>0 DEF ReAdd, Registered, add_input_fd
    <2> QED BY <2>1, <2>2, <2>3, <2>4, <2>5, <2>6, <2>7 DEF TypeInv, TypeOK
<1> QED BY <1>1, <1>2, <1>3, <1>4, <1>5, <1>6, <1>7, <1>8

(* stop(), join() and the destructor keep the types. *)
LEMMA MainTypes ==
    ASSUME TypeInv,
           \/ StopFlag \/ StopPipe
           \/ \E t \in Threads : JoinKill(t)
           \/ \E t \in Threads : JoinWait(t)
           \/ \E t \in Threads : SigHandled(t)
           \/ Delete
    PROVE  TypeInv'
<1>0. /\ NetType /\ PollType /\ HandleType /\ ThreadType /\ MainType
      /\ FdInv /\ Registered
    BY DEF TypeInv, TypeOK
<1>1. CASE StopFlag
    BY <1>1, <1>0, KindAssumption DEF StopFlag, TypeInv, TypeOK, NetType,
       PollType, HandleType, ThreadType, MainType, FdInv, Registered
<1>2. CASE StopPipe
    BY <1>2, <1>0, KindAssumption DEF StopPipe, TypeInv, TypeOK, NetType,
       PollType, HandleType, ThreadType, MainType, FdInv, Registered
<1>3. ASSUME NEW t \in Threads, JoinKill(t)
      PROVE  TypeInv'
    BY <1>3, <1>0, KindAssumption DEF JoinKill, TypeInv, TypeOK, NetType,
       PollType, HandleType, ThreadType, MainType, FdInv, Registered
<1>4. ASSUME NEW t \in Threads, JoinWait(t)
      PROVE  TypeInv'
    BY <1>4, <1>0, KindAssumption DEF JoinWait, TypeInv, TypeOK, NetType,
       PollType, HandleType, ThreadType, MainType, FdInv, Registered
<1>5. ASSUME NEW t \in Threads, SigHandled(t)
      PROVE  TypeInv'
    BY <1>5, <1>0, KindAssumption DEF SigHandled, TypeInv, TypeOK, NetType,
       PollType, HandleType, ThreadType, MainType, FdInv, Registered
<1>6. CASE Delete
    BY <1>6, <1>0, KindAssumption DEF Delete, TypeInv, TypeOK, NetType,
       PollType, HandleType, ThreadType, MainType, FdInv, Registered
<1> QED BY <1>1, <1>2, <1>3, <1>4, <1>5, <1>6

(* Every step of the specification keeps the types. *)
LEMMA TypeStep == TypeInv /\ [Next]_vars => TypeInv'
<1> SUFFICES ASSUME TypeInv, [Next]_vars PROVE TypeInv'
    OBVIOUS
<1>1. CASE Client
    BY <1>1, ClientTypes DEF Client
<1>2. CASE Main
    BY <1>2, MainTypes DEF Main
<1>3. ASSUME NEW t \in Threads, svc(t) PROVE TypeInv'
    BY <1>3, LoopTypes, AcceptTypes DEF svc
<1>4. ASSUME NEW t \in Threads, recv_request(t) PROVE TypeInv'
    BY <1>4, RecvTypes, ReplyTypes DEF recv_request
<1>5. ASSUME NEW t \in Threads, SendSpinEnds(t) \/ SigHandled(t) PROVE TypeInv'
    BY <1>5, ReplyTypes, MainTypes
<1>6. CASE UNCHANGED vars
    BY <1>6 DEF vars, TypeInv, TypeOK, NetType, PollType, HandleType,
       ThreadType, MainType, FdInv, Registered
<1> QED BY <1>1, <1>2, <1>3, <1>4, <1>5, <1>6 DEF Next, Ended

(* The initial state after open(), register_handler() and activate() is    *)
(* well typed.                                                             *)
LEMMA TypeInit == Init => TypeInv
<1> SUFFICES ASSUME Init PROVE TypeInv
    OBVIOUS
<1>1. NetType
    BY DEF Init, NetType
<1>2. PollType
    BY DEF Init, PollType, AllFds
<1>3. HandleType
    BY DEF Init, HandleType
<1>4. ThreadType /\ MainType
    BY DEF Init, ThreadType, MainType, PCs, AllFds
<1>5. FdInv /\ Registered
    BY DEF Init, FdInv, Registered, Owning, Serving
<1> QED BY <1>1, <1>2, <1>3, <1>4, <1>5 DEF TypeInv, TypeOK

(* Http_Server, whatever its clients send and however many threads it has, *)
(* keeps the types of its state.                                           *)
THEOREM TypeCorrect == Spec => []TypeOK
<1>1. TypeInv => TypeOK
    BY DEF TypeInv
<1> QED BY <1>1, TypeInit, TypeStep, PTL DEF Spec

-----------------------------------------------------------------------------
(***************************************************************************)
(* The ownership invariant, when no client asks for a short connection and *)
(* every request has content.                                              *)
(***************************************************************************)
KeepOnly == Kinds \subseteq {"keep", "bad"}

\* A step that hands no descriptor or handle from one owner to another.
Quiet ==
    /\ UNCHANGED <<sock, interest, m_fd_set, live, ref>>
    /\ \A c \in Conns : \/ phase'[c] = phase[c]
                        \/ /\ phase[c] \in {"new", "pending"}
                           /\ phase'[c] \in {"pending", "closed"}
    /\ \A u \in Threads :
          \/ pc[u] \notin Owning /\ pc'[u] \notin Owning
          \/ /\ fd'[u] = fd[u] /\ hdle'[u] = hdle[u]
             /\ \/ pc'[u] = pc[u]
                \/ pc[u] \in Serving /\ pc'[u] \in Serving

(* A quiet step disturbs nothing that is said about owners: the threads in *)
(* recv_request(), their descriptors, the map and the reference counts.    *)
LEMMA QuietStep ==
    ASSUME TypeInv, TypeInv', UpInv, Quiet
    PROVE  OwnInv' /\ SockInv' /\ MapInv' /\ ServeInv' /\ RefInv' /\ NoOrphanInv'
<1>0. /\ ThreadType /\ ThreadType' /\ NetType /\ NetType' /\ PollType
      /\ OwnInv /\ SockInv /\ MapInv /\ ServeInv /\ RefInv /\ NoOrphanInv
    BY DEF TypeInv, TypeOK, UpInv
<1>1. \A u \in Threads :
          /\ pc'[u] \in Owning <=> pc[u] \in Owning
          /\ pc'[u] \in Working <=> pc[u] \in Working
          /\ pc'[u] \in Serving <=> pc[u] \in Serving
          /\ pc'[u] = "insert" <=> pc[u] = "insert"
          /\ pc'[u] = "erase" <=> pc[u] = "erase"
          /\ pc[u] \in Owning => fd'[u] = fd[u] /\ hdle'[u] = hdle[u]
    BY DEF Quiet, Owning, Working, Serving
<1>2. OwnInv'
    BY <1>0, <1>1 DEF OwnInv, Quiet, Working
<1>3. SockInv'
    BY <1>0 DEF SockInv, Quiet, PollType
<1>4. MapInv'
    <2>1. \A f \in Fds : /\ Inserting(f) => Inserting(f)'
                         /\ Erasing(f) => Erasing(f)'
        BY <1>1 DEF Inserting, Erasing, Owning
    <2>2. \A f \in Fds : sock'[f] # NoConn /\ m_fd_set'[f] # sock'[f]
                             => Inserting(f)'
        BY <2>1, <1>0 DEF MapInv, Quiet
    <2>3. \A f \in Fds : m_fd_set'[f] # NoConn =>
             live'[m_fd_set'[f]] /\ (m_fd_set'[f] # sock'[f] => Erasing(f)')
        BY <2>1, <1>0 DEF MapInv, Quiet
    <2>4. \A u \in Threads : pc'[u] = "erase" =>
             m_fd_set'[fd'[u]] = hdle'[u] /\ phase'[hdle'[u]] = "closed"
        <3> TAKE u \in Threads
        <3> HAVE pc'[u] = "erase"
        <3>1. pc[u] = "erase" /\ fd'[u] = fd[u] /\ hdle'[u] = hdle[u]
            BY <1>1 DEF Owning
        <3>2. hdle[u] \in Conns
            BY <3>1 DEF TypeInv, FdInv
        <3> QED BY <3>1, <3>2, <1>0 DEF MapInv, Quiet
    <2>5. \A u \in Threads : pc'[u] = "insert" => ~live'[sock'[fd'[u]]]
        BY <1>0, <1>1 DEF MapInv, Quiet, Owning
    <2>6. \A c \in Conns : live'[c] => \E f \in Fds : m_fd_set'[f] = c
        BY <1>0 DEF MapInv, Quiet
    <2>7. \A c \in Conns : phase'[c] \in {"new", "pending"} => ~live'[c]
        BY <1>0 DEF MapInv, Quiet
    <2> QED BY <2>2, <2>3, <2>4, <2>5, <2>6, <2>7 DEF MapInv
<1>5. ServeInv'
    BY <1>0, <1>1 DEF ServeInv, Quiet, Owning
<1>6. RefInv'
    <2>1. \A c \in Conns : Held(c)' <=> Held(c)
        BY <1>1 DEF Held, Owning
    <2> QED BY <2>1, <1>0 DEF RefInv, Quiet
<1>7. NoOrphanInv'
    BY <1>0, <1>1 DEF NoOrphanInv, Quiet, Working
<1> QED BY <1>2, <1>3, <1>4, <1>5, <1>6, <1>7

(* What clients do is quiet. *)
LEMMA QuietClients ==
    ASSUME TypeInv, KeepOnly, UpInv, JoinInv, NEW c \in Conns,
           \/ Connect(c)
           \/ \E k \in Kinds : SendHeader(c, k)
           \/ SendBody(c)
           \/ \E x \in PeerFaults : PeerFault(c, x)
    PROVE  Quiet /\ LockInv' /\ EpollInv' /\ ReqInv' /\ JoinInv'
<1>0. /\ ThreadType /\ NetType /\ PollType /\ HandleType /\ FdInv /\ LockInv
      /\ EpollInv /\ ReqInv
    BY DEF TypeInv, TypeOK, UpInv
<1>1. CASE Connect(c)
    BY <1>1, <1>0 DEF Connect, Quiet, LockInv, EpollInv, ReqInv, JoinInv
<1>2. ASSUME NEW k \in Kinds, SendHeader(c, k)
      PROVE  Quiet /\ LockInv' /\ EpollInv' /\ ReqInv' /\ JoinInv'
    BY <1>2, <1>0 DEF SendHeader, Quiet, LockInv, EpollInv, ReqInv, JoinInv
<1>3. CASE SendBody(c)
    BY <1>3, <1>0 DEF SendBody, Quiet, LockInv, EpollInv, ReqInv, JoinInv
<1>4. ASSUME NEW x \in PeerFaults, PeerFault(c, x)
      PROVE  Quiet /\ LockInv' /\ EpollInv' /\ ReqInv' /\ JoinInv'
    BY <1>4, <1>0 DEF PeerFault, Quiet, LockInv, EpollInv, ReqInv, JoinInv
<1> QED BY <1>1, <1>2, <1>3, <1>4

(* So are the steps of a thread that neither take nor give up a descriptor. *)
LEMMA QuietThreads ==
    ASSUME TypeInv, KeepOnly, UpInv, JoinInv, NEW t \in Threads,
           \/ LoopTest(t) \/ LockEpoll(t) \/ EpollWait(t) \/ EpollEintr(t)
           \/ TakeListen(t) \/ TakePipe(t) \/ AcceptEnd(t) \/ ReadHeader(t)
           \/ GetInfo(t) \/ HeaderFails(t) \/ ReadBody(t) \/ BodyFails(t)
           \/ send_result(t) \/ SendFails(t) \/ SendSpinEnds(t)
           \/ SigHandled(t) \/ JoinKill(t) \/ JoinWait(t)
           \/ \E c \in Conns : AcceptRefuse(t, c)
    PROVE  Quiet /\ LockInv' /\ EpollInv' /\ ReqInv' /\ JoinInv'
<1>0. /\ ThreadType /\ NetType /\ PollType /\ HandleType /\ FdInv /\ LockInv
      /\ EpollInv /\ ReqInv
    BY DEF TypeInv, TypeOK, UpInv
<1>1. CASE LoopTest(t)
    BY <1>1, <1>0 DEF LoopTest, Quiet, LockInv, EpollInv, ReqInv, JoinInv,
       Owning, Serving, Looping
<1>2. CASE LockEpoll(t)
    <2>1. CASE stop_task
        BY <2>1, <1>2, <1>0 DEF LockEpoll, Quiet, LockInv, EpollInv, ReqInv,
           JoinInv, ThreadType, Owning, Serving, Looping
    <2>2. CASE ~stop_task
        BY <2>2, <1>2, <1>0, ThreadAssumption DEF LockEpoll, Quiet, LockInv,
           EpollInv, ReqInv, JoinInv, ThreadType, Owning, Serving, Looping
    <2> QED BY <2>1, <2>2
<1>3. CASE EpollWait(t)
    BY <1>3, <1>0 DEF EpollWait, Quiet, LockInv, EpollInv, ReqInv, JoinInv,
       PollType, Owning, Serving, Looping
<1>4. CASE EpollEintr(t)
    BY <1>4, <1>0 DEF EpollEintr, Quiet, LockInv, EpollInv, ReqInv, JoinInv,
       ThreadType, Owning, Serving, Looping
<1>5. CASE TakeListen(t)
    BY <1>5, <1>0 DEF TakeListen, Quiet, LockInv, EpollInv, ReqInv, JoinInv,
       Owning, Serving, Looping
<1>6. CASE TakePipe(t)
    BY <1>6, <1>0 DEF TakePipe, Quiet, LockInv, EpollInv, ReqInv, JoinInv,
       ThreadType, Owning, Serving, Looping
<1>7. CASE AcceptEnd(t)
    BY <1>7, <1>0 DEF AcceptEnd, Quiet, LockInv, EpollInv, ReqInv, JoinInv,
       ThreadType, Owning, Serving, Looping
<1>8. CASE ReadHeader(t)
    BY <1>8, <1>0 DEF ReadHeader, Quiet, LockInv, EpollInv, ReqInv, JoinInv
<1>9. CASE GetInfo(t)
    <2>1. Quiet
        BY <1>9, <1>0 DEF GetInfo, Quiet, ThreadType, Owning, Serving
    <2>2. LockInv' /\ EpollInv' /\ JoinInv'
        BY <1>9, <1>0 DEF GetInfo, LockInv, EpollInv, JoinInv, Looping,
           ThreadType
    <2>3. ReqInv'
        <3> DEFINE s == read_buf[hdle[t]]
        <3>1. s \in Seq(Tokens)
            BY <1>9, <1>0 DEF GetInfo, HandleType, FdInv, Serving
        <3>2. PICK i \in 1..Len(s) :
                  /\ FirstHeader(s, i)
                  /\ req' = [req EXCEPT ![t] = IF s[i] = "bad" THEN "none"
                                               ELSE s[i]]
                  /\ Goto(t, IF s[i] = "bad" THEN "release" ELSE "body")
            BY <1>9 DEF GetInfo
        <3>3. s[i] \in Kinds
            BY <3>1, <3>2 DEF FirstHeader, Tokens
        <3>4. s[i] \in {"keep", "bad"}
            BY <3>3 DEF KeepOnly
        <3> HIDE DEF s
        <3> QED BY <3>2, <3>4, <1>0 DEF ReqInv, ThreadType
    <2> QED BY <2>1, <2>2, <2>3
<1>10. CASE HeaderFails(t)
    BY <1>10, <1>0 DEF HeaderFails, Quiet, LockInv, EpollInv, ReqInv, JoinInv,
       Serving, Looping
<1>11. CASE ReadBody(t)
    BY <1>11, <1>0 DEF ReadBody, Quiet, LockInv, EpollInv, ReqInv, JoinInv,
       Serving, Looping
<1>12. CASE BodyFails(t)
    BY <1>12, <1>0 DEF BodyFails, Quiet, LockInv, EpollInv, ReqInv, JoinInv,
       ThreadType, Serving, Looping
<1>13. CASE send_result(t)
    BY <1>13, <1>0 DEF send_result, Quiet, LockInv, EpollInv, ReqInv, JoinInv,
       Serving, Looping
<1>14. CASE SendFails(t)
    BY <1>14, <1>0 DEF SendFails, Quiet, LockInv, EpollInv, ReqInv, JoinInv,
       Serving, Looping
<1>15. CASE SendSpinEnds(t)
    BY <1>15, <1>0 DEF SendSpinEnds, Quiet, LockInv, EpollInv, ReqInv,
       JoinInv, Serving, Looping
<1>16. CASE SigHandled(t)
    BY <1>16, <1>0 DEF SigHandled, Quiet, LockInv, EpollInv, ReqInv, JoinInv
<1>17. CASE JoinKill(t)
    BY <1>17, <1>0 DEF JoinKill, Quiet, LockInv, EpollInv, ReqInv, JoinInv
<1>18. CASE JoinWait(t)
    BY <1>18, <1>0 DEF JoinWait, Quiet, LockInv, EpollInv, ReqInv, JoinInv
<1>19. ASSUME NEW c \in Conns, AcceptRefuse(t, c)
       PROVE  Quiet /\ LockInv' /\ EpollInv' /\ ReqInv' /\ JoinInv'
    BY <1>19, <1>0 DEF AcceptRefuse, Quiet, LockInv, EpollInv, ReqInv, JoinInv
<1> QED BY <1>1, <1>2, <1>3, <1>4, <1>5, <1>6, <1>7, <1>8, <1>9, <1>10, <1>11,
        <1>12, <1>13, <1>14, <1>15, <1>16, <1>17, <1>18, <1>19

(* And stop(), until the destructor. *)
LEMMA QuietStop ==
    ASSUME TypeInv, KeepOnly, UpInv, JoinInv,
           \/ StopFlag \/ StopPipe
    PROVE  Quiet /\ LockInv' /\ EpollInv' /\ ReqInv' /\ JoinInv'
<1>0. /\ ThreadType /\ NetType /\ PollType /\ HandleType /\ FdInv /\ LockInv
      /\ EpollInv /\ ReqInv
    BY DEF TypeInv, TypeOK, UpInv
<1>1. CASE StopFlag
    BY <1>1, <1>0 DEF StopFlag, Quiet, LockInv, EpollInv, ReqInv, JoinInv
<1>2. CASE StopPipe
    BY <1>2, <1>0 DEF StopPipe, Quiet, LockInv, EpollInv, ReqInv, JoinInv
<1> QED BY <1>1, <1>2

(* A thread that works on a descriptor finds its own connection in the map *)
(* (unless it is only just inserting it).                                  *)
LEMMA OwnerMap ==
    ASSUME TypeInv, UpInv, NEW t \in Threads, pc[t] \in Working, pc[t] # "insert"
    PROVE  m_fd_set[fd[t]] = sock[fd[t]] /\ m_fd_set[fd[t]] \in Conns
<1>1. fd[t] \in Fds /\ sock[fd[t]] # NoConn
    BY DEF TypeInv, FdInv, UpInv, OwnInv, Working
<1>2. ~Inserting(fd[t])
    BY DEF UpInv, OwnInv, Inserting, Working, Owning
<1>3. m_fd_set[fd[t]] = sock[fd[t]]
    BY <1>1, <1>2 DEF UpInv, MapInv
<1> QED BY <1>1, <1>3 DEF TypeInv, TypeOK, PollType

(* No other thread holds the handle of the connection that a thread works  *)
(* on.                                                                     *)
LEMMA OneHolder ==
    ASSUME TypeInv, UpInv, NEW t \in Threads, pc[t] \in Working,
           NEW u \in Threads, pc[u] \in Serving, hdle[u] = sock[fd[t]]
    PROVE  u = t
<1>1. fd[t] \in Fds /\ fd[u] \in Fds /\ pc[u] \in Working
    BY DEF TypeInv, FdInv, Working, Owning, Serving
<1>2. sock[fd[u]] = sock[fd[t]] /\ sock[fd[t]] # NoConn
    BY <1>1 DEF UpInv, ServeInv, OwnInv
<1>3. fd[u] = fd[t]
    BY <1>1, <1>2 DEF UpInv, SockInv
<1> QED BY <1>1, <1>3 DEF UpInv, OwnInv

(* svc() takes a connection's descriptor from epoll and gives it to t.     *)
LEMMA TakeConnStep ==
    ASSUME TypeInv, TypeInv', KeepOnly, UpInv, JoinInv, NEW t \in Threads,
           TakeConn(t)
    PROVE  UpInv' /\ JoinInv'
<1>0. /\ ThreadType /\ NetType /\ PollType /\ HandleType /\ FdInv /\ LockInv
      /\ EpollInv /\ OwnInv /\ SockInv /\ MapInv /\ ServeInv /\ RefInv /\ ReqInv
      /\ NoOrphanInv /\ ThreadType' /\ FdInv'
    BY DEF TypeInv, TypeOK, UpInv
<1>a. /\ pc[t] = "dispatch" /\ pc'[t] = "get"
      /\ \A u \in Threads : u # t => /\ pc'[u] = pc[u]
                                     /\ fd'[u] = fd[u] /\ hdle'[u] = hdle[u]
    BY <1>0 DEF TakeConn, ThreadType
<1>1. LockInv'
    BY <1>0 DEF TakeConn, LockInv, ThreadType, Looping
<1>2. EpollInv'
    BY <1>0 DEF TakeConn, EpollInv, NetType, PipeFd, ListenFd, Fds,
       del_input_fd
<1>3. OwnInv'
    <2>1. PICK f \in ready_event \cap Fds : /\ del_input_fd(f)
                                           /\ fd' = [fd EXCEPT ![t] = f]
        BY DEF TakeConn
    <2>2. fd'[t] = f /\ f \in interest /\ sock[f] # NoConn /\ f \notin interest'
        BY <2>1, <1>0 DEF del_input_fd, EpollInv, ThreadType
    <2>3. \A u \in Threads : u # t /\ pc'[u] \in Working =>
              sock[fd[u]] # NoConn /\ fd[u] # f /\ fd[u] \notin interest'
        BY <1>a, <2>1, <2>2, <1>0 DEF OwnInv, del_input_fd
    <2> QED BY <1>a, <2>2, <2>3, <1>0 DEF TakeConn, OwnInv
<1>4. SockInv'
    BY <1>0 DEF TakeConn, SockInv
<1>5. MapInv'
    BY <1>0 DEF TakeConn, MapInv, Inserting, Erasing
<1>6. ServeInv'
    BY <1>0 DEF TakeConn, ServeInv, Serving
<1>7. RefInv'
    <2>1. \A d \in Conns : Held(d)' <=> Held(d)
        BY <1>a DEF Held, Serving
    <2> QED BY <2>1, <1>0 DEF TakeConn, RefInv
<1>8. ReqInv'
    BY <1>0 DEF TakeConn, ReqInv
<1>9. NoOrphanInv'
    <2>1. PICK f \in ready_event \cap Fds : /\ del_input_fd(f)
                                           /\ fd' = [fd EXCEPT ![t] = f]
        BY DEF TakeConn
    <2>2. fd'[t] = f /\ interest' = interest \ {f} /\ pc'[t] \in Working
        BY <1>a, <2>1, <1>0 DEF del_input_fd, ThreadType, Working, Owning
    <2>3. ASSUME NEW g \in Fds, sock'[g] # NoConn
          PROVE  g \in interest' \/ \E u \in Threads : fd'[u] = g /\ pc'[u] \in Working
        <3>1. CASE g = f BY <3>1, <2>2
        <3>2. CASE g # f
            BY <3>2, <2>3, <2>2, <1>a, <1>0 DEF TakeConn, NoOrphanInv,
               Working, Owning, Serving
        <3> QED BY <3>1, <3>2
    <2> QED BY <2>3 DEF NoOrphanInv
<1>10. JoinInv'
    BY <1>0 DEF TakeConn, JoinInv
<1> QED BY <1>1, <1>2, <1>3, <1>4, <1>5, <1>6, <1>7, <1>8, <1>9, <1>10 DEF
        UpInv

(* accept() hands t a descriptor that was free, hence nobody's.            *)
LEMMA AcceptStep ==
    ASSUME TypeInv, TypeInv', KeepOnly, UpInv, JoinInv, NEW t \in Threads,
           NEW c \in Conns, Accept(t, c)
    PROVE  UpInv' /\ JoinInv'
<1>0. /\ ThreadType /\ NetType /\ PollType /\ HandleType /\ FdInv /\ LockInv
      /\ EpollInv /\ OwnInv /\ SockInv /\ MapInv /\ ServeInv /\ RefInv /\ ReqInv
      /\ NoOrphanInv /\ ThreadType' /\ FdInv'
    BY DEF TypeInv, TypeOK, UpInv
<1>a. /\ pc[t] = "accept" /\ pc'[t] = "insert"
      /\ \A u \in Threads : u # t => /\ pc'[u] = pc[u]
                                     /\ fd'[u] = fd[u] /\ hdle'[u] = hdle[u]
    BY <1>0 DEF Accept, ThreadType
<1>1. LockInv'
    BY <1>0 DEF Accept, LockInv, Looping, FreeFds, Lowest
<1>2. EpollInv'
    BY <1>0, ThreadAssumption, ConnAssumption DEF Accept, EpollInv
<1>3. OwnInv'
    BY <1>0, ThreadAssumption, ConnAssumption DEF Accept, OwnInv, ThreadType,
       PollType, EpollInv, FreeFds, Lowest
<1>4. SockInv'
    BY <1>0 DEF Accept, SockInv, NetType, PipeFd, ListenFd
<1>5. MapInv'
    BY <1>0 DEF Accept, MapInv, ThreadType, PollType, Inserting, Erasing,
       FreeFds, Lowest
<1>6. ServeInv'
    BY <1>0 DEF Accept, ServeInv, OwnInv, Working, Owning, Serving, FreeFds,
       Lowest
<1>7. RefInv'
    <2>1. \A d \in Conns : Held(d)' <=> Held(d)
        BY <1>a DEF Held, Serving
    <2> QED BY <2>1, <1>0 DEF Accept, RefInv
<1>8. ReqInv'
    BY <1>0 DEF Accept, ReqInv
<1>9. NoOrphanInv'
    <2>1. PICK f \in FreeFds : /\ sock' = [sock EXCEPT ![f] = c]
                             /\ fd' = [fd EXCEPT ![t] = f]
        BY DEF Accept
    <2>2. fd'[t] = f /\ pc'[t] \in Working
        BY <1>a, <2>1, <1>0 DEF ThreadType, Working, Owning
    <2>3. ASSUME NEW g \in Fds, sock'[g] # NoConn
          PROVE  g \in interest' \/ \E u \in Threads : fd'[u] = g /\ pc'[u] \in Working
        <3>1. CASE g = f BY <3>1, <2>2
        <3>2. CASE g # f
            BY <3>2, <2>3, <2>1, <1>a, <1>0 DEF Accept, NoOrphanInv, Working,
               Owning, Serving
        <3> QED BY <3>1, <3>2
    <2> QED BY <2>3 DEF NoOrphanInv
<1>10. JoinInv'
    BY <1>0 DEF Accept, JoinInv
<1> QED BY <1>1, <1>2, <1>3, <1>4, <1>5, <1>6, <1>7, <1>8, <1>9, <1>10 DEF
        UpInv

(* create_handle() and insert_handle() enter t's connection in the map.    *)
LEMMA create_handleStep ==
    ASSUME TypeInv, TypeInv', KeepOnly, UpInv, JoinInv, NEW t \in Threads,
           create_handle(t)
    PROVE  UpInv' /\ JoinInv'
<1>0. /\ ThreadType /\ NetType /\ PollType /\ HandleType /\ FdInv /\ LockInv
      /\ EpollInv /\ OwnInv /\ SockInv /\ MapInv /\ ServeInv /\ RefInv /\ ReqInv
      /\ NoOrphanInv /\ ThreadType' /\ FdInv'
    BY DEF TypeInv, TypeOK, UpInv
<1>a. /\ pc[t] = "insert" /\ pc'[t] = "addnew"
      /\ \A u \in Threads : u # t => /\ pc'[u] = pc[u]
                                     /\ fd'[u] = fd[u] /\ hdle'[u] = hdle[u]
    BY <1>0 DEF create_handle, ThreadType
<1>1. LockInv'
    BY <1>0 DEF create_handle, LockInv, Looping
<1>2. EpollInv'
    BY <1>0 DEF create_handle, EpollInv
<1>3. OwnInv'
    BY <1>a, <1>0 DEF create_handle, OwnInv, Working, Owning, Serving,
       ThreadType
<1>4. SockInv'
    BY <1>0 DEF create_handle, SockInv
<1>5. MapInv'
    BY <1>0, ThreadAssumption, ConnAssumption DEF create_handle, MapInv,
       ThreadType, PollType, HandleType, FdInv, LockInv, OwnInv, SockInv,
       Inserting, Erasing, Working, Owning
<1>6. ServeInv'
    BY <1>0 DEF create_handle, ServeInv, Serving
<1>7. RefInv'
    <2>1. \A d \in Conns : Held(d)' <=> Held(d)
        BY <1>a DEF Held, Serving
    <2> QED BY <2>1, <1>0 DEF create_handle, RefInv
<1>8. ReqInv'
    BY <1>0 DEF create_handle, ReqInv
<1>9. NoOrphanInv'
    BY <1>0 DEF create_handle, NoOrphanInv, Working, Owning
<1>10. JoinInv'
    BY <1>0 DEF create_handle, JoinInv
<1> QED BY <1>1, <1>2, <1>3, <1>4, <1>5, <1>6, <1>7, <1>8, <1>9, <1>10 DEF
        UpInv

(* svc() gives a new connection to epoll.                                  *)
LEMMA AddNewStep ==
    ASSUME TypeInv, TypeInv', KeepOnly, UpInv, JoinInv, NEW t \in Threads,
           AddNew(t)
    PROVE  UpInv' /\ JoinInv'
<1>0. /\ ThreadType /\ NetType /\ PollType /\ HandleType /\ FdInv /\ LockInv
      /\ EpollInv /\ OwnInv /\ SockInv /\ MapInv /\ ServeInv /\ RefInv /\ ReqInv
      /\ NoOrphanInv /\ ThreadType' /\ FdInv'
    BY DEF TypeInv, TypeOK, UpInv
<1>a. /\ pc[t] = "addnew" /\ pc'[t] = "accept"
      /\ \A u \in Threads : u # t => /\ pc'[u] = pc[u]
                                     /\ fd'[u] = fd[u] /\ hdle'[u] = hdle[u]
    BY <1>0 DEF AddNew, ThreadType
<1>1. LockInv'
    BY <1>0 DEF AddNew, LockInv, Looping
<1>2. EpollInv'
    BY <1>0 DEF AddNew, EpollInv, add_input_fd
<1>3. OwnInv'
    BY <1>0 DEF AddNew, OwnInv, ThreadType, Working, Owning, Serving,
       add_input_fd
<1>4. SockInv'
    BY <1>0 DEF AddNew, SockInv
<1>5. MapInv'
    BY <1>0 DEF AddNew, MapInv, Inserting, Erasing
<1>6. ServeInv'
    BY <1>0 DEF AddNew, ServeInv, Serving
<1>7. RefInv'
    <2>1. \A d \in Conns : Held(d)' <=> Held(d)
        BY <1>a DEF Held, Serving
    <2> QED BY <2>1, <1>0 DEF AddNew, RefInv
<1>8. ReqInv'
    BY <1>0 DEF AddNew, ReqInv
<1>9. NoOrphanInv'
    <2>1. interest \subseteq interest' /\ fd[t] \in interest'
        BY <1>a, <1>0 DEF AddNew, add_input_fd, OwnInv, Working, Owning
    <2>2. ASSUME NEW g \in Fds, sock'[g] # NoConn
          PROVE  g \in interest' \/ \E u \in Threads : fd'[u] = g /\ pc'[u] \in Working
        <3>1. CASE g = fd[t] BY <3>1, <2>1
        <3>2. CASE g # fd[t]
            BY <3>2, <2>2, <2>1, <1>a, <1>0 DEF AddNew, NoOrphanInv
        <3> QED BY <3>1, <3>2
    <2> QED BY <2>2 DEF NoOrphanInv
<1>10. JoinInv'
    BY <1>0 DEF AddNew, JoinInv
<1> QED BY <1>1, <1>2, <1>3, <1>4, <1>5, <1>6, <1>7, <1>8, <1>9, <1>10 DEF
        UpInv

(* get_handle() counts t as the only holder of the handle.                 *)
LEMMA get_handleStep ==
    ASSUME TypeInv, TypeInv', KeepOnly, UpInv, JoinInv, NEW t \in Threads,
           get_handle(t)
    PROVE  UpInv' /\ JoinInv'
<1>0. /\ ThreadType /\ NetType /\ PollType /\ HandleType /\ FdInv /\ LockInv
      /\ EpollInv /\ OwnInv /\ SockInv /\ MapInv /\ ServeInv /\ RefInv /\ ReqInv
      /\ NoOrphanInv /\ ThreadType' /\ FdInv'
    BY DEF TypeInv, TypeOK, UpInv
<1>a. /\ pc[t] = "get" /\ pc'[t] = "header"
      /\ \A u \in Threads : u # t => /\ pc'[u] = pc[u]
                                     /\ fd'[u] = fd[u] /\ hdle'[u] = hdle[u]
    BY <1>0 DEF get_handle, ThreadType
<1>b. m_fd_set[fd[t]] = sock[fd[t]] /\ m_fd_set[fd[t]] \in Conns
    BY <1>a, OwnerMap DEF Working, Owning, Serving
<1>c. \A u \in Threads : pc[u] \in Serving => hdle[u] # m_fd_set[fd[t]]
    BY <1>a, <1>b, OneHolder DEF Working, Owning, Serving
<1>1. LockInv'
    BY <1>0 DEF get_handle, LockInv, Looping
<1>2. EpollInv'
    BY <1>0 DEF get_handle, EpollInv
<1>3. OwnInv'
    BY <1>a, <1>0 DEF get_handle, OwnInv, Working, Owning, Serving, ThreadType
<1>4. SockInv'
    BY <1>0 DEF get_handle, SockInv
<1>5. MapInv'
    BY <1>0 DEF get_handle, MapInv, ThreadType, NetType, PipeFd, ListenFd,
       Inserting, Erasing
<1>6. ServeInv'
    BY <1>a, <1>b, <1>0 DEF get_handle, ServeInv, ThreadType, Serving
<1>7. RefInv'
    <2>1. PICK h \in Conns : h = m_fd_set[fd[t]]
        BY <1>b
    <2>2. hdle'[t] = h /\ pc'[t] \in Serving
        BY <1>a, <2>1, <1>0 DEF get_handle, ThreadType, Serving
    <2>3. ref[h] = 0
        BY <1>c, <2>1, <1>0 DEF RefInv, Held
    <2>4. ref'[h] = 1 /\ Held(h)'
        BY <2>1, <2>2, <2>3, <1>0 DEF get_handle, HandleType, Held
    <2>5. ASSUME NEW d \in Conns, d # h
          PROVE  ref'[d] = ref[d] /\ (Held(d)' <=> Held(d))
        <3>1. ref'[d] = ref[d]
            BY <2>1, <2>5, <1>0 DEF get_handle, HandleType
        <3>2. Held(d)' <=> Held(d)
            BY <2>2, <2>5, <1>a DEF Held, Serving
        <3> QED BY <3>1, <3>2
    <2>6. ASSUME NEW d \in Conns
          PROVE  ref'[d] = IF Held(d)' THEN 1 ELSE 0
        <3>1. CASE d = h BY <3>1, <2>4
        <3>2. CASE d # h BY <3>2, <2>5, <1>0 DEF RefInv
        <3> QED BY <3>1, <3>2
    <2> QED BY <2>6 DEF RefInv
<1>8. ReqInv'
    BY <1>0 DEF get_handle, ReqInv
<1>9. NoOrphanInv'
    BY <1>0 DEF get_handle, NoOrphanInv, Working, Owning, Serving
<1>10. JoinInv'
    BY <1>0 DEF get_handle, JoinInv
<1> QED BY <1>1, <1>2, <1>3, <1>4, <1>5, <1>6, <1>7, <1>8, <1>9, <1>10 DEF
        UpInv

(* release_handle(hdle, false): t holds the handle no more, but keeps the  *)
(* descriptor until add_input_fd().                                        *)
LEMMA ReleaseKeepStep ==
    ASSUME TypeInv, TypeInv', KeepOnly, UpInv, JoinInv, NEW t \in Threads,
           ReleaseKeep(t)
    PROVE  UpInv' /\ JoinInv'
<1>0. /\ ThreadType /\ NetType /\ PollType /\ HandleType /\ FdInv /\ LockInv
      /\ EpollInv /\ OwnInv /\ SockInv /\ MapInv /\ ServeInv /\ RefInv /\ ReqInv
      /\ NoOrphanInv /\ ThreadType' /\ FdInv'
    BY DEF TypeInv, TypeOK, UpInv
<1>a. /\ pc[t] = "release" /\ pc'[t] = "readd"
      /\ \A u \in Threads : u # t => /\ pc'[u] = pc[u]
                                     /\ fd'[u] = fd[u] /\ hdle'[u] = hdle[u]
    BY <1>0 DEF ReleaseKeep, ThreadType
<1>b. \A u \in Threads : pc[u] \in Serving /\ hdle[u] = hdle[t] => u = t
    BY <1>a, <1>0, OneHolder DEF ServeInv, Working, Owning, Serving
<1>1. LockInv'
    BY <1>0 DEF ReleaseKeep, LockInv, Looping
<1>2. EpollInv'
    BY <1>0 DEF ReleaseKeep, EpollInv
<1>3. OwnInv'
    BY <1>a, <1>0 DEF ReleaseKeep, OwnInv, Working, Owning, Serving,
       ThreadType
<1>4. SockInv'
    BY <1>0 DEF ReleaseKeep, SockInv
<1>5. MapInv'
    BY <1>0 DEF ReleaseKeep, MapInv, Inserting, Erasing
<1>6. ServeInv'
    BY <1>0 DEF ReleaseKeep, ServeInv, Serving
<1>7. RefInv'
    <2>1. PICK h \in Conns : h = hdle[t]
        BY <1>a, <1>0 DEF FdInv, Serving
    <2>2. ref[h] = 1
        BY <1>a, <2>1, <1>0 DEF RefInv, Held, Serving
    <2>3. ref'[h] = 0 /\ ~Held(h)'
        BY <1>a, <1>b, <2>1, <2>2, <1>0 DEF ReleaseKeep, HandleType, Held,
           Serving
    <2>4. ASSUME NEW d \in Conns, d # h
          PROVE  ref'[d] = ref[d] /\ (Held(d)' <=> Held(d))
        <3>1. ref'[d] = ref[d]
            BY <2>1, <2>4, <1>0 DEF ReleaseKeep, HandleType
        <3>2. Held(d)' <=> Held(d)
            BY <2>1, <2>4, <1>a DEF Held, Serving
        <3> QED BY <3>1, <3>2
    <2>5. ASSUME NEW d \in Conns
          PROVE  ref'[d] = IF Held(d)' THEN 1 ELSE 0
        <3>1. CASE d = h BY <3>1, <2>3
        <3>2. CASE d # h BY <3>2, <2>4, <1>0 DEF RefInv
        <3> QED BY <3>1, <3>2
    <2> QED BY <2>5 DEF RefInv
<1>8. ReqInv'
    BY <1>0 DEF ReleaseKeep, ReqInv
<1>9. NoOrphanInv'
    BY <1>0 DEF ReleaseKeep, NoOrphanInv, Working, Owning
<1>10. JoinInv'
    BY <1>0 DEF ReleaseKeep, JoinInv
<1> QED BY <1>1, <1>2, <1>3, <1>4, <1>5, <1>6, <1>7, <1>8, <1>9, <1>10 DEF
        UpInv

(* release_handle(hdle, true) closes the descriptor, which may be reused   *)
(* while the map entry is still there.                                     *)
LEMMA ReleaseCloseStep ==
    ASSUME TypeInv, TypeInv', KeepOnly, UpInv, JoinInv, NEW t \in Threads,
           ReleaseClose(t)
    PROVE  UpInv' /\ JoinInv'
<1>0. /\ ThreadType /\ NetType /\ PollType /\ HandleType /\ FdInv /\ LockInv
      /\ EpollInv /\ OwnInv /\ SockInv /\ MapInv /\ ServeInv /\ RefInv /\ ReqInv
      /\ NoOrphanInv /\ ThreadType' /\ FdInv'
    BY DEF TypeInv, TypeOK, UpInv
<1>a. /\ pc[t] = "release" /\ pc'[t] = "erase"
      /\ \A u \in Threads : u # t => /\ pc'[u] = pc[u]
                                     /\ fd'[u] = fd[u] /\ hdle'[u] = hdle[u]
    BY <1>0 DEF ReleaseClose, ThreadType
<1>b. \A u \in Threads : pc[u] \in Serving /\ hdle[u] = hdle[t] => u = t
    BY <1>a, <1>0, OneHolder DEF ServeInv, Working, Owning, Serving
<1>1. LockInv'
    BY <1>0, ThreadAssumption, ConnAssumption DEF ReleaseClose, LockInv,
       Looping
<1>2. EpollInv'
    <2>1. fd[t] \in Fds /\ fd[t] \notin interest
        BY <1>a, <1>0 DEF FdInv, OwnInv, Working, Owning, Serving
    <2>2. interest' = interest
        BY <2>1 DEF ReleaseClose, del_input_fd
    <2>3. \A f \in Fds : f # fd[t] => sock'[f] = sock[f]
        BY <1>0 DEF ReleaseClose, CloseFd, PollType
    <2> QED BY <2>1, <2>2, <2>3, <1>0 DEF ReleaseClose, EpollInv
<1>3. OwnInv'
    BY <1>0 DEF ReleaseClose, OwnInv, ThreadType, Working, Owning, Serving,
       del_input_fd, CloseFd
<1>4. SockInv'
    BY <1>0 DEF ReleaseClose, SockInv, PollType, FdInv, Owning, Serving,
       CloseFd
<1>5. MapInv'
    BY <1>0 DEF ReleaseClose, MapInv, ThreadType, NetType, FdInv, PipeFd,
       ListenFd, OwnInv, SockInv, ServeInv, Inserting, Erasing, Working,
       Owning, Serving, CloseFd
<1>6. ServeInv'
    BY <1>0 DEF ReleaseClose, ServeInv, ThreadType, OwnInv, Working, Owning,
       Serving, CloseFd
<1>7. RefInv'
    <2>1. PICK h \in Conns : h = hdle[t]
        BY <1>a, <1>0 DEF FdInv, Serving
    <2>2. ref[h] = 1
        BY <1>a, <2>1, <1>0 DEF RefInv, Held, Serving
    <2>3. ref'[h] = 0 /\ ~Held(h)'
        BY <1>a, <1>b, <2>1, <2>2, <1>0 DEF ReleaseClose, HandleType, Held,
           Serving
    <2>4. ASSUME NEW d \in Conns, d # h
          PROVE  ref'[d] = ref[d] /\ (Held(d)' <=> Held(d))
        <3>1. ref'[d] = ref[d]
            BY <2>1, <2>4, <1>0 DEF ReleaseClose, HandleType
        <3>2. Held(d)' <=> Held(d)
            BY <2>1, <2>4, <1>a DEF Held, Serving
        <3> QED BY <3>1, <3>2
    <2>5. ASSUME NEW d \in Conns
          PROVE  ref'[d] = IF Held(d)' THEN 1 ELSE 0
        <3>1. CASE d = h BY <3>1, <2>3
        <3>2. CASE d # h BY <3>2, <2>4, <1>0 DEF RefInv
        <3> QED BY <3>1, <3>2
    <2> QED BY <2>5 DEF RefInv
<1>8. ReqInv'
    BY <1>0 DEF ReleaseClose, ReqInv
<1>9. NoOrphanInv'
    BY <1>0 DEF ReleaseClose, NoOrphanInv, PollType, del_input_fd, CloseFd
<1>10. JoinInv'
    BY <1>0 DEF ReleaseClose, JoinInv
<1> QED BY <1>1, <1>2, <1>3, <1>4, <1>5, <1>6, <1>7, <1>8, <1>9, <1>10 DEF
        UpInv

(* release_handle() deletes the handle and its map entry: it was the only  *)
(* entry for that handle.                                                  *)
LEMMA EraseHandleStep ==
    ASSUME TypeInv, TypeInv', KeepOnly, UpInv, JoinInv, NEW t \in Threads,
           EraseHandle(t)
    PROVE  UpInv' /\ JoinInv'
<1>0. /\ ThreadType /\ NetType /\ PollType /\ HandleType /\ FdInv /\ LockInv
      /\ EpollInv /\ OwnInv /\ SockInv /\ MapInv /\ ServeInv /\ RefInv /\ ReqInv
      /\ NoOrphanInv /\ ThreadType' /\ FdInv'
    BY DEF TypeInv, TypeOK, UpInv
<1>b. req[t] = "none"
    BY <1>0 DEF EraseHandle, ReqInv
<1>a. /\ pc[t] = "erase" /\ pc'[t] = "top"
      /\ \A u \in Threads : u # t => /\ pc'[u] = pc[u]
                                     /\ fd'[u] = fd[u] /\ hdle'[u] = hdle[u]
    BY <1>b, <1>0 DEF EraseHandle, ThreadType, AfterRelease
<1>1. LockInv'
    BY <1>a, <1>0, ThreadAssumption DEF EraseHandle, LockInv, Looping
<1>2. EpollInv'
    BY <1>0 DEF EraseHandle, EpollInv
<1>3. OwnInv'
    BY <1>a, <1>0 DEF EraseHandle, OwnInv, Working, Owning, Serving,
       ThreadType
<1>4. SockInv'
    BY <1>0 DEF EraseHandle, SockInv
<1>5. MapInv'
    <2> DEFINE h == hdle[t]
              f == fd[t]
    <2>1. /\ f \in Fds /\ h \in Conns /\ m_fd_set[f] = h /\ phase[h] = "closed"
          /\ \A u \in Threads : pc[u] = "erase" => u = t
        BY <1>a, <1>0 DEF FdInv, MapInv, LockInv, Owning
    <2>2. /\ m_fd_set'[f] = NoConn
          /\ \A g \in Fds : g # f => m_fd_set'[g] = m_fd_set[g]
          /\ ~live'[h] /\ \A d \in Conns : d # h => live'[d] = live[d]
        BY <2>1, <1>0 DEF EraseHandle, HandleType
    <2>3. \A g \in Fds : g # f => m_fd_set[g] # h
        BY <2>1, <1>0, ConnAssumption DEF MapInv, SockInv, Erasing
    <2>4. \A g \in Fds : Inserting(g) => Inserting(g)'
        BY <1>a DEF Inserting
    <2>5. sock' = sock /\ phase' = phase
        BY DEF EraseHandle
    <2> HIDE DEF h, f
    <2>6. \A g \in Fds : sock'[g] # NoConn /\ m_fd_set'[g] # sock'[g]
                             => Inserting(g)'
        <3> SUFFICES ASSUME NEW g \in Fds, sock[g] # NoConn, m_fd_set'[g] # sock[g]
                     PROVE  Inserting(g)
            BY <2>4, <2>5
        <3>1. CASE g # f BY <3>1, <2>2, <1>0 DEF MapInv
        <3>2. CASE g = f
            <4>1. sock[f] # h
                BY <2>1, <1>0, ConnAssumption DEF SockInv
            <4> QED BY <4>1, <3>2, <2>1, <1>0 DEF MapInv
        <3> QED BY <3>1, <3>2
    <2>7. \A g \in Fds : m_fd_set'[g] # NoConn =>
             live'[m_fd_set'[g]] /\ (m_fd_set'[g] # sock'[g] => Erasing(g)')
        <3> SUFFICES ASSUME NEW g \in Fds, m_fd_set'[g] # NoConn
                     PROVE  live'[m_fd_set'[g]] /\ m_fd_set'[g] = sock[g]
            BY <2>5
        <3>1. g # f /\ m_fd_set'[g] = m_fd_set[g] /\ m_fd_set[g] # h
            BY <2>2, <2>3
        <3>2. m_fd_set[g] \in Conns /\ live[m_fd_set[g]]
            BY <3>1, <1>0 DEF HandleType, MapInv
        <3>3. ~Erasing(g)
            BY <3>1, <2>1 DEF Erasing, f
        <3> QED BY <3>1, <3>2, <3>3, <2>2, <1>0 DEF MapInv
    <2>8. \A u \in Threads : pc'[u] = "erase" =>
             m_fd_set'[fd'[u]] = hdle'[u] /\ phase'[hdle'[u]] = "closed"
        BY <1>a, <2>1
    <2>9. \A u \in Threads : pc'[u] = "insert" => ~live'[sock'[fd'[u]]]
        <3> SUFFICES ASSUME NEW u \in Threads, pc'[u] = "insert"
                     PROVE  ~live'[sock[fd'[u]]]
            BY <2>5
        <3>1. u # t /\ pc[u] = "insert" /\ fd'[u] = fd[u]
            BY <1>a
        <3>2. sock[fd[u]] \in Conns /\ ~live[sock[fd[u]]]
            BY <3>1, <1>0 DEF MapInv, OwnInv, FdInv, PollType, Working, Owning
        <3> QED BY <3>1, <3>2, <2>2
    <2>10. \A d \in Conns : live'[d] => \E g \in Fds : m_fd_set'[g] = d
        BY <2>1, <2>2, <1>0 DEF MapInv
    <2>11. \A d \in Conns : phase'[d] \in {"new", "pending"} => ~live'[d]
        BY <2>2, <2>5, <1>0 DEF MapInv
    <2> QED BY <2>6, <2>7, <2>8, <2>9, <2>10, <2>11 DEF MapInv
<1>6. ServeInv'
    BY <1>a, <1>0 DEF EraseHandle, ServeInv, Serving
<1>7. RefInv'
    <2>1. \A d \in Conns : Held(d)' <=> Held(d)
        BY <1>a DEF Held, Serving
    <2> QED BY <2>1, <1>0 DEF EraseHandle, RefInv
<1>8. ReqInv'
    BY <1>0 DEF EraseHandle, ReqInv, ThreadType, AfterRelease
<1>9. NoOrphanInv'
    BY <1>a, <1>0 DEF EraseHandle, NoOrphanInv, Working, Owning, Serving
<1>10. JoinInv'
    BY <1>0 DEF EraseHandle, JoinInv, ThreadType, AfterRelease
<1> QED BY <1>1, <1>2, <1>3, <1>4, <1>5, <1>6, <1>7, <1>8, <1>9, <1>10 DEF
        UpInv

(* recv_request() gives the connection back to epoll.                      *)
LEMMA ReAddStep ==
    ASSUME TypeInv, TypeInv', KeepOnly, UpInv, JoinInv, NEW t \in Threads,
           ReAdd(t)
    PROVE  UpInv' /\ JoinInv'
<1>0. /\ ThreadType /\ NetType /\ PollType /\ HandleType /\ FdInv /\ LockInv
      /\ EpollInv /\ OwnInv /\ SockInv /\ MapInv /\ ServeInv /\ RefInv /\ ReqInv
      /\ NoOrphanInv /\ ThreadType' /\ FdInv'
    BY DEF TypeInv, TypeOK, UpInv
<1>a. /\ pc[t] = "readd" /\ pc'[t] = "top"
      /\ \A u \in Threads : u # t => /\ pc'[u] = pc[u]
                                     /\ fd'[u] = fd[u] /\ hdle'[u] = hdle[u]
    BY <1>0 DEF ReAdd, ThreadType
<1>1. LockInv'
    BY <1>0 DEF ReAdd, LockInv, Looping
<1>2. EpollInv'
    BY <1>0 DEF ReAdd, EpollInv, add_input_fd
<1>3. OwnInv'
    BY <1>0 DEF ReAdd, OwnInv, ThreadType, Working, Owning, Serving,
       add_input_fd
<1>4. SockInv'
    BY <1>0 DEF ReAdd, SockInv
<1>5. MapInv'
    BY <1>0 DEF ReAdd, MapInv, ThreadType, NetType, PipeFd, ListenFd,
       Inserting, Erasing
<1>6. ServeInv'
    BY <1>0, ThreadAssumption, ConnAssumption DEF ReAdd, ServeInv, ThreadType,
       FdInv
<1>7. RefInv'
    BY <1>0 DEF ReAdd, RefInv, Fds, Held, Serving
<1>8. ReqInv'
    BY <1>0 DEF ReAdd, ReqInv
<1>9. NoOrphanInv'
    <2>1. interest \subseteq interest' /\ fd[t] \in interest'
        BY <1>a, <1>0 DEF ReAdd, add_input_fd, OwnInv, Working, Owning
    <2>2. ASSUME NEW g \in Fds, sock'[g] # NoConn
          PROVE  g \in interest' \/ \E u \in Threads : fd'[u] = g /\ pc'[u] \in Working
        <3>1. CASE g = fd[t] BY <3>1, <2>1
        <3>2. CASE g # fd[t]
            BY <3>2, <2>2, <2>1, <1>a, <1>0 DEF ReAdd, NoOrphanInv
        <3> QED BY <3>1, <3>2
    <2> QED BY <2>2 DEF NoOrphanInv
<1>10. JoinInv'
    BY <1>0 DEF ReAdd, JoinInv
<1> QED BY <1>1, <1>2, <1>3, <1>4, <1>5, <1>6, <1>7, <1>8, <1>9, <1>10 DEF
        UpInv

-----------------------------------------------------------------------------
(* With keep-alive clients only, recv_request() never fails assert(hdle),  *)
(* meets no deleted handle, no shared handle and no request without        *)
(* content.                                                                *)
LEMMA NoBadStep ==
    ASSUME TypeInv, KeepOnly, UpInv, NEW t \in Threads,
           \/ AssertHandle(t) \/ UseAfterFree(t) \/ EmptyBodyCrash(t)
           \/ EmptyBodyReturn(t) \/ ReleaseShared(t)
    PROVE  FALSE
<1>1. CASE AssertHandle(t)
    <2>1. m_fd_set[fd[t]] \in Conns
        BY <1>1, OwnerMap DEF AssertHandle, Working, Owning
    <2> QED BY <1>1, <2>1, ConnAssumption DEF AssertHandle
<1>2. CASE UseAfterFree(t)
    <2>1. pc[t] \in Serving /\ ~live[hdle[t]]
        BY <1>2 DEF UseAfterFree, UsesHandle, Serving
    <2>2. m_fd_set[fd[t]] = sock[fd[t]] /\ m_fd_set[fd[t]] \in Conns
        BY <2>1, OwnerMap DEF Working, Owning, Serving
    <2>3. hdle[t] = sock[fd[t]] /\ fd[t] \in Fds
        BY <2>1 DEF UpInv, ServeInv, TypeInv, FdInv, Owning
    <2> QED BY <2>1, <2>2, <2>3, ConnAssumption DEF UpInv, MapInv
<1>3. CASE EmptyBodyCrash(t) \/ EmptyBodyReturn(t)
    BY <1>3 DEF EmptyBodyCrash, EmptyBodyReturn, UpInv, ReqInv
<1>4. CASE ReleaseShared(t)
    <2>1. pc[t] \in Serving /\ ref[hdle[t]] # 1
        BY <1>4 DEF ReleaseShared, Serving
    <2>2. hdle[t] \in Conns /\ Held(hdle[t])
        BY <2>1 DEF TypeInv, FdInv, Held
    <2> QED BY <2>1, <2>2 DEF UpInv, RefInv
<1> QED BY <1>1, <1>2, <1>3, <1>4

(* No other step kills the process, and only Delete ends it.               *)
LEMMA StaysUp ==
    ASSUME fault = "none", main # "deleted", ~Delete, Next,
           \A t \in Threads : ~AssertHandle(t) /\ ~UseAfterFree(t)
                                               /\ ~EmptyBodyCrash(t)
    PROVE  fault' = "none" /\ main' # "deleted"
<1>1. CASE Client
    BY <1>1 DEF Client, Connect, SendHeader, SendBody, PeerFault
<1>2. CASE Main
    BY <1>2 DEF Main, StopFlag, StopPipe, JoinKill, JoinWait, Delete
<1>3. ASSUME NEW t \in Threads, svc(t)
      PROVE  fault' = "none" /\ main' # "deleted"
    BY <1>3 DEF svc, LoopTest, LockEpoll, EpollWait, EpollEintr, TakeListen,
       TakePipe, TakeConn, AcceptEnd, create_handle, AddNew, Accept,
       AcceptRefuse
<1>4. ASSUME NEW t \in Threads, recv_request(t)
      PROVE  fault' = "none" /\ main' # "deleted"
    BY <1>4 DEF recv_request, get_handle, ReadHeader, GetInfo, HeaderFails,
       ReadBody, BodyFails, EmptyBodyReturn, send_result, SendFails,
       ReleaseKeep, ReleaseClose, EraseHandle, ReleaseShared, ReAdd
<1>5. ASSUME NEW t \in Threads, SendSpinEnds(t) \/ SigHandled(t)
      PROVE  fault' = "none" /\ main' # "deleted"
    BY <1>5 DEF SendSpinEnds, SigHandled
<1> QED BY <1>1, <1>2, <1>3, <1>4, <1>5 DEF Next, Ended

(* When the process has ended nothing happens any more.                    *)
LEMMA OnlyRunning == Next => Running \/ Ended
<1>1. Client => Running
    BY DEF Client, Connect, SendHeader, SendBody, PeerFault
<1>2. Main => Running
    BY DEF Main, StopFlag, StopPipe, JoinKill, JoinWait, Delete
<1>3. ASSUME NEW t \in Threads PROVE svc(t) => Running
    BY DEF svc, LoopTest, LockEpoll, EpollWait, EpollEintr, TakeListen,
       TakePipe, TakeConn, AcceptEnd, create_handle, AddNew, Accept,
       AcceptRefuse
<1>4. ASSUME NEW t \in Threads PROVE recv_request(t) => Running
    BY DEF recv_request, get_handle, AssertHandle, UseAfterFree, ReadHeader,
       GetInfo, HeaderFails, ReadBody, BodyFails, EmptyBodyCrash,
       EmptyBodyReturn, send_result, SendFails, ReleaseKeep, ReleaseClose,
       EraseHandle, ReleaseShared, ReAdd
<1>5. ASSUME NEW t \in Threads
      PROVE  SendSpinEnds(t) \/ SigHandled(t) => Running
    BY DEF SendSpinEnds, SigHandled
<1> QED BY <1>1, <1>2, <1>3, <1>4, <1>5 DEF Next

(* The ownership invariant is kept by every step of a running server,      *)
(* whoever takes it, until the destructor runs.                            *)
LEMMA UpStep ==
    ASSUME TypeInv, TypeInv', KeepOnly, UpInv, JoinInv, Running, Next, ~Delete
    PROVE  UpInv' /\ JoinInv'
<1>q. ASSUME Quiet /\ LockInv' /\ EpollInv' /\ ReqInv' /\ JoinInv'
      PROVE  UpInv' /\ JoinInv'
    BY <1>q, QuietStep DEF UpInv
<1>1. CASE Client
    BY <1>1, <1>q, QuietClients DEF Client
<1>2. CASE Main
    BY <1>2, <1>q, QuietStop, QuietThreads DEF Main
<1>3. ASSUME NEW t \in Threads, svc(t) PROVE UpInv' /\ JoinInv'
    <2>1. CASE TakeConn(t) BY <2>1, TakeConnStep
    <2>2. CASE create_handle(t) BY <2>2, create_handleStep
    <2>3. CASE AddNew(t) BY <2>3, AddNewStep
    <2>4. CASE \E c \in Conns : Accept(t, c) BY <2>4, AcceptStep
    <2> QED BY <2>1, <2>2, <2>3, <2>4, <1>3, <1>q, QuietThreads DEF svc
<1>4. ASSUME NEW t \in Threads, recv_request(t) PROVE UpInv' /\ JoinInv'
    <2>1. CASE get_handle(t) BY <2>1, get_handleStep
    <2>2. CASE ReleaseKeep(t) BY <2>2, ReleaseKeepStep
    <2>3. CASE ReleaseClose(t) BY <2>3, ReleaseCloseStep
    <2>4. CASE EraseHandle(t) BY <2>4, EraseHandleStep
    <2>5. CASE ReAdd(t) BY <2>5, ReAddStep
    <2> QED BY <2>1, <2>2, <2>3, <2>4, <2>5, <1>4, <1>q, QuietThreads,
            NoBadStep DEF recv_request
<1>5. ASSUME NEW t \in Threads, SendSpinEnds(t) \/ SigHandled(t)
      PROVE  UpInv' /\ JoinInv'
    BY <1>5, <1>q, QuietThreads
<1> QED BY <1>1, <1>2, <1>3, <1>4, <1>5 DEF Next, Ended

(* ~Http_Server() runs when join() has seen every thread leave svc(), and  *)
(* its loop over m_fd_set deletes every handle that is still allocated.    *)
LEMMA DeleteStep ==
    ASSUME TypeInv, UpInv, JoinInv, Delete
    PROVE  DownInv' /\ JoinInv' /\ fault' = "none" /\ main' = "deleted"
<1>1. \A t \in Threads : pc'[t] = "done"
    BY DEF JoinInv, Delete
<1>2. \A c \in Conns : ~live'[c]
    BY DEF Delete, UpInv, MapInv, TypeInv, TypeOK, HandleType
<1> QED BY <1>1, <1>2 DEF DownInv, JoinInv, Delete

(* The initial state satisfies the ownership invariant.                    *)
LEMMA ServerInit == Init => ServerInv
<1> SUFFICES ASSUME Init PROVE ServerInv
    OBVIOUS
<1>1. TypeOK /\ FdInv
    BY TypeInit DEF TypeInv
<1>2. JoinInv /\ fault = "none" /\ main # "deleted"
    BY DEF Init, JoinInv
<1>3. LockInv /\ OwnInv /\ ServeInv /\ ReqInv
    BY DEF Init, LockInv, OwnInv, ServeInv, ReqInv, Looping, Working, Owning,
       Serving
<1>4. EpollInv /\ SockInv /\ NoOrphanInv
    BY DEF Init, EpollInv, SockInv, NoOrphanInv, PipeFd, ListenFd, Fds
<1>5. MapInv
    BY DEF Init, MapInv
<1>6. RefInv
    BY DEF Init, RefInv, Held, Serving
<1> QED BY <1>1, <1>2, <1>3, <1>4, <1>5, <1>6 DEF ServerInv, UpInv

(* Every step of the specification keeps the ownership invariant.          *)
LEMMA ServerStep ==
    ASSUME KeepOnly
    PROVE  ServerInv /\ TypeInv /\ TypeInv' /\ [Next]_vars => ServerInv'
<1> SUFFICES ASSUME ServerInv, TypeInv, TypeInv', [Next]_vars PROVE ServerInv'
    OBVIOUS
<1>0. TypeOK' /\ FdInv' /\ JoinInv /\ fault = "none"
    BY DEF TypeInv, ServerInv
<1>1. CASE UNCHANGED vars
    BY <1>1 DEF vars, ServerInv, TypeOK, NetType, PollType, HandleType,
       ThreadType, MainType, FdInv, JoinInv, UpInv, LockInv, EpollInv, OwnInv,
       SockInv, MapInv, Inserting, Erasing, ServeInv, RefInv, Held, ReqInv,
       NoOrphanInv, DownInv
<1>2. CASE Running /\ Next
    <2>1. UpInv /\ main # "deleted"
        BY <1>2 DEF ServerInv
    <2>2. CASE Delete
        BY <2>1, <2>2, <1>0, DeleteStep DEF ServerInv
    <2>3. CASE ~Delete
        <3>1. UpInv' /\ JoinInv'
            BY <2>1, <2>3, <1>0, <1>2, UpStep
        <3>2. \A t \in Threads : ~AssertHandle(t) /\ ~UseAfterFree(t)
                                                  /\ ~EmptyBodyCrash(t)
            BY <2>1, NoBadStep
        <3>3. fault' = "none" /\ main' # "deleted"
            BY <2>1, <2>3, <3>2, <1>0, <1>2, StaysUp
        <3> QED BY <3>1, <3>3, <1>0 DEF ServerInv
    <2> QED BY <2>2, <2>3
<1>3. CASE ~Running /\ Next
    <2>1. Ended
        BY <1>3, OnlyRunning
    <2> QED BY <2>1, <1>1 DEF Ended
<1> QED BY <1>1, <1>2, <1>3

(* When every client asks for keep-alive and sends content, ServerInv is   *)
(* an invariant: a descriptor is registered with epoll or in the hands of  *)
(* one thread, and the map, the reference counts and the kernel agree.     *)
THEOREM ServerInvariant == ASSUME KeepOnly PROVE Spec => []ServerInv
<1>1. ServerInv /\ TypeInv /\ TypeInv' /\ [Next]_vars => ServerInv'
    BY ServerStep
<1> QED BY <1>1, ServerInit, TypeInit, TypeStep, PTL DEF Spec

(* No two threads serve one connection, and _ref counts its holder, for    *)
(* any number of receiver threads and keep-alive clients.                  *)
THEOREM OneOwner == ASSUME KeepOnly PROVE Spec => []SingleOwner
<1>1. ServerInv => SingleOwner
    <2> SUFFICES ASSUME ServerInv, NEW c \in Conns
                 PROVE  /\ \A t, u \in Holders(c) : t = u
                        /\ live[c] => ref[c] = IF Holders(c) = {} THEN 0 ELSE 1
        BY DEF SingleOwner
    <2>1. CASE main = "deleted"
        BY <2>1 DEF ServerInv, DownInv, Holders, Serving
    <2>2. CASE main # "deleted"
        <3>0. UpInv /\ FdInv
            BY <2>2 DEF ServerInv
        <3>1. ASSUME NEW t \in Holders(c), NEW u \in Holders(c) PROVE t = u
            <4>1. /\ t \in Threads /\ u \in Threads
                  /\ pc[t] \in Serving /\ pc[u] \in Serving
                  /\ hdle[t] = c /\ hdle[u] = c
                BY <3>1 DEF Holders
            <4>2. /\ fd[t] \in Fds /\ fd[u] \in Fds
                  /\ sock[fd[t]] = c /\ sock[fd[u]] = c
                BY <4>1, <3>0 DEF UpInv, ServeInv, FdInv, Owning
            <4>3. fd[t] = fd[u]
                BY <4>2, <3>0, ConnAssumption DEF UpInv, SockInv
            <4> QED BY <4>1, <4>3, <3>0 DEF UpInv, OwnInv, Working, Owning,
                    Serving
        <3>2. Held(c) <=> Holders(c) # {}
            BY DEF Held, Holders
        <3> QED BY <3>0, <3>1, <3>2 DEF UpInv, RefInv
    <2> QED BY <2>1, <2>2
<1> QED BY <1>1, ServerInvariant, PTL

(* The process does not die: assert(hdle) holds in every recv_request()    *)
(* and no thread uses a handle that another one has deleted.               *)
THEOREM FaultFree == ASSUME KeepOnly PROVE Spec => []NoFault
<1>1. ServerInv => NoFault
    BY DEF ServerInv, NoFault
<1> QED BY <1>1, ServerInvariant, PTL

(* A request is read from, and answered on, the connection whose handle    *)
(* the thread holds, although release_handle() frees descriptors that      *)
(* accept() hands out again.                                               *)
THEOREM OwnSocket == ASSUME KeepOnly PROVE Spec => []ServesOwnSocket
<1>1. ServerInv => ServesOwnSocket
    BY DEF ServerInv, UpInv, DownInv, ServeInv, ServesOwnSocket, Serving
<1> QED BY <1>1, ServerInvariant, PTL

(* An open connection is never forgotten: it is registered with epoll or   *)
(* in the hands of a thread.                                               *)
THEOREM NeverOrphaned == ASSUME KeepOnly PROVE Spec => []NoOrphan
<1>1. ServerInv => NoOrphan
    BY DEF ServerInv, UpInv, NoOrphanInv, NoOrphan, Working
<1> QED BY <1>1, ServerInvariant, PTL

-----------------------------------------------------------------------------
(***************************************************************************)
(* The bookkeeping of connections, for every kind of request.              *)
(***************************************************************************)
\* A step that leaves the map, the sockets and the count alone, and neither
\* enters nor leaves a critical section of the map.
Still ==
    /\ UNCHANGED <<sock, m_fd_set, live, now_connections>>
    /\ main' # "deleted"
    /\ \A c \in Conns : \/ phase'[c] = phase[c]
                        \/ /\ phase[c] \in {"new", "pending"}
                           /\ phase'[c] \in {"pending", "closed"}
    /\ \A u \in Threads :
          /\ pc'[u] = "erase" <=> pc[u] = "erase"
          /\ pc'[u] = "insert" <=> pc[u] = "insert"
          /\ pc'[u] \in Serving => pc[u] \in Serving
          /\ pc'[u] \in Serving \cup {"erase", "insert"} =>
                fd'[u] = fd[u] /\ hdle'[u] = hdle[u]

\* BookInv while the process is up, without the types.
UpBook == LockInv /\ SockInv /\ EntryInv /\ JoinInv /\ ConnectionCount

(* A still step disturbs no entry, no socket and no count. *)
LEMMA StillStep ==
    ASSUME TypeInv, TypeInv', UpBook, main # "deleted", Still, LockInv', JoinInv'
    PROVE  UpBook'
<1>0. /\ NetType /\ NetType' /\ ThreadType /\ ThreadType' /\ FdInv /\ FdInv'
      /\ PollType /\ SockInv /\ EntryInv /\ ConnectionCount
    BY DEF TypeInv, TypeOK, UpBook
<1>1. SockInv'
    BY <1>0 DEF SockInv, Still, PollType
<1>2. EntryInv'
    <2>1. \A f \in Fds : Erasing(f) => Erasing(f)'
        BY DEF Erasing, Still
    <2>2. \A f \in Fds : m_fd_set'[f] # NoConn =>
             live'[m_fd_set'[f]] /\ (m_fd_set'[f] # sock'[f] => Erasing(f)')
        BY <2>1, <1>0 DEF EntryInv, Still
    <2>3. \A f, g \in Fds : m_fd_set'[f] = m_fd_set'[g] /\ m_fd_set'[f] # NoConn
                               => f = g
        BY <1>0 DEF EntryInv, Still
    <2>4. \A u \in Threads : pc'[u] = "erase" =>
             m_fd_set'[fd'[u]] = hdle'[u] /\ phase'[hdle'[u]] = "closed"
        <3> SUFFICES ASSUME NEW u \in Threads, pc'[u] = "erase"
                     PROVE  m_fd_set'[fd'[u]] = hdle'[u] /\ phase'[hdle'[u]] = "closed"
            OBVIOUS
        <3>1. pc[u] = "erase" /\ fd'[u] = fd[u] /\ hdle'[u] = hdle[u]
            BY DEF Still
        <3>2. hdle[u] \in Conns
            BY <3>1, <1>0 DEF FdInv
        <3> QED BY <3>1, <3>2, <1>0 DEF EntryInv, Still
    <2>5. \A u \in Threads : pc'[u] = "insert" =>
             sock'[fd'[u]] # NoConn /\ ~live'[sock'[fd'[u]]]
        BY <1>0 DEF EntryInv, Still
    <2>6. \A u \in Threads : pc'[u] \in Serving =>
             IF live'[hdle'[u]] THEN m_fd_set'[fd'[u]] = hdle'[u]
                                ELSE phase'[hdle'[u]] = "closed"
        <3> SUFFICES ASSUME NEW u \in Threads, pc'[u] \in Serving
                     PROVE  IF live'[hdle'[u]] THEN m_fd_set'[fd'[u]] = hdle'[u]
                                               ELSE phase'[hdle'[u]] = "closed"
            OBVIOUS
        <3>1. pc[u] \in Serving /\ fd'[u] = fd[u] /\ hdle'[u] = hdle[u]
            BY DEF Still
        <3>2. hdle[u] \in Conns
            BY <3>1, <1>0 DEF FdInv
        <3> QED BY <3>1, <3>2, <1>0 DEF EntryInv, Still
    <2>7. \A c \in Conns : phase'[c] \in {"new", "pending"} => ~live'[c]
        BY <1>0 DEF EntryInv, Still
    <2>8. \A c \in Conns : phase'[c] = "open" => \E f \in Fds : sock'[f] = c
        BY <1>0 DEF EntryInv, Still
    <2> QED BY <2>2, <2>3, <2>4, <2>5, <2>6, <2>7, <2>8 DEF EntryInv
<1>3. ConnectionCount'
    <2>1. {u \in Threads : pc'[u] = "erase"} = {u \in Threads : pc[u] = "erase"}
        BY DEF Still
    <2> QED BY <2>1, <1>0 DEF ConnectionCount, Still
<1> QED BY <1>1, <1>2, <1>3 DEF UpBook

(* What clients do is still. *)
LEMMA StillClients ==
    ASSUME TypeInv, LockInv, JoinInv, main # "deleted", NEW c \in Conns,
           \/ Connect(c)
           \/ \E k \in Kinds : SendHeader(c, k)
           \/ SendBody(c)
           \/ \E x \in PeerFaults : PeerFault(c, x)
    PROVE  Still /\ LockInv' /\ JoinInv'
<1>0. NetType
    BY DEF TypeInv, TypeOK
<1>1. CASE Connect(c)
    BY <1>1, <1>0 DEF Connect, Still, LockInv, JoinInv, NetType
<1>2. ASSUME NEW k \in Kinds, SendHeader(c, k)
      PROVE  Still /\ LockInv' /\ JoinInv'
    BY <1>2, <1>0 DEF SendHeader, Still, LockInv, JoinInv
<1>3. CASE SendBody(c)
    BY <1>3, <1>0 DEF SendBody, Still, LockInv, JoinInv
<1>4. ASSUME NEW x \in PeerFaults, PeerFault(c, x)
      PROVE  Still /\ LockInv' /\ JoinInv'
    BY <1>4, <1>0 DEF PeerFault, Still, LockInv, JoinInv
<1> QED BY <1>1, <1>2, <1>3, <1>4

(* So are the steps of svc() that leave the map alone. *)
LEMMA StillLoop ==
    ASSUME TypeInv, LockInv, JoinInv, main # "deleted", NEW t \in Threads,
           \/ LoopTest(t) \/ LockEpoll(t) \/ EpollWait(t) \/ EpollEintr(t)
           \/ TakeListen(t) \/ TakePipe(t) \/ TakeConn(t)
           \/ AcceptEnd(t) \/ AddNew(t)
           \/ \E c \in Conns : AcceptRefuse(t, c)
    PROVE  Still /\ LockInv' /\ JoinInv'
<1>0. ThreadType /\ NetType
    BY DEF TypeInv, TypeOK
<1>1. CASE LoopTest(t)
    BY <1>1, <1>0, ThreadAssumption DEF LoopTest, Still, LockInv, JoinInv,
       ThreadType, Looping, Serving
<1>2. CASE LockEpoll(t)
    BY <1>2, <1>0, ThreadAssumption DEF LockEpoll, Still, LockInv, JoinInv,
       ThreadType, Looping, Serving
<1>3. CASE EpollWait(t)
    BY <1>3, <1>0, ThreadAssumption DEF EpollWait, Still, LockInv, JoinInv,
       ThreadType, Looping, Serving
<1>4. CASE EpollEintr(t)
    BY <1>4, <1>0, ThreadAssumption DEF EpollEintr, Still, LockInv, JoinInv,
       ThreadType, Looping, Serving
<1>5. CASE TakeListen(t)
    BY <1>5, <1>0, ThreadAssumption DEF TakeListen, Still, LockInv, JoinInv,
       ThreadType, Looping, Serving
<1>6. CASE TakePipe(t)
    BY <1>6, <1>0, ThreadAssumption DEF TakePipe, Still, LockInv, JoinInv,
       ThreadType, Looping, Serving
<1>7. CASE TakeConn(t)
    BY <1>7, <1>0, ThreadAssumption DEF TakeConn, Still, LockInv, JoinInv,
       ThreadType, Looping, Serving, del_input_fd
<1>8. ASSUME NEW c \in Conns, AcceptRefuse(t, c)
      PROVE  Still /\ LockInv' /\ JoinInv'
    BY <1>8, <1>0, ThreadAssumption DEF AcceptRefuse, Still, LockInv, JoinInv,
       ThreadType, Looping, Serving
<1>9. CASE AcceptEnd(t)
    BY <1>9, <1>0, ThreadAssumption DEF AcceptEnd, Still, LockInv, JoinInv,
       ThreadType, Looping, Serving
<1>10. CASE AddNew(t)
    BY <1>10, <1>0, ThreadAssumption DEF AddNew, Still, LockInv, JoinInv,
       ThreadType, Looping, Serving
<1> QED BY <1>1, <1>2, <1>3, <1>4, <1>5, <1>6, <1>7, <1>8, <1>9, <1>10

(* The steps of recv_request() on a handle that it holds. *)
LEMMA StillRecv ==
    ASSUME TypeInv, LockInv, JoinInv, main # "deleted", NEW t \in Threads,
           \/ AssertHandle(t) \/ UseAfterFree(t) \/ ReadHeader(t)
           \/ GetInfo(t) \/ HeaderFails(t) \/ ReadBody(t) \/ BodyFails(t)
           \/ EmptyBodyCrash(t) \/ EmptyBodyReturn(t)
    PROVE  Still /\ LockInv' /\ JoinInv'
<1>0. ThreadType /\ NetType
    BY DEF TypeInv, TypeOK
<1>1. CASE AssertHandle(t)
    BY <1>1, <1>0, ThreadAssumption DEF AssertHandle, Still, LockInv, JoinInv,
       ThreadType, Looping, Serving
<1>2. CASE UseAfterFree(t)
    BY <1>2, <1>0, ThreadAssumption DEF UseAfterFree, Still, LockInv, JoinInv,
       ThreadType, Looping, Serving
<1>3. CASE ReadHeader(t)
    BY <1>3, <1>0, ThreadAssumption DEF ReadHeader, Still, LockInv, JoinInv,
       ThreadType, Looping, Serving
<1>4. CASE GetInfo(t)
    BY <1>4, <1>0, ThreadAssumption DEF GetInfo, Still, LockInv, JoinInv,
       ThreadType, Looping, Serving
<1>5. CASE HeaderFails(t)
    BY <1>5, <1>0, ThreadAssumption DEF HeaderFails, Still, LockInv, JoinInv,
       ThreadType, Looping, Serving
<1>6. CASE ReadBody(t)
    BY <1>6, <1>0, ThreadAssumption DEF ReadBody, Still, LockInv, JoinInv,
       ThreadType, Looping, Serving
<1>7. CASE BodyFails(t)
    BY <1>7, <1>0, ThreadAssumption DEF BodyFails, Still, LockInv, JoinInv,
       ThreadType, Looping, Serving
<1>8. CASE EmptyBodyCrash(t)
    BY <1>8, <1>0, ThreadAssumption DEF EmptyBodyCrash, Still, LockInv, JoinInv,
       ThreadType, Looping, Serving
<1>9. CASE EmptyBodyReturn(t)
    BY <1>9, <1>0, ThreadAssumption DEF EmptyBodyReturn, Still, LockInv, JoinInv,
       ThreadType, Looping, Serving
<1> QED BY <1>1, <1>2, <1>3, <1>4, <1>5, <1>6, <1>7, <1>8, <1>9

(* The steps of the worker that close nothing. *)
LEMMA StillReply ==
    ASSUME TypeInv, LockInv, JoinInv, main # "deleted", NEW t \in Threads,
           \/ send_result(t) \/ SendFails(t) \/ SendSpinEnds(t)
           \/ ReleaseKeep(t) \/ ReleaseShared(t) \/ ReAdd(t) \/ SigHandled(t)
    PROVE  Still /\ LockInv' /\ JoinInv'
<1>0. ThreadType /\ NetType
    BY DEF TypeInv, TypeOK
<1>1. CASE send_result(t)
    BY <1>1, <1>0, ThreadAssumption DEF send_result, Still, LockInv, JoinInv,
       ThreadType, Looping, Serving
<1>2. CASE SendFails(t)
    BY <1>2, <1>0, ThreadAssumption DEF SendFails, Still, LockInv, JoinInv,
       ThreadType, Looping, Serving
<1>3. CASE SendSpinEnds(t)
    BY <1>3, <1>0, ThreadAssumption DEF SendSpinEnds, Still, LockInv, JoinInv,
       ThreadType, Looping, Serving
<1>4. CASE ReleaseKeep(t)
    BY <1>4, <1>0, ThreadAssumption DEF ReleaseKeep, Still, LockInv, JoinInv,
       ThreadType, Looping, Serving
<1>5. CASE ReleaseShared(t)
    BY <1>5, <1>0, ThreadAssumption DEF ReleaseShared, Still, LockInv, JoinInv,
       ThreadType, Looping, Serving, AfterRelease
<1>6. CASE ReAdd(t)
    BY <1>6, <1>0, ThreadAssumption DEF ReAdd, Still, LockInv, JoinInv,
       ThreadType, Looping, Serving
<1>7. CASE SigHandled(t)
    BY <1>7, <1>0, ThreadAssumption DEF SigHandled, Still, LockInv, JoinInv,
       ThreadType, Looping, Serving
<1> QED BY <1>1, <1>2, <1>3, <1>4, <1>5, <1>6, <1>7

(* And stop(), until the destructor. *)
LEMMA StillStop ==
    ASSUME LockInv, JoinInv, main # "deleted",
           \/ StopFlag \/ StopPipe
           \/ \E t \in Threads : JoinKill(t) \/ JoinWait(t)
    PROVE  Still /\ LockInv' /\ JoinInv'
<1>1. CASE StopFlag BY <1>1 DEF StopFlag, Still, LockInv, JoinInv
<1>2. CASE StopPipe BY <1>2 DEF StopPipe, Still, LockInv, JoinInv
<1>3. ASSUME NEW t \in Threads, JoinKill(t)
      PROVE  Still /\ LockInv' /\ JoinInv'
    BY <1>3 DEF JoinKill, Still, LockInv, JoinInv
<1>4. ASSUME NEW t \in Threads, JoinWait(t)
      PROVE  Still /\ LockInv' /\ JoinInv'
    BY <1>4 DEF JoinWait, Still, LockInv, JoinInv
<1> QED BY <1>1, <1>2, <1>3, <1>4
-----------------------------------------------------------------------------
(* The sets behind ConnectionCount are finite. *)
LEMMA BookFinite ==
    ASSUME TypeInv
    PROVE  /\ IsFiniteSet(Fds)
           /\ IsFiniteSet({f \in Fds : sock[f] # NoConn})
           /\ IsFiniteSet({u \in Threads : pc[u] = "erase"})
<1>1. IsFiniteSet(Fds)
    BY BoundAssumption, FS_Interval DEF Fds
<1>2. {f \in Fds : sock[f] # NoConn} \in SUBSET Fds
      /\ {u \in Threads : pc[u] = "erase"} \in SUBSET Threads
    OBVIOUS
<1> QED BY <1>1, <1>2, FS_Subset, ThreadAssumption

(* accept() opens one more socket and counts it: the limit was tested      *)
(* before, and the entry of a handle being erased does not concern it.     *)
LEMMA AcceptBook ==
    ASSUME TypeInv, TypeInv', UpBook, main # "deleted", NEW t \in Threads,
           NEW c \in Conns, Accept(t, c)
    PROVE  UpBook'
<1>0. /\ NetType /\ ThreadType /\ PollType /\ HandleType /\ FdInv /\ LockInv
      /\ SockInv /\ EntryInv /\ JoinInv /\ ConnectionCount
    BY DEF TypeInv, TypeOK, UpBook
<1>1. PICK f \in FreeFds : /\ ~OverLimit(f)
                          /\ sock' = [sock EXCEPT ![f] = c]
                          /\ fd' = [fd EXCEPT ![t] = f]
    BY DEF Accept
<1>2. /\ f \in Fds /\ sock[f] = NoConn /\ sock'[f] = c /\ c # NoConn
      /\ \A g \in Fds : g # f => sock'[g] = sock[g]
      /\ phase[c] = "pending" /\ phase'[c] = "open"
      /\ \A d \in Conns : d # c => phase'[d] = phase[d]
      /\ m_fd_set' = m_fd_set /\ live' = live /\ hdle' = hdle
      /\ ~live[c]
    BY <1>1, <1>0, ConnAssumption DEF Accept, FreeFds, PollType, NetType,
       EntryInv
<1>3. /\ pc[t] = "accept" /\ pc'[t] = "insert" /\ fd'[t] = f
      /\ \A u \in Threads : u # t => pc'[u] = pc[u] /\ fd'[u] = fd[u]
    BY <1>1, <1>0 DEF Accept, ThreadType
<1>4. LockInv' /\ JoinInv'
    BY <1>0, <1>3 DEF Accept, LockInv, JoinInv, Looping
<1>5. SockInv'
    <2>1. \A g \in Fds : sock[g] # c
        BY <1>0, <1>2 DEF SockInv
    <2>2. \A g \in Fds : sock'[g] # NoConn => phase'[sock'[g]] = "open"
        BY <1>0, <1>2, <2>1 DEF SockInv, PollType
    <2> QED BY <1>0, <1>2, <2>1, <2>2 DEF SockInv
<1>6. EntryInv'
    <2>1. \A g \in Fds : Erasing(g)' <=> Erasing(g)
        BY <1>3 DEF Erasing
    <2>2. \A g \in Fds : m_fd_set'[g] # NoConn =>
             live'[m_fd_set'[g]] /\ (m_fd_set'[g] # sock'[g] => Erasing(g)')
        <3> SUFFICES ASSUME NEW g \in Fds, m_fd_set[g] # NoConn
                     PROVE  live[m_fd_set[g]] /\ (m_fd_set[g] # sock'[g] => Erasing(g))
            BY <1>2, <2>1
        <3>1. CASE g = f BY <3>1, <1>0, <1>2 DEF EntryInv
        <3>2. CASE g # f BY <3>2, <1>0, <1>2 DEF EntryInv
        <3> QED BY <3>1, <3>2
    <2>3. \A g, h \in Fds : m_fd_set'[g] = m_fd_set'[h] /\ m_fd_set'[g] # NoConn
                               => g = h
        BY <1>0, <1>2 DEF EntryInv
    <2>4. \A u \in Threads : pc'[u] = "erase" =>
             m_fd_set'[fd'[u]] = hdle'[u] /\ phase'[hdle'[u]] = "closed"
        <3> SUFFICES ASSUME NEW u \in Threads, pc'[u] = "erase"
                     PROVE  m_fd_set[fd[u]] = hdle[u] /\ phase'[hdle[u]] = "closed"
            BY <1>2, <1>3
        <3>1. pc[u] = "erase" /\ hdle[u] \in Conns
            BY <1>3, <1>0 DEF FdInv
        <3>2. m_fd_set[fd[u]] = hdle[u] /\ phase[hdle[u]] = "closed"
            BY <3>1, <1>0 DEF EntryInv
        <3> QED BY <3>1, <3>2, <1>2
    <2>5. \A u \in Threads : pc'[u] = "insert" =>
             sock'[fd'[u]] # NoConn /\ ~live'[sock'[fd'[u]]]
        <3>1. \A u \in Threads : pc'[u] = "insert" => u = t
            BY <1>3, <1>0 DEF LockInv, Looping
        <3> QED BY <3>1, <1>2, <1>3
    <2>6. \A u \in Threads : pc'[u] \in Serving =>
             IF live'[hdle'[u]] THEN m_fd_set'[fd'[u]] = hdle'[u]
                                ELSE phase'[hdle'[u]] = "closed"
        <3> SUFFICES ASSUME NEW u \in Threads, pc'[u] \in Serving
                     PROVE  IF live[hdle[u]] THEN m_fd_set[fd[u]] = hdle[u]
                                             ELSE phase'[hdle[u]] = "closed"
            BY <1>2, <1>3 DEF Serving
        <3>1. u # t /\ pc[u] \in Serving /\ hdle[u] \in Conns
            BY <1>3, <1>0 DEF FdInv, Serving
        <3>2. IF live[hdle[u]] THEN m_fd_set[fd[u]] = hdle[u]
                               ELSE phase[hdle[u]] = "closed"
            BY <3>1, <1>0 DEF EntryInv
        <3> QED BY <3>1, <3>2, <1>2
    <2>7. \A d \in Conns : phase'[d] \in {"new", "pending"} => ~live'[d]
        BY <1>0, <1>2 DEF EntryInv
    <2>8. \A d \in Conns : phase'[d] = "open" => \E g \in Fds : sock'[g] = d
        <3> SUFFICES ASSUME NEW d \in Conns, d # c, phase[d] = "open"
                     PROVE  \E g \in Fds : sock'[g] = d
            BY <1>2
        <3>1. PICK g \in Fds : sock[g] = d
            BY <1>0 DEF EntryInv
        <3> QED BY <3>1, <1>2, ConnAssumption
    <2> QED BY <2>2, <2>3, <2>4, <2>5, <2>6, <2>7, <2>8 DEF EntryInv
<1>7. ConnectionCount'
    <2> DEFINE open == {g \in Fds : sock[g] # NoConn}
               erasers == {u \in Threads : pc[u] = "erase"}
    <2>1. IsFiniteSet(open) /\ IsFiniteSet(erasers)
        BY BookFinite
    <2>2. {g \in Fds : sock'[g] # NoConn} = open \cup {f} /\ f \notin open
        BY <1>2
    <2>3. {u \in Threads : pc'[u] = "erase"} = erasers
        BY <1>3
    <2>4. Cardinality(open) \in Nat /\ Cardinality(erasers) \in Nat
        BY <2>1, FS_CardinalityType
    <2>5. now_connections = Cardinality(open) + Cardinality(erasers)
        BY <1>0 DEF ConnectionCount
    <2>6. now_connections' = now_connections + 1 /\ ~(now_connections >= MAX_FD_NUM)
        BY <1>1 DEF Accept, OverLimit
    <2> HIDE DEF open, erasers
    <2>7. Cardinality(open \cup {f}) = Cardinality(open) + 1
        BY <2>1, <2>2, FS_AddElement
    <2>8. now_connections' = Cardinality(open \cup {f}) + Cardinality(erasers)
          /\ now_connections' <= MAX_FD_NUM
        BY <2>4, <2>5, <2>6, <2>7, BoundAssumption
    <2> QED BY <2>2, <2>3, <2>8 DEF ConnectionCount
<1> QED BY <1>4, <1>5, <1>6, <1>7 DEF UpBook

(* With _map_mutex free nobody is erasing an entry: the map and the kernel *)
(* agree on every descriptor that has one.                                 *)
LEMMA FreeMap ==
    ASSUME UpBook, map_mutex = NoThread
    PROVE  /\ \A u \in Threads : pc[u] # "erase"
           /\ \A f \in Fds : m_fd_set[f] # NoConn =>
                 m_fd_set[f] = sock[f] /\ live[m_fd_set[f]]
<1>1. \A u \in Threads : pc[u] # "erase"
    BY ThreadAssumption DEF UpBook, LockInv
<1> QED BY <1>1 DEF UpBook, EntryInv, Erasing

(* insert_handle() finds no entry for a descriptor that accept() has just  *)
(* returned.                                                               *)
LEMMA InsertFree ==
    ASSUME TypeInv, UpBook, map_mutex = NoThread, NEW t \in Threads,
           pc[t] = "insert"
    PROVE  m_fd_set[fd[t]] = NoConn
<1>1. fd[t] \in Fds
    BY DEF TypeInv, FdInv, Owning
<1> QED BY <1>1, FreeMap DEF UpBook, EntryInv

(* create_handle() allocates a handle that no thread holds. *)
LEMMA create_handleBook ==
    ASSUME TypeInv, TypeInv', UpBook, main # "deleted", NEW t \in Threads,
           create_handle(t)
    PROVE  UpBook'
<1>0. /\ NetType /\ ThreadType /\ PollType /\ HandleType /\ FdInv /\ LockInv
      /\ SockInv /\ EntryInv /\ JoinInv /\ ConnectionCount
    BY DEF TypeInv, TypeOK, UpBook
<1> DEFINE f == fd[t]
           c == sock[f]
<1>1. /\ pc[t] = "insert" /\ pc'[t] = "addnew" /\ map_mutex = NoThread
      /\ \A u \in Threads : u # t => pc'[u] = pc[u]
      /\ fd' = fd /\ hdle' = hdle /\ sock' = sock /\ phase' = phase
    BY <1>0 DEF create_handle, ThreadType
<1>2. f \in Fds /\ c \in Conns /\ ~live[c] /\ phase[c] = "open"
    BY <1>1, <1>0 DEF FdInv, PollType, EntryInv, SockInv, Owning
<1>3. m_fd_set[f] = NoConn
    BY <1>1, InsertFree
<1>4. /\ m_fd_set'[f] = c /\ live'[c]
      /\ \A g \in Fds : g # f => m_fd_set'[g] = m_fd_set[g]
      /\ \A d \in Conns : d # c => live'[d] = live[d]
    BY <1>2, <1>3, <1>0 DEF create_handle, HandleType
<1>5. /\ \A u \in Threads : pc[u] # "erase"
      /\ \A g \in Fds : m_fd_set[g] # NoConn => m_fd_set[g] = sock[g]
                                                /\ live[m_fd_set[g]]
    BY <1>1, FreeMap
<1> HIDE DEF f, c
<1>6. LockInv' /\ JoinInv' /\ SockInv'
    BY <1>0, <1>1 DEF create_handle, LockInv, JoinInv, SockInv, Looping
<1>7. EntryInv'
    <2>1. \A g \in Fds : m_fd_set'[g] # NoConn =>
             live'[m_fd_set'[g]] /\ m_fd_set'[g] = sock'[g]
        <3> SUFFICES ASSUME NEW g \in Fds, m_fd_set'[g] # NoConn
                     PROVE  live'[m_fd_set'[g]] /\ m_fd_set'[g] = sock[g]
            BY <1>1
        <3>1. CASE g = f BY <3>1, <1>4 DEF c
        <3>2. CASE g # f
            <4>1. /\ m_fd_set'[g] = m_fd_set[g] /\ m_fd_set[g] \in Conns
                  /\ m_fd_set[g] = sock[g] /\ live[m_fd_set[g]]
                BY <3>2, <1>4, <1>5, <1>0 DEF HandleType
            <4>2. m_fd_set[g] # c
                BY <4>1, <1>2
            <4> QED BY <4>1, <4>2, <1>4
        <3> QED BY <3>1, <3>2
    <2>2. \A g, h \in Fds : m_fd_set'[g] = m_fd_set'[h] /\ m_fd_set'[g] # NoConn
                               => g = h
        BY <1>0, <1>1, <2>1 DEF SockInv
    <2>3. \A u \in Threads : pc'[u] # "erase"
        BY <1>1, <1>5
    <2>4. \A u \in Threads : pc'[u] # "insert"
        BY <1>1, <1>0 DEF LockInv, Looping
    <2>5. \A u \in Threads : pc'[u] \in Serving =>
             IF live'[hdle'[u]] THEN m_fd_set'[fd'[u]] = hdle'[u]
                                ELSE phase'[hdle'[u]] = "closed"
        <3> SUFFICES ASSUME NEW u \in Threads, pc'[u] \in Serving
                     PROVE  IF live'[hdle[u]] THEN m_fd_set'[fd[u]] = hdle[u]
                                              ELSE phase[hdle[u]] = "closed"
            BY <1>1
        <3>1. u # t /\ pc[u] \in Serving /\ hdle[u] \in Conns /\ fd[u] \in Fds
            BY <1>1, <1>0 DEF FdInv, Serving, Owning
        <3>2. IF live[hdle[u]] THEN m_fd_set[fd[u]] = hdle[u]
                               ELSE phase[hdle[u]] = "closed"
            BY <3>1, <1>0 DEF EntryInv
        <3>3. hdle[u] # c
            BY <3>2, <1>2
        <3>4. live[hdle[u]] => fd[u] # f
            BY <3>1, <3>2, <1>3, ConnAssumption
        <3> QED BY <3>1, <3>2, <3>3, <3>4, <1>4
    <2>6. \A d \in Conns : phase'[d] \in {"new", "pending"} => ~live'[d]
        BY <1>0, <1>1, <1>2, <1>4 DEF EntryInv
    <2>7. \A d \in Conns : phase'[d] = "open" => \E g \in Fds : sock'[g] = d
        BY <1>0, <1>1 DEF EntryInv
    <2> QED BY <2>1, <2>2, <2>3, <2>4, <2>5, <2>6, <2>7 DEF EntryInv
<1>8. ConnectionCount'
    <2>1. {u \in Threads : pc'[u] = "erase"} = {u \in Threads : pc[u] = "erase"}
        BY <1>1
    <2> QED BY <2>1, <1>0, <1>1 DEF ConnectionCount, create_handle
<1> QED BY <1>6, <1>7, <1>8 DEF UpBook

(* get_handle() finds an allocated handle. *)
LEMMA get_handleBook ==
    ASSUME TypeInv, TypeInv', UpBook, main # "deleted", NEW t \in Threads,
           get_handle(t)
    PROVE  UpBook'
<1>0. /\ NetType /\ ThreadType /\ PollType /\ HandleType /\ FdInv /\ LockInv
      /\ SockInv /\ EntryInv /\ JoinInv /\ ConnectionCount
    BY DEF TypeInv, TypeOK, UpBook
<1>1. /\ pc[t] = "get" /\ pc'[t] = "header" /\ fd' = fd
      /\ \A u \in Threads : u # t => pc'[u] = pc[u] /\ hdle'[u] = hdle[u]
      /\ hdle'[t] = m_fd_set[fd[t]] /\ m_fd_set[fd[t]] # NoConn
      /\ UNCHANGED <<sock, phase, m_fd_set, live, now_connections, main>>
    BY <1>0 DEF get_handle, ThreadType
<1>2. fd[t] \in Fds /\ live[m_fd_set[fd[t]]]
    BY <1>0, <1>1 DEF FdInv, Owning, EntryInv
<1>3. LockInv' /\ JoinInv' /\ SockInv'
    BY <1>0, <1>1 DEF get_handle, LockInv, JoinInv, SockInv, Looping
<1>4. EntryInv'
    <2>1. \A g \in Fds : Erasing(g)' <=> Erasing(g)
        BY <1>1 DEF Erasing
    <2>2. \A u \in Threads : pc'[u] \in Serving =>
             IF live'[hdle'[u]] THEN m_fd_set'[fd'[u]] = hdle'[u]
                                ELSE phase'[hdle'[u]] = "closed"
        BY <1>0, <1>1, <1>2 DEF EntryInv
    <2>3. \A u \in Threads : pc'[u] \in {"erase", "insert"} =>
             pc'[u] = pc[u] /\ hdle'[u] = hdle[u]
        BY <1>1
    <2> QED BY <2>1, <2>2, <2>3, <1>0, <1>1 DEF EntryInv
<1>5. ConnectionCount'
    <2>1. {u \in Threads : pc'[u] = "erase"} = {u \in Threads : pc[u] = "erase"}
        BY <1>1
    <2> QED BY <2>1, <1>0, <1>1 DEF ConnectionCount
<1> QED BY <1>3, <1>4, <1>5 DEF UpBook

(* release_handle() closes its own descriptor: it holds _map_mutex and the *)
(* handle is alive, so the entry, the handle and the socket agree.  The    *)
(* open socket becomes a closed one that is still counted.                 *)
LEMMA ReleaseCloseBook ==
    ASSUME TypeInv, TypeInv', UpBook, main # "deleted", NEW t \in Threads,
           ReleaseClose(t)
    PROVE  UpBook'
<1>0. /\ NetType /\ ThreadType /\ PollType /\ HandleType /\ FdInv /\ LockInv
      /\ SockInv /\ EntryInv /\ JoinInv /\ ConnectionCount
    BY DEF TypeInv, TypeOK, UpBook
<1> DEFINE f == fd[t]
           h == hdle[t]
<1>1. /\ pc[t] = "release" /\ pc'[t] = "erase" /\ live[h]
      /\ map_mutex = NoThread /\ map_mutex' = t
      /\ \A u \in Threads : u # t => pc'[u] = pc[u]
      /\ fd' = fd /\ hdle' = hdle /\ m_fd_set' = m_fd_set /\ live' = live
      /\ now_connections' = now_connections /\ main' = main
    BY <1>0 DEF ReleaseClose, ThreadType
<1>2. f \in Fds /\ h \in Conns /\ m_fd_set[f] = h
    BY <1>1, <1>0 DEF FdInv, EntryInv, Serving, Owning
<1>3. /\ \A u \in Threads : pc[u] # "erase"
      /\ \A g \in Fds : m_fd_set[g] # NoConn => m_fd_set[g] = sock[g]
                                                /\ live[m_fd_set[g]]
    BY <1>1, FreeMap
<1>4. sock[f] = h /\ h # NoConn
    BY <1>2, <1>3, ConnAssumption
<1>5. /\ sock'[f] = NoConn /\ phase'[h] = "closed"
      /\ \A g \in Fds : g # f => sock'[g] = sock[g] /\ sock[g] # h
      /\ \A d \in Conns : d # h => phase'[d] = phase[d]
    BY <1>2, <1>4, <1>0 DEF ReleaseClose, CloseFd, PollType, NetType, SockInv
<1> HIDE DEF f, h
<1>6. LockInv' /\ JoinInv'
    BY <1>0, <1>1, <1>3 DEF ReleaseClose, LockInv, JoinInv, Looping
<1>7. SockInv'
    <2>1. \A g \in Fds : sock'[g] # NoConn =>
             g # f /\ sock'[g] = sock[g] /\ sock[g] \in Conns /\ sock[g] # h
        BY <1>5, <1>0 DEF PollType
    <2> QED BY <2>1, <1>5, <1>0 DEF SockInv
<1>8. EntryInv'
    <2>1. Erasing(f)'
        BY <1>1 DEF Erasing, f
    <2>2. \A g \in Fds : m_fd_set'[g] # NoConn =>
             live'[m_fd_set'[g]] /\ (m_fd_set'[g] # sock'[g] => Erasing(g)')
        <3> SUFFICES ASSUME NEW g \in Fds, m_fd_set'[g] # NoConn
                     PROVE  /\ live'[m_fd_set'[g]]
                            /\ m_fd_set'[g] # sock'[g] => Erasing(g)'
            OBVIOUS
        <3>1. live'[m_fd_set'[g]]
            BY <1>1, <1>3
        <3>2. CASE g = f BY <3>1, <3>2, <1>1 DEF Erasing, f
        <3>3. CASE g # f BY <3>1, <3>3, <1>1, <1>3, <1>5
        <3> QED BY <3>2, <3>3
    <2>3. \A g, k \in Fds : m_fd_set'[g] = m_fd_set'[k] /\ m_fd_set'[g] # NoConn
                               => g = k
        BY <1>0, <1>1 DEF EntryInv
    <2>4. \A u \in Threads : pc'[u] = "erase" =>
             m_fd_set'[fd'[u]] = hdle'[u] /\ phase'[hdle'[u]] = "closed"
        <3>1. \A u \in Threads : pc'[u] = "erase" => u = t
            BY <1>1, <1>3
        <3> QED BY <3>1, <1>1, <1>2, <1>5 DEF f, h
    <2>5. \A u \in Threads : pc'[u] = "insert" =>
             sock'[fd'[u]] # NoConn /\ ~live'[sock'[fd'[u]]]
        <3> SUFFICES ASSUME NEW u \in Threads, pc'[u] = "insert"
                     PROVE  sock'[fd[u]] # NoConn /\ ~live[sock'[fd[u]]]
            BY <1>1
        <3>1. pc[u] = "insert" /\ fd[u] \in Fds
            BY <1>1, <1>0 DEF FdInv, Owning
        <3>2. sock[fd[u]] # NoConn /\ ~live[sock[fd[u]]]
            BY <3>1, <1>0 DEF EntryInv
        <3>3. fd[u] # f
            BY <3>2, <1>1, <1>4 
        <3> QED BY <3>1, <3>2, <3>3, <1>5
    <2>6. \A u \in Threads : pc'[u] \in Serving =>
             IF live'[hdle'[u]] THEN m_fd_set'[fd'[u]] = hdle'[u]
                                ELSE phase'[hdle'[u]] = "closed"
        <3> SUFFICES ASSUME NEW u \in Threads, pc'[u] \in Serving
                     PROVE  IF live[hdle[u]] THEN m_fd_set[fd[u]] = hdle[u]
                                             ELSE phase'[hdle[u]] = "closed"
            BY <1>1
        <3>1. pc[u] \in Serving /\ hdle[u] \in Conns
            BY <1>1, <1>0 DEF FdInv, Serving
        <3>2. IF live[hdle[u]] THEN m_fd_set[fd[u]] = hdle[u]
                               ELSE phase[hdle[u]] = "closed"
            BY <3>1, <1>0 DEF EntryInv
        <3> QED BY <3>1, <3>2, <1>5
    <2>7. \A d \in Conns : phase'[d] \in {"new", "pending"} => ~live'[d]
        BY <1>0, <1>1, <1>5 DEF EntryInv
    <2>8. \A d \in Conns : phase'[d] = "open" => \E g \in Fds : sock'[g] = d
        <3> SUFFICES ASSUME NEW d \in Conns, phase'[d] = "open"
                     PROVE  \E g \in Fds : sock'[g] = d
            OBVIOUS
        <3>1. d # h /\ phase[d] = "open"
            BY <1>5
        <3>2. PICK g \in Fds : sock[g] = d
            BY <3>1, <1>0 DEF EntryInv
        <3> QED BY <3>1, <3>2, <1>4, <1>5
    <2> QED BY <2>2, <2>3, <2>4, <2>5, <2>6, <2>7, <2>8 DEF EntryInv
<1>9. ConnectionCount'
    <2> DEFINE open == {g \in Fds : sock[g] # NoConn}
               erasers == {u \in Threads : pc[u] = "erase"}
    <2>1. IsFiniteSet(open) /\ IsFiniteSet(erasers)
        BY BookFinite
    <2>2. {g \in Fds : sock'[g] # NoConn} = open \ {f} /\ f \in open
        BY <1>2, <1>4, <1>5
    <2>3. {u \in Threads : pc'[u] = "erase"} = erasers \cup {t} /\ t \notin erasers
        BY <1>1
    <2>4. Cardinality(open) \in Nat /\ Cardinality(erasers) \in Nat
        BY <2>1, FS_CardinalityType
    <2>5. /\ now_connections = Cardinality(open) + Cardinality(erasers)
          /\ now_connections <= MAX_FD_NUM
        BY <1>0 DEF ConnectionCount
    <2> HIDE DEF open, erasers
    <2>6. Cardinality(open \ {f}) = Cardinality(open) - 1
        BY <2>1, <2>2, FS_RemoveElement
    <2>7. Cardinality(erasers \cup {t}) = Cardinality(erasers) + 1
        BY <2>1, <2>3, FS_AddElement
    <2>8. now_connections' = Cardinality(open \ {f}) + Cardinality(erasers \cup {t})
          /\ now_connections' <= MAX_FD_NUM
        BY <2>4, <2>5, <2>6, <2>7, <1>1
    <2> QED BY <2>2, <2>3, <2>8 DEF ConnectionCount
<1> QED BY <1>6, <1>7, <1>8, <1>9 DEF UpBook

(* ... and takes it out of the map and the count: the entry it erases is   *)
(* the only one of the handle it deletes.                                  *)
LEMMA EraseHandleBook ==
    ASSUME TypeInv, TypeInv', UpBook, main # "deleted", NEW t \in Threads,
           EraseHandle(t)
    PROVE  UpBook'
<1>0. /\ NetType /\ ThreadType /\ PollType /\ HandleType /\ FdInv /\ LockInv
      /\ SockInv /\ EntryInv /\ JoinInv /\ ConnectionCount
    BY DEF TypeInv, TypeOK, UpBook
<1> DEFINE f == fd[t]
           h == hdle[t]
<1>1. /\ pc[t] = "erase" /\ pc'[t] \in {"top", "readd"} /\ map_mutex' = NoThread
      /\ \A u \in Threads : u # t => /\ pc'[u] = pc[u]
                                     /\ fd'[u] = fd[u] /\ hdle'[u] = hdle[u]
      /\ UNCHANGED <<sock, phase, main, unjoined>>
    BY <1>0 DEF EraseHandle, AfterRelease, ThreadType
<1>2. /\ f \in Fds /\ h \in Conns /\ m_fd_set[f] = h /\ phase[h] = "closed"
      /\ \A u \in Threads : pc[u] = "erase" => u = t
    BY <1>1, <1>0 DEF FdInv, EntryInv, LockInv, Owning
<1>3. /\ m_fd_set'[f] = NoConn /\ ~live'[h]
      /\ \A g \in Fds : g # f => m_fd_set'[g] = m_fd_set[g]
      /\ \A d \in Conns : d # h => live'[d] = live[d]
    BY <1>2, <1>0 DEF EraseHandle, HandleType
<1>4. \A g \in Fds : m_fd_set'[g] # NoConn =>
         /\ g # f /\ m_fd_set'[g] = m_fd_set[g]
         /\ m_fd_set[g] \in Conns /\ m_fd_set[g] # h
    BY <1>2, <1>3, <1>0, ConnAssumption DEF EntryInv, HandleType
<1>5. \A g \in Fds : g # f => ~Erasing(g)
    BY <1>2 DEF Erasing
<1> HIDE DEF f, h
<1>6. LockInv' /\ JoinInv' /\ SockInv'
    <2>1. LockInv'
        BY <1>0, <1>1, <1>2 DEF EraseHandle, LockInv, Looping
    <2> QED BY <2>1, <1>0, <1>1 DEF JoinInv, SockInv
<1>7. EntryInv'
    <2>1. \A g \in Fds : m_fd_set'[g] # NoConn =>
             live'[m_fd_set'[g]] /\ (m_fd_set'[g] # sock'[g] => Erasing(g)')
        BY <1>0, <1>1, <1>3, <1>4, <1>5 DEF EntryInv
    <2>2. \A g, k \in Fds : m_fd_set'[g] = m_fd_set'[k] /\ m_fd_set'[g] # NoConn
                               => g = k
        BY <1>0, <1>4 DEF EntryInv
    <2>3. \A u \in Threads : pc'[u] # "erase"
        BY <1>1, <1>2
    <2>4. \A u \in Threads : pc'[u] = "insert" =>
             sock'[fd'[u]] # NoConn /\ ~live'[sock'[fd'[u]]]
        <3> SUFFICES ASSUME NEW u \in Threads, pc'[u] = "insert"
                     PROVE  sock[fd[u]] # NoConn /\ ~live'[sock[fd[u]]]
            BY <1>1
        <3>1. pc[u] = "insert" /\ fd[u] \in Fds
            BY <1>1, <1>0 DEF FdInv, Owning
        <3>2. sock[fd[u]] \in Conns /\ sock[fd[u]] # NoConn /\ ~live[sock[fd[u]]]
            BY <3>1, <1>0 DEF EntryInv, PollType
        <3> QED BY <3>2, <1>3
    <2>5. \A u \in Threads : pc'[u] \in Serving =>
             IF live'[hdle'[u]] THEN m_fd_set'[fd'[u]] = hdle'[u]
                                ELSE phase'[hdle'[u]] = "closed"
        <3> SUFFICES ASSUME NEW u \in Threads, pc'[u] \in Serving
                     PROVE  IF live'[hdle[u]] THEN m_fd_set'[fd[u]] = hdle[u]
                                              ELSE phase[hdle[u]] = "closed"
            BY <1>1 DEF Serving
        <3>1. pc[u] \in Serving /\ hdle[u] \in Conns /\ fd[u] \in Fds
            BY <1>1, <1>0 DEF FdInv, Serving, Owning
        <3>2. IF live[hdle[u]] THEN m_fd_set[fd[u]] = hdle[u]
                               ELSE phase[hdle[u]] = "closed"
            BY <3>1, <1>0 DEF EntryInv
        <3>3. CASE hdle[u] = h
            BY <3>3, <1>2, <1>3
        <3>4. CASE hdle[u] # h
            BY <3>1, <3>2, <3>4, <1>2, <1>3
        <3> QED BY <3>3, <3>4
    <2>6. \A d \in Conns : phase'[d] \in {"new", "pending"} => ~live'[d]
        BY <1>0, <1>1, <1>3 DEF EntryInv
    <2>7. \A d \in Conns : phase'[d] = "open" => \E g \in Fds : sock'[g] = d
        BY <1>0, <1>1 DEF EntryInv
    <2> QED BY <2>1, <2>2, <2>3, <2>4, <2>5, <2>6, <2>7 DEF EntryInv
<1>8. ConnectionCount'
    <2> DEFINE open == {g \in Fds : sock[g] # NoConn}
               erasers == {u \in Threads : pc[u] = "erase"}
    <2>1. IsFiniteSet(open) /\ IsFiniteSet(erasers)
        BY BookFinite
    <2>2. {g \in Fds : sock'[g] # NoConn} = open
        BY <1>1
    <2>3. {u \in Threads : pc'[u] = "erase"} = erasers \ {t} /\ t \in erasers
        BY <1>1
    <2>4. Cardinality(open) \in Nat /\ Cardinality(erasers) \in Nat
        BY <2>1, FS_CardinalityType
    <2>5. /\ now_connections = Cardinality(open) + Cardinality(erasers)
          /\ now_connections <= MAX_FD_NUM
        BY <1>0 DEF ConnectionCount
    <2>6. now_connections' = now_connections - 1
        BY DEF EraseHandle
    <2> HIDE DEF open, erasers
    <2>7. Cardinality(erasers \ {t}) = Cardinality(erasers) - 1
        BY <2>1, <2>3, FS_RemoveElement
    <2>8. now_connections' = Cardinality(open) + Cardinality(erasers \ {t})
          /\ now_connections' <= MAX_FD_NUM
        BY <2>4, <2>5, <2>6, <2>7, BoundAssumption
    <2> QED BY <2>2, <2>3, <2>8 DEF ConnectionCount
<1> QED BY <1>6, <1>7, <1>8 DEF UpBook

-----------------------------------------------------------------------------
(* Every step of a running server but Delete keeps the bookkeeping. *)
LEMMA BookUpStep ==
    ASSUME TypeInv, TypeInv', UpBook, main # "deleted", Running, Next, ~Delete
    PROVE  UpBook' /\ main' # "deleted"
<1>0. LockInv /\ JoinInv
    BY DEF UpBook
<1>s. ASSUME Still /\ LockInv' /\ JoinInv' PROVE UpBook' /\ main' # "deleted"
    BY <1>s, StillStep DEF Still
<1>1. CASE Client
    <2>1. Still /\ LockInv' /\ JoinInv'
        BY <1>1, <1>0, StillClients DEF Client
    <2> QED BY <2>1, <1>s
<1>2. CASE Main
    <2>1. Still /\ LockInv' /\ JoinInv'
        BY <1>2, <1>0, StillStop DEF Main
    <2> QED BY <2>1, <1>s
<1>3. ASSUME NEW t \in Threads, svc(t) PROVE UpBook' /\ main' # "deleted"
    <2>1. CASE create_handle(t) BY <2>1, create_handleBook DEF create_handle
    <2>2. CASE \E c \in Conns : Accept(t, c) BY <2>2, AcceptBook DEF Accept
    <2>3. CASE ~create_handle(t) /\ ~\E c \in Conns : Accept(t, c)
        <3>0. \/ LoopTest(t) \/ LockEpoll(t) \/ EpollWait(t) \/ EpollEintr(t)
              \/ TakeListen(t) \/ TakePipe(t) \/ TakeConn(t)
              \/ AcceptEnd(t) \/ AddNew(t)
              \/ \E c \in Conns : AcceptRefuse(t, c)
            BY <2>3, <1>3 DEF svc
        <3>1. Still /\ LockInv' /\ JoinInv'
            BY <3>0, <1>0, StillLoop
        <3> QED BY <3>1, <1>s
    <2> QED BY <2>1, <2>2, <2>3
<1>4. ASSUME NEW t \in Threads, recv_request(t) PROVE UpBook' /\ main' # "deleted"
    <2>1. CASE get_handle(t) BY <2>1, get_handleBook DEF get_handle
    <2>2. CASE ReleaseClose(t) BY <2>2, ReleaseCloseBook DEF ReleaseClose
    <2>3. CASE EraseHandle(t) BY <2>3, EraseHandleBook DEF EraseHandle
    <2> QED BY <2>1, <2>2, <2>3, <1>4, <1>0, <1>s, StillRecv, StillReply
            DEF recv_request
<1>5. ASSUME NEW t \in Threads, SendSpinEnds(t) \/ SigHandled(t)
      PROVE  UpBook' /\ main' # "deleted"
    BY <1>5, <1>0, <1>s, StillReply
<1> QED BY <1>1, <1>2, <1>3, <1>4, <1>5 DEF Next, Ended

(* BookInv holds at first: no descriptor is open and nothing is counted. *)
LEMMA BookInit == Init => BookInv
<1> SUFFICES ASSUME Init PROVE BookInv
    OBVIOUS
<1>1. TypeOK /\ FdInv /\ TypeInv
    BY TypeInit DEF TypeInv
<1>2. JoinInv /\ main # "deleted" /\ LockInv /\ SockInv
    BY DEF Init, JoinInv, LockInv, SockInv, Looping
<1>3. EntryInv
    BY DEF Init, EntryInv, Serving
<1>4. ConnectionCount
    <2>1. {f \in Fds : sock[f] # NoConn} = {} /\ {t \in Threads : pc[t] = "erase"} = {}
        BY DEF Init
    <2>2. now_connections = 0 /\ 0 <= MAX_FD_NUM /\ Cardinality({}) = 0
        BY FS_EmptySet, BoundAssumption DEF Init
    <2> QED BY <2>1, <2>2 DEF ConnectionCount
<1> QED BY <1>1, <1>2, <1>3, <1>4 DEF BookInv

(* Every step keeps BookInv; a process that has ended changes nothing. *)
LEMMA BookStep ==
    BookInv /\ TypeInv /\ TypeInv' /\ [Next]_vars => BookInv'
<1> SUFFICES ASSUME BookInv, TypeInv, TypeInv', [Next]_vars PROVE BookInv'
    OBVIOUS
<1>0. TypeOK' /\ FdInv'
    BY DEF TypeInv
<1>1. CASE UNCHANGED vars
    BY <1>1, <1>0 DEF vars, BookInv, JoinInv, LockInv, SockInv, EntryInv,
       Erasing, ConnectionCount
<1>2. CASE Running /\ Next
    <2>1. UpBook /\ main # "deleted"
        BY <1>2 DEF BookInv, UpBook
    <2>2. CASE Delete
        BY <2>2, <1>0 DEF BookInv, Delete, JoinInv, ConnectionCount
    <2>3. CASE ~Delete
        <3>1. UpBook' /\ main' # "deleted"
            BY <2>1, <2>3, <1>2, BookUpStep
        <3> QED BY <3>1, <1>0 DEF BookInv, UpBook
    <2> QED BY <2>2, <2>3
<1>3. CASE ~Running /\ Next
    <2>1. Ended
        BY <1>3, OnlyRunning
    <2> QED BY <2>1, <1>1 DEF Ended
<1> QED BY <1>1, <1>2, <1>3

(* BookInv is an invariant of the server whatever its clients ask for: the *)
(* map, the handles and the kernel's descriptors agree while _map_mutex is *)
(* free.                                                                   *)
THEOREM BookInvariant == Spec => []BookInv
<1> QED BY BookInit, BookStep, TypeInit, TypeStep, PTL DEF Spec

(* insert_handle() never meets the entry of an earlier connection with the *)
(* same descriptor: "insert map error!!" is unreachable, although close()  *)
(* comes before the erasure.                                               *)
THEOREM InsertNeverFails == Spec => []InsertFindsFree
<1>1. BookInv /\ TypeInv => InsertFindsFree
    <2> SUFFICES ASSUME BookInv, TypeInv, NEW t \in Threads, pc[t] = "insert",
                        map_mutex = NoThread
                 PROVE  m_fd_set[fd[t]] = NoConn
        BY DEF InsertFindsFree
    <2>1. UpBook
        BY DEF BookInv, UpBook
    <2> QED BY <2>1, InsertFree
<1> QED BY <1>1, BookInvariant, TypeInit, TypeStep, PTL DEF Spec

(* _now_connections is the number of open sockets, plus one that           *)
(* release_handle() is still subtracting, and never exceeds MAX_FD_NUM.    *)
THEOREM CountExact == Spec => []ConnectionCount
<1>1. BookInv => ConnectionCount
    BY DEF BookInv
<1> QED BY <1>1, BookInvariant, PTL

(* With keep-alive clients release_handle(hdle, true) always closes: its   *)
(* caller holds the only reference, so the branch that releases twice and  *)
(* closes nothing is unreachable.                                          *)
THEOREM CloseCloses == ASSUME KeepOnly PROVE Spec => []CloseRequestCloses
<1>1. ServerInv => CloseRequestCloses
    <2> SUFFICES ASSUME ServerInv, NEW t \in Threads, pc[t] = "release"
                 PROVE  ref[hdle[t]] = 1
        BY DEF CloseRequestCloses
    <2>1. UpInv /\ hdle[t] \in Conns
        BY DEF ServerInv, DownInv, FdInv, Serving
    <2> QED BY <2>1 DEF UpInv, RefInv, Held, Serving
<1> QED BY <1>1, ServerInvariant, PTL

-----------------------------------------------------------------------------
(***************************************************************************)
(* Http_Server implements HttpConnections, when clients keep their         *)
(* connections.  The mapping picks the worker of a connection with CHOOSE; *)
(* the ownership invariant makes the choice unique.                        *)
(***************************************************************************)
Busy == Serving \cup {"get", "erase", "readd"}
Reading == {"get", "header", "body", "send"}

\* The connection that a busy thread works on.
Target(t) == IF pc[t] = "get" THEN sock[fd[t]] ELSE hdle[t]

(* WorksOn is a partial function of the thread. *)
LEMMA WorksOnTarget ==
    \A t \in Threads, c \in Conns : WorksOn(t, c) <=> pc[t] \in Busy /\ Target(t) = c
BY DEF WorksOn, Target, Busy, Serving

(* At most one thread works on a connection. *)
LEMMA UniqueWorker ==
    ServerInv => \A t, u \in Threads : pc[t] \in Busy /\ pc[u] \in Busy
                                       /\ Target(t) = Target(u) => t = u
<1> SUFFICES ASSUME ServerInv, NEW t \in Threads, NEW u \in Threads,
                    pc[t] \in Busy, pc[u] \in Busy, Target(t) = Target(u)
             PROVE  t = u
    OBVIOUS
<1>0. UpInv /\ FdInv
    BY DEF ServerInv, DownInv, Busy, Serving
<1>1. \A v \in Threads : pc[v] \in Busy /\ pc[v] # "erase" =>
         /\ pc[v] \in Working /\ fd[v] \in Fds
         /\ Target(v) = sock[fd[v]] /\ sock[fd[v]] # NoConn
         /\ phase[Target(v)] = "open"
    BY <1>0 DEF UpInv, FdInv, OwnInv, ServeInv, SockInv, Busy, Working, Owning,
       Target, Serving
<1>2. \A v \in Threads : pc[v] = "erase" => phase[Target(v)] = "closed"
                                            /\ map_mutex = v
    BY <1>0 DEF UpInv, MapInv, LockInv, Target
<1>3. CASE pc[t] = "erase" /\ pc[u] = "erase"
    BY <1>2, <1>3
<1>4. CASE pc[t] # "erase" /\ pc[u] # "erase"
    <2>1. fd[t] = fd[u]
        BY <1>0, <1>1, <1>4 DEF UpInv, SockInv
    <2> QED BY <2>1, <1>0, <1>1, <1>4 DEF UpInv, OwnInv
<1> QED BY <1>1, <1>2, <1>3, <1>4

(* What the mapping gives for a connection, in terms of its worker. *)
WorkerInv ==
    \A c \in Conns :
       /\ (\A t \in Threads : ~(pc[t] \in Busy /\ Target(t) = c)) =>
             owner[c] = NoThread /\ duty[c] = "idle"
       /\ \A t \in Threads : pc[t] \in Busy /\ Target(t) = c =>
             /\ owner[c] = t
             /\ duty[c] = IF pc[t] \in Reading THEN "reading" ELSE "done"

LEMMA WorkerOfBusy == ServerInv => WorkerInv
<1> SUFFICES ASSUME ServerInv, NEW c \in Conns
             PROVE  /\ (\A t \in Threads : ~(pc[t] \in Busy /\ Target(t) = c)) =>
                          owner[c] = NoThread /\ duty[c] = "idle"
                    /\ \A t \in Threads : pc[t] \in Busy /\ Target(t) = c =>
                          /\ owner[c] = t
                          /\ duty[c] = IF pc[t] \in Reading THEN "reading"
                                       ELSE "done"
    BY DEF WorkerInv
<1>0. /\ owner[c] = WorkerOf(c)
      /\ duty[c] = CASE ~Worked(c) -> "idle"
                     [] Worked(c) /\ pc[WorkerOf(c)] \in Reading -> "reading"
                     [] OTHER -> "done"
    BY DEF owner, duty, Reading
<1>1. ASSUME \A t \in Threads : ~(pc[t] \in Busy /\ Target(t) = c)
      PROVE  owner[c] = NoThread /\ duty[c] = "idle"
    <2>1. ~Worked(c)
        BY <1>1, WorksOnTarget DEF Worked
    <2> QED BY <2>1, <1>0 DEF WorkerOf
<1>2. ASSUME NEW t \in Threads, pc[t] \in Busy, Target(t) = c
      PROVE  /\ owner[c] = t
             /\ duty[c] = IF pc[t] \in Reading THEN "reading" ELSE "done"
    <2>1. WorksOn(t, c) /\ Worked(c)
        BY <1>2, WorksOnTarget DEF Worked
    <2>2. \A u \in Threads : WorksOn(u, c) => u = t
        BY <1>2, WorksOnTarget, UniqueWorker
    <2>3. (CHOOSE u \in Threads : WorksOn(u, c)) = t
        BY <2>1, <2>2
    <2>4. WorkerOf(c) = t
        BY <2>1, <2>3 DEF WorkerOf
    <2> QED BY <2>1, <2>4, <1>0
<1> QED BY <1>1, <1>2

(* The mapping after a step. *)
LEMMA WorkerOfBusyNext == ServerInv' => WorkerInv'
BY WorkerOfBusy, PTL

\* Only t moves, as far as the work on connections goes.
OnlyBy(t) ==
    \A u \in Threads : u # t =>
       pc'[u] = pc[u] /\ (pc[u] \in Busy => Target(u)' = Target(u))

(* A connection that t works on neither before nor after keeps its owner   *)
(* and its duty.                                                           *)
LEMMA OthersKeep ==
    ASSUME WorkerInv, WorkerInv', NEW t \in Threads, OnlyBy(t), NEW c \in Conns,
           ~(pc[t] \in Busy /\ Target(t) = c), ~(pc'[t] \in Busy /\ Target(t)' = c)
    PROVE  owner'[c] = owner[c] /\ duty'[c] = duty[c]
<1>1. \A u \in Threads : (pc'[u] \in Busy /\ Target(u)' = c)
                            <=> (pc[u] \in Busy /\ Target(u) = c)
    BY DEF OnlyBy
<1>2. CASE \A u \in Threads : ~(pc[u] \in Busy /\ Target(u) = c)
    <2>1. owner[c] = NoThread /\ duty[c] = "idle"
        BY <1>2 DEF WorkerInv
    <2>2. owner'[c] = NoThread /\ duty'[c] = "idle"
        BY <1>1, <1>2 DEF WorkerInv
    <2> QED BY <2>1, <2>2
<1>3. ASSUME NEW u \in Threads, pc[u] \in Busy, Target(u) = c
      PROVE  owner'[c] = owner[c] /\ duty'[c] = duty[c]
    <2>1. u # t /\ pc'[u] = pc[u]
        BY <1>3 DEF OnlyBy
    <2>2. owner[c] = u /\ duty[c] = IF pc[u] \in Reading THEN "reading" ELSE "done"
        BY <1>3 DEF WorkerInv
    <2>3. owner'[c] = u /\ duty'[c] = IF pc'[u] \in Reading THEN "reading" ELSE "done"
        BY <1>1, <1>3 DEF WorkerInv
    <2> QED BY <2>1, <2>2, <2>3
<1> QED BY <1>2, <1>3

(* owner and duty are functions on the connections. *)
LEMMA MappedFunctions ==
    /\ owner = [c \in Conns |-> owner[c]] /\ duty = [c \in Conns |-> duty[c]]
    /\ owner' = [c \in Conns |-> owner'[c]] /\ duty' = [c \in Conns |-> duty'[c]]
BY DEF owner, duty

(* A thread that stays at its duty, or stays without one, is not seen. *)
LEMMA NoDutyChange ==
    ASSUME WorkerInv, WorkerInv', NEW t \in Threads, OnlyBy(t),
           \/ pc[t] \notin Busy /\ pc'[t] \notin Busy
           \/ /\ pc[t] \in Busy /\ pc'[t] \in Busy /\ Target(t)' = Target(t)
              /\ pc[t] \in Reading <=> pc'[t] \in Reading
    PROVE  owner' = owner /\ duty' = duty
<1>1. ASSUME NEW c \in Conns PROVE owner'[c] = owner[c] /\ duty'[c] = duty[c]
    <2>1. CASE pc[t] \in Busy /\ Target(t) = c
        <3>1. owner[c] = t /\ duty[c] = IF pc[t] \in Reading THEN "reading" ELSE "done"
            BY <2>1 DEF WorkerInv
        <3>2. owner'[c] = t /\ duty'[c] = IF pc'[t] \in Reading THEN "reading" ELSE "done"
            BY <2>1 DEF WorkerInv
        <3> QED BY <2>1, <3>1, <3>2
    <2>2. CASE ~(pc[t] \in Busy /\ Target(t) = c)
        BY <2>2, <1>1, OthersKeep
    <2> QED BY <2>1, <2>2
<1> QED BY <1>1, MappedFunctions

(* svc() hands c to t: c was nobody's, and t had no other. *)
LEMMA DutyBegins ==
    ASSUME WorkerInv, WorkerInv', NEW t \in Threads, OnlyBy(t), NEW c \in Conns,
           pc[t] \notin Busy, pc'[t] = "get", Target(t)' = c,
           \A u \in Threads : pc[u] \in Busy => Target(u) # c
    PROVE  /\ owner[c] = NoThread /\ \A d \in Conns : owner[d] # t
           /\ owner' = [owner EXCEPT ![c] = t]
           /\ duty' = [duty EXCEPT ![c] = "reading"]
<1>1. owner[c] = NoThread
    BY DEF WorkerInv
<1>2. ASSUME NEW d \in Conns PROVE owner[d] # t
    <2>1. CASE \A u \in Threads : ~(pc[u] \in Busy /\ Target(u) = d)
        BY <2>1, ThreadAssumption DEF WorkerInv
    <2>2. ASSUME NEW u \in Threads, pc[u] \in Busy, Target(u) = d PROVE owner[d] # t
        BY <2>2 DEF WorkerInv
    <2> QED BY <2>1, <2>2
<1>3. owner'[c] = t /\ duty'[c] = "reading"
    BY DEF WorkerInv, Busy, Reading
<1>4. \A d \in Conns : d # c => owner'[d] = owner[d] /\ duty'[d] = duty[d]
    BY OthersKeep
<1> QED BY <1>1, <1>2, <1>3, <1>4, MappedFunctions

(* t is through with its request: the answer is out, or will never be. *)
LEMMA DutyConcludes ==
    ASSUME WorkerInv, WorkerInv', NEW t \in Threads, OnlyBy(t), NEW c \in Conns,
           pc[t] \in Reading, pc'[t] \in Busy \ Reading,
           Target(t) = c, Target(t)' = c
    PROVE  /\ duty[c] = "reading" /\ owner' = owner
           /\ duty' = [duty EXCEPT ![c] = "done"]
<1>1. pc[t] \in Busy
    BY DEF Busy, Reading, Serving
<1>2. owner[c] = t /\ owner'[c] = t /\ duty[c] = "reading" /\ duty'[c] = "done"
    BY <1>1 DEF WorkerInv
<1>3. \A d \in Conns : d # c => owner'[d] = owner[d] /\ duty'[d] = duty[d]
    BY OthersKeep
<1> QED BY <1>2, <1>3, MappedFunctions

(* t gives c back. *)
LEMMA DutyEnds ==
    ASSUME ServerInv, WorkerInv, WorkerInv', NEW t \in Threads, OnlyBy(t),
           NEW c \in Conns, pc[t] \in Busy \ Reading, Target(t) = c,
           pc'[t] \notin Busy
    PROVE  /\ duty[c] = "done"
           /\ owner' = [owner EXCEPT ![c] = NoThread]
           /\ duty' = [duty EXCEPT ![c] = "idle"]
<1>1. duty[c] = "done"
    BY DEF WorkerInv
<1>2. \A u \in Threads : ~(pc'[u] \in Busy /\ Target(u)' = c)
    BY UniqueWorker DEF OnlyBy
<1>3. owner'[c] = NoThread /\ duty'[c] = "idle"
    BY <1>2 DEF WorkerInv
<1>4. \A d \in Conns : d # c => owner'[d] = owner[d] /\ duty'[d] = duty[d]
    BY OthersKeep
<1> QED BY <1>1, <1>3, <1>4, MappedFunctions

-----------------------------------------------------------------------------
(* st, the life cycle of connections, is the kernel's view of them. *)
LEMMA SameLife == phase' = phase => st' = st
BY DEF st

\* A step of HttpConnections, or none.
MappedStep == Connections!Next \/ UNCHANGED <<st, owner, duty, replies>>

(* Bytes, edges, signals and stop() are not seen. *)
LEMMA HiddenStep ==
    UNCHANGED <<pc, fd, hdle, sock, phase, replies>> => MappedStep
BY DEF MappedStep, st, owner, duty, WorkerOf, Worked, WorksOn

(* Neither is a thread that works on no connection. *)
LEMMA IdleStep ==
    ASSUME TypeInv, WorkerInv, WorkerInv', NEW t \in Threads,
           \/ LoopTest(t) \/ LockEpoll(t) \/ EpollWait(t) \/ EpollEintr(t)
           \/ TakeListen(t) \/ TakePipe(t) \/ AcceptEnd(t)
           \/ create_handle(t) \/ AddNew(t)
    PROVE  MappedStep
<1>1. /\ UNCHANGED <<sock, phase, replies>>
      /\ pc[t] \notin Busy /\ pc'[t] \notin Busy
      /\ \A u \in Threads : u # t => pc'[u] = pc[u] /\ fd'[u] = fd[u]
                                     /\ hdle'[u] = hdle[u]
    <2>0. ThreadType
        BY DEF TypeInv, TypeOK
    <2>1. CASE LoopTest(t)
        BY <2>0, <2>1 DEF LoopTest, ThreadType, Busy, Serving
    <2>2. CASE LockEpoll(t)
        BY <2>0, <2>2 DEF LockEpoll, ThreadType, Busy, Serving
    <2>3. CASE EpollWait(t)
        BY <2>0, <2>3 DEF EpollWait, ThreadType, Busy, Serving
    <2>4. CASE EpollEintr(t)
        BY <2>0, <2>4 DEF EpollEintr, ThreadType, Busy, Serving
    <2>5. CASE TakeListen(t)
        BY <2>0, <2>5 DEF TakeListen, ThreadType, Busy, Serving
    <2>6. CASE TakePipe(t)
        BY <2>0, <2>6 DEF TakePipe, ThreadType, Busy, Serving
    <2>7. CASE AcceptEnd(t)
        BY <2>0, <2>7 DEF AcceptEnd, ThreadType, Busy, Serving
    <2>8. CASE create_handle(t)
        BY <2>0, <2>8 DEF create_handle, ThreadType, Busy, Serving
    <2>9. CASE AddNew(t)
        BY <2>0, <2>9 DEF AddNew, ThreadType, Busy, Serving
    <2> QED BY <2>1, <2>2, <2>3, <2>4, <2>5, <2>6, <2>7, <2>8, <2>9
<1>2. OnlyBy(t)
    BY <1>1 DEF OnlyBy, Target
<1> QED BY <1>1, <1>2, NoDutyChange, SameLife DEF MappedStep

(* A busy thread works on a connection that is open, until it has closed   *)
(* it.                                                                     *)
LEMMA BusyTarget ==
    ASSUME TypeInv, UpInv, NEW t \in Threads, pc[t] \in Busy
    PROVE  /\ Target(t) \in Conns /\ fd[t] \in Fds
           /\ pc[t] # "erase" => /\ Target(t) = sock[fd[t]]
                                 /\ phase[Target(t)] = "open"
                                 /\ pc[t] \in Working
<1>1. fd[t] \in Fds /\ (pc[t] = "erase" => hdle[t] \in Conns)
    BY DEF TypeInv, FdInv, Busy, Owning, Serving
<1>2. CASE pc[t] = "erase"
    BY <1>1, <1>2 DEF Target
<1>3. CASE pc[t] # "erase"
    <2>1. pc[t] \in Working /\ Target(t) = sock[fd[t]]
        BY <1>3 DEF UpInv, ServeInv, Target, Busy, Working, Owning, Serving
    <2>2. sock[fd[t]] # NoConn
        BY <2>1 DEF UpInv, OwnInv
    <2> QED BY <1>1, <2>1, <2>2 DEF UpInv, SockInv, TypeInv, TypeOK, PollType
<1> QED BY <1>2, <1>3

(* get_handle(), reading and release_handle(hdle, false) keep the worker   *)
(* at its duty.                                                            *)
LEMMA DutyStep ==
    ASSUME TypeInv, UpInv, WorkerInv, WorkerInv', NEW t \in Threads,
           \/ get_handle(t) \/ ReadBody(t) \/ ReleaseKeep(t)
    PROVE  MappedStep
<1>0. ThreadType
    BY DEF TypeInv, TypeOK
<1>1. /\ UNCHANGED <<sock, phase, replies, fd>>
      /\ pc[t] \in Busy /\ pc'[t] \in Busy /\ Target(t)' = Target(t)
      /\ pc[t] \in Reading <=> pc'[t] \in Reading
      /\ \A u \in Threads : u # t => pc'[u] = pc[u] /\ hdle'[u] = hdle[u]
    <2>1. CASE get_handle(t)
        <3>1. pc[t] = "get" /\ pc'[t] = "header" /\ hdle'[t] = m_fd_set[fd[t]]
            BY <1>0, <2>1 DEF get_handle, ThreadType
        <3>2. m_fd_set[fd[t]] = sock[fd[t]]
            BY <3>1, OwnerMap DEF Working, Owning, Serving
        <3> QED BY <1>0, <2>1, <3>1, <3>2 DEF get_handle, ThreadType, Busy,
                Reading, Target, Serving
    <2>2. CASE ReadBody(t)
        BY <1>0, <2>2 DEF ReadBody, ThreadType, Busy, Reading, Target, Serving
    <2>3. CASE ReleaseKeep(t)
        BY <1>0, <2>3 DEF ReleaseKeep, ThreadType, Busy, Reading, Target, Serving
    <2> QED BY <2>1, <2>2, <2>3
<1>2. OnlyBy(t)
    BY <1>1 DEF OnlyBy, Target
<1> QED BY <1>1, <1>2, NoDutyChange, SameLife DEF MappedStep

(* The end of a round of work: at most one answer, to the connection whose *)
(* handle t holds.                                                         *)
LEMMA ConcludeStep ==
    ASSUME TypeInv, UpInv, WorkerInv, WorkerInv', NEW t \in Threads,
           \/ GetInfo(t) \/ HeaderFails(t) \/ BodyFails(t) \/ send_result(t)
           \/ SendFails(t) \/ SendSpinEnds(t)
    PROVE  MappedStep
<1> DEFINE c == Target(t)
<1>0. ThreadType
    BY DEF TypeInv, TypeOK
<1>1. /\ UNCHANGED <<sock, phase, fd, hdle>>
      /\ pc[t] \in {"header", "body", "send"} /\ pc'[t] \in {"body", "release"}
      /\ pc'[t] = "body" => pc[t] = "header" /\ replies' = replies
      /\ \/ replies' = replies
         \/ replies' = [replies EXCEPT ![sock[fd[t]]] = @ + 1]
      /\ \A u \in Threads : u # t => pc'[u] = pc[u]
    <2>1. CASE GetInfo(t)
        <3>1. PICK x : pc' = [pc EXCEPT ![t] = IF x = "bad" THEN "release" ELSE "body"]
            BY <2>1 DEF GetInfo
        <3>2. pc'[t] \in {"release", "body"}
            BY <1>0, <3>1 DEF ThreadType
        <3>3. \A u \in Threads : u # t => pc'[u] = pc[u]
            BY <1>0, <3>1 DEF ThreadType
        <3> QED BY <2>1, <3>2, <3>3 DEF GetInfo
    <2>2. CASE HeaderFails(t)
        BY <1>0, <2>2 DEF HeaderFails, ThreadType
    <2>3. CASE BodyFails(t)
        BY <1>0, <2>3 DEF BodyFails, ThreadType
    <2>4. CASE send_result(t)
        BY <1>0, <2>4 DEF send_result, ThreadType
    <2>5. CASE SendFails(t)
        BY <1>0, <2>5 DEF SendFails, ThreadType
    <2>6. CASE SendSpinEnds(t)
        BY <1>0, <2>6 DEF SendSpinEnds, ThreadType
    <2> QED BY <2>1, <2>2, <2>3, <2>4, <2>5, <2>6
<1>2. OnlyBy(t)
    BY <1>1 DEF OnlyBy, Target
<1>3. /\ c \in Conns /\ c = sock[fd[t]] /\ phase[c] = "open"
      /\ Target(t)' = c
    BY <1>1, BusyTarget DEF Busy, Serving, Target
<1>4. CASE pc'[t] = "body"
    BY <1>1, <1>2, <1>3, <1>4, NoDutyChange, SameLife DEF MappedStep, Busy,
       Reading, Serving
<1>5. CASE pc'[t] = "release"
    <2>1. /\ duty[c] = "reading" /\ owner' = owner
          /\ duty' = [duty EXCEPT ![c] = "done"]
        <3>1. pc[t] \in Reading /\ pc'[t] \in Busy \ Reading
            BY <1>1, <1>5 DEF Busy, Reading, Serving
        <3> HIDE DEF c
        <3>2. Target(t) = c
            BY DEF c
        <3> QED BY <3>1, <3>2, <1>2, <1>3, DutyConcludes
    <2>2. st[c] = "open" /\ st' = st
        BY <1>1, <1>3 DEF st
    <2>3. Connections!Conclude(c)
        BY <1>1, <1>3, <2>1, <2>2 DEF Connections!Conclude
    <2> QED BY <1>3, <2>3 DEF MappedStep, Connections!Next
<1> QED BY <1>1, <1>4, <1>5

(* connect() puts the connection in the listen queue. *)
LEMMA ConnectMapped ==
    ASSUME TypeInv, NEW c \in Conns, Connect(c)
    PROVE  MappedStep
<1>1. owner' = owner /\ duty' = duty
    BY DEF Connect, owner, duty, WorkerOf, Worked, WorksOn
<1>2. st[c] = "new" /\ st' = [st EXCEPT ![c] = "queued"]
    BY DEF Connect, st, TypeInv, TypeOK, NetType
<1>3. Connections!Connect(c)
    BY <1>1, <1>2 DEF Connect, Connections!Connect
<1> QED BY <1>3 DEF MappedStep, Connections!Next

(* A connection over the limits is closed unserved. *)
LEMMA RefuseMapped ==
    ASSUME TypeInv, NEW t \in Threads, NEW c \in Conns, AcceptRefuse(t, c)
    PROVE  MappedStep
<1>1. owner' = owner /\ duty' = duty
    BY DEF AcceptRefuse, owner, duty, WorkerOf, Worked, WorksOn
<1>2. st[c] = "queued" /\ st' = [st EXCEPT ![c] = "closed"]
    BY DEF AcceptRefuse, st, TypeInv, TypeOK, NetType
<1>3. Connections!Refuse(c)
    BY <1>1, <1>2 DEF AcceptRefuse, Connections!Refuse
<1> QED BY <1>3 DEF MappedStep, Connections!Next

(* _now_connections is an upper bound of the open connections: each has a  *)
(* descriptor of its own.                                                  *)
LEMMA OpenCounted ==
    ASSUME TypeInv, BookInv, main # "deleted"
    PROVE  /\ IsFiniteSet({c \in Conns : phase[c] = "open"})
           /\ Cardinality({c \in Conns : phase[c] = "open"}) <= now_connections
<1> DEFINE fds == {f \in Fds : sock[f] # NoConn}
           open == {c \in Conns : phase[c] = "open"}
           erasers == {u \in Threads : pc[u] = "erase"}
           m == [f \in fds |-> sock[f]]
<1>0. SockInv /\ EntryInv /\ ConnectionCount /\ PollType
    BY DEF BookInv, TypeOK
<1>1. IsFiniteSet(fds) /\ IsFiniteSet(erasers)
    BY BookFinite
<1>2. m \in Surjection(fds, open)
    <2>1. m \in [fds -> open]
        BY <1>0 DEF SockInv, PollType
    <2>2. \A c \in open : \E f \in fds : m[f] = c
        BY <1>0, ConnAssumption DEF EntryInv
    <2> QED BY <2>1, <2>2 DEF Surjection
<1>3. now_connections = Cardinality(fds) + Cardinality(erasers)
    BY <1>0 DEF ConnectionCount
<1> HIDE DEF fds, open, erasers, m
<1>4. IsFiniteSet(open) /\ Cardinality(open) <= Cardinality(fds)
    BY <1>1, <1>2, FS_Surjection
<1>5. Cardinality(fds) \in Nat /\ Cardinality(erasers) \in Nat
      /\ Cardinality(open) \in Nat
    BY <1>1, <1>4, FS_CardinalityType
<1>6. Cardinality(open) <= now_connections
    BY <1>3, <1>4, <1>5
<1> QED BY <1>4, <1>6 DEF open

(* accept() admits a connection only below the capacity. *)
LEMMA AcceptMapped ==
    ASSUME TypeInv, BookInv, UpInv, main # "deleted", WorkerInv, WorkerInv',
           NEW t \in Threads, NEW c \in Conns, Accept(t, c)
    PROVE  MappedStep
<1>0. ThreadType /\ NetType /\ PollType
    BY DEF TypeInv, TypeOK
<1>1. PICK f \in FreeFds : /\ ~OverLimit(f)
                          /\ sock' = [sock EXCEPT ![f] = c]
                          /\ fd' = [fd EXCEPT ![t] = f]
    BY DEF Accept
<1>2. /\ pc[t] \notin Busy /\ pc'[t] \notin Busy /\ replies' = replies
      /\ \A u \in Threads : u # t => pc'[u] = pc[u] /\ fd'[u] = fd[u]
                                     /\ hdle'[u] = hdle[u]
    BY <1>0 DEF Accept, ThreadType, Busy, Serving
<1>3. OnlyBy(t)
    <2>1. ASSUME NEW u \in Threads, u # t, pc[u] \in Busy
          PROVE  Target(u)' = Target(u)
        <3>1. CASE pc[u] = "get"
            <4>1. fd[u] \in Fds /\ sock[fd[u]] # NoConn
                BY <3>1 DEF TypeInv, FdInv, UpInv, OwnInv, Working, Owning
            <4>2. fd[u] # f
                BY <4>1, <1>1 DEF FreeFds
            <4>3. sock'[fd[u]] = sock[fd[u]]
                BY <4>1, <4>2, <1>0, <1>1 DEF PollType
            <4> QED BY <2>1, <3>1, <4>3, <1>2 DEF Target
        <3>2. CASE pc[u] # "get"
            BY <2>1, <3>2, <1>2 DEF Target
        <3> QED BY <3>1, <3>2
    <2> QED BY <2>1, <1>2 DEF OnlyBy
<1>4. owner' = owner /\ duty' = duty
    BY <1>2, <1>3, NoDutyChange
<1>5. st[c] = "queued" /\ st' = [st EXCEPT ![c] = "open"]
    BY <1>0 DEF Accept, st, NetType
<1>6. Cardinality({d \in Conns : st[d] = "open"}) < MAX_FD_NUM
    <2> DEFINE open == {d \in Conns : phase[d] = "open"}
    <2>1. {d \in Conns : st[d] = "open"} = open
        BY DEF st
    <2>2. IsFiniteSet(open) /\ Cardinality(open) <= now_connections
        BY OpenCounted
    <2>3. Cardinality(open) \in Nat /\ now_connections \in Int
        BY <2>2, FS_CardinalityType DEF TypeInv, TypeOK, HandleType
    <2>4. ~(now_connections >= MAX_FD_NUM)
        BY <1>1 DEF OverLimit
    <2> HIDE DEF open
    <2> QED BY <2>1, <2>2, <2>3, <2>4, BoundAssumption
<1>7. Connections!Admit(c)
    <2>1. Connections!Cardinality({d \in Conns : st[d] = "open"}) < MAX_FD_NUM
        BY <1>6 DEF Connections!Cardinality, Cardinality
    <2> QED BY <2>1, <1>2, <1>4, <1>5 DEF Connections!Admit
<1> QED BY <1>7 DEF MappedStep, Connections!Next

(* svc() takes a ready connection that is in nobody's hands. *)
LEMMA TakeMapped ==
    ASSUME TypeInv, UpInv, WorkerInv, WorkerInv', NEW t \in Threads, TakeConn(t)
    PROVE  MappedStep
<1>0. ThreadType /\ PollType
    BY DEF TypeInv, TypeOK
<1>1. PICK f \in ready_event \cap Fds : fd' = [fd EXCEPT ![t] = f]
    BY DEF TakeConn
<1> DEFINE c == sock[f]
<1>2. f \in interest /\ c \in Conns /\ phase[c] = "open"
    BY <1>0, <1>1 DEF UpInv, EpollInv, SockInv, PollType
<1>3. /\ pc[t] \notin Busy /\ pc'[t] = "get"
      /\ UNCHANGED <<sock, phase, replies>>
      /\ fd'[t] = f /\ Target(t)' = c
      /\ \A u \in Threads : u # t => pc'[u] = pc[u] /\ fd'[u] = fd[u]
                                     /\ hdle'[u] = hdle[u]
    BY <1>0, <1>1 DEF TakeConn, ThreadType, Busy, Serving, Target
<1>4. OnlyBy(t)
    BY <1>3 DEF OnlyBy, Target
<1>5. \A u \in Threads : pc[u] \in Busy => Target(u) # c
    <2> SUFFICES ASSUME NEW u \in Threads, pc[u] \in Busy, Target(u) = c
                 PROVE  FALSE
        OBVIOUS
    <2>1. CASE pc[u] = "erase"
        BY <2>1, <1>2 DEF UpInv, MapInv, Target
    <2>2. CASE pc[u] # "erase"
        <3>1. fd[u] \in Fds /\ sock[fd[u]] = c /\ pc[u] \in Working
            BY <2>2, BusyTarget
        <3>2. fd[u] = f
            BY <3>1, <1>2, ConnAssumption DEF UpInv, SockInv
        <3> QED BY <3>1, <3>2, <1>2 DEF UpInv, OwnInv
    <2> QED BY <2>1, <2>2
<1> HIDE DEF c
<1>6. /\ owner[c] = NoThread /\ \A d \in Conns : owner[d] # t
      /\ owner' = [owner EXCEPT ![c] = t]
      /\ duty' = [duty EXCEPT ![c] = "reading"]
    BY <1>2, <1>3, <1>4, <1>5, DutyBegins
<1>7. st[c] = "open" /\ st' = st
    BY <1>2, <1>3 DEF st
<1>8. Connections!Begin(t, c)
    BY <1>3, <1>6, <1>7 DEF Connections!Begin
<1> QED BY <1>2, <1>8 DEF MappedStep, Connections!Next

(* release_handle(hdle, true) closes the connection whose worker calls it. *)
LEMMA CloseMapped ==
    ASSUME TypeInv, UpInv, WorkerInv, WorkerInv', NEW t \in Threads,
           ReleaseClose(t)
    PROVE  MappedStep
<1>0. ThreadType /\ PollType /\ NetType
    BY DEF TypeInv, TypeOK
<1> DEFINE c == hdle[t]
<1>1. /\ pc[t] = "release" /\ pc'[t] = "erase" /\ replies' = replies
      /\ UNCHANGED <<fd, hdle>>
      /\ \A u \in Threads : u # t => pc'[u] = pc[u]
    BY <1>0 DEF ReleaseClose, ThreadType
<1>2. /\ Target(t) = c /\ Target(t)' = c /\ c \in Conns /\ fd[t] \in Fds
      /\ c = sock[fd[t]] /\ phase[c] = "open" /\ pc[t] \in Working
    BY <1>1, BusyTarget DEF Target, Busy, Serving
<1>3. /\ \A g \in Fds : g # fd[t] => sock'[g] = sock[g]
      /\ phase' = [phase EXCEPT ![c] = "closed"]
    BY <1>0, <1>2, ConnAssumption DEF ReleaseClose, CloseFd, PollType
<1>4. OnlyBy(t)
    <2>1. ASSUME NEW u \in Threads, u # t, pc[u] \in Busy
          PROVE  Target(u)' = Target(u)
        <3>1. CASE pc[u] = "get"
            <4>1. fd[u] \in Fds /\ pc[u] \in Working
                BY <3>1, BusyTarget DEF Busy
            <4>2. fd[u] # fd[t]
                BY <2>1, <4>1, <1>2 DEF UpInv, OwnInv
            <4> QED BY <2>1, <3>1, <4>1, <4>2, <1>1, <1>3 DEF Target
        <3>2. CASE pc[u] # "get"
            BY <2>1, <3>2, <1>1 DEF Target
        <3> QED BY <3>1, <3>2
    <2> QED BY <2>1, <1>1 DEF OnlyBy
<1> HIDE DEF c
<1>5. owner' = owner /\ duty' = duty
    BY <1>1, <1>2, <1>4, NoDutyChange DEF Busy, Reading, Serving
<1>6. duty[c] = "done"
    BY <1>1, <1>2 DEF WorkerInv, Busy, Reading, Serving
<1>7. st[c] = "open" /\ st' = [st EXCEPT ![c] = "closed"]
    BY <1>0, <1>2, <1>3 DEF st, NetType
<1>8. Connections!Close(c)
    BY <1>1, <1>5, <1>6, <1>7 DEF Connections!Close
<1> QED BY <1>2, <1>8 DEF MappedStep, Connections!Next

(* The worker is done with its connection: it has erased the handle, or    *)
(* given the descriptor back to epoll.                                     *)
LEMMA EndMapped ==
    ASSUME TypeInv, UpInv, ServerInv, WorkerInv, WorkerInv', NEW t \in Threads,
           EraseHandle(t) \/ ReAdd(t)
    PROVE  MappedStep
<1>0. ThreadType
    BY DEF TypeInv, TypeOK
<1> DEFINE c == Target(t)
<1>1. /\ UNCHANGED <<sock, phase, replies>>
      /\ pc[t] \in {"erase", "readd"} /\ pc'[t] = "top"
      /\ \A u \in Threads : u # t => pc'[u] = pc[u] /\ fd'[u] = fd[u]
                                     /\ hdle'[u] = hdle[u]
    <2>1. CASE EraseHandle(t)
        <3>1. req[t] = "none"
            BY <2>1 DEF EraseHandle, UpInv, ReqInv
        <3> QED BY <1>0, <2>1, <3>1 DEF EraseHandle, AfterRelease, ThreadType
    <2>2. CASE ReAdd(t)
        BY <1>0, <2>2 DEF ReAdd, ThreadType
    <2> QED BY <2>1, <2>2
<1>2. OnlyBy(t)
    BY <1>1 DEF OnlyBy, Target
<1>3. c \in Conns /\ pc[t] \in Busy \ Reading /\ pc'[t] \notin Busy
    BY <1>1, BusyTarget DEF Busy, Reading, Serving
<1> HIDE DEF c
<1>4. Target(t) = c
    BY DEF c
<1>5. /\ duty[c] = "done"
      /\ owner' = [owner EXCEPT ![c] = NoThread]
      /\ duty' = [duty EXCEPT ![c] = "idle"]
    BY <1>2, <1>3, <1>4, DutyEnds
<1>6. Connections!End(c)
    BY <1>1, <1>5, SameLife DEF Connections!End
<1> QED BY <1>3, <1>6 DEF MappedStep, Connections!Next

(* The destructor runs when no thread is left to work on anything. *)
LEMMA DeleteMapped ==
    ASSUME TypeInv, JoinInv, WorkerInv, WorkerInv', Delete
    PROVE  MappedStep
<1>1. \A t \in Threads : pc[t] \notin Busy /\ pc'[t] \notin Busy
    BY DEF JoinInv, Delete, Busy, Serving
<1>2. \A c \in Conns : /\ owner[c] = NoThread /\ duty[c] = "idle"
                       /\ owner'[c] = NoThread /\ duty'[c] = "idle"
    BY <1>1 DEF WorkerInv
<1>3. owner' = owner /\ duty' = duty
    BY <1>2, MappedFunctions
<1>4. st' = [c \in Conns |-> IF st[c] = "new" THEN "new" ELSE "closed"]
    BY DEF Delete, st
<1>5. Connections!Shutdown
    BY <1>2, <1>3, <1>4 DEF Delete, Connections!Shutdown
<1> QED BY <1>5 DEF MappedStep, Connections!Next

(* The server starts with no connection. *)
LEMMA InitMapped == Init => Connections!Init
<1> SUFFICES ASSUME Init PROVE Connections!Init
    OBVIOUS
<1>1. \A c \in Conns : ~Worked(c)
    BY DEF Init, Worked, WorksOn, Serving
<1>2. \A c \in Conns : WorkerOf(c) = NoThread
    BY <1>1 DEF WorkerOf
<1>3. owner = [c \in Conns |-> NoThread] /\ duty = [c \in Conns |-> "idle"]
    BY <1>1, <1>2 DEF owner, duty
<1>4. st = [c \in Conns |-> "new"] /\ replies = [c \in Conns |-> 0]
    BY DEF Init, st
<1> QED BY <1>3, <1>4 DEF Connections!Init

(* Every step of the server is a step of HttpConnections, or is not seen. *)
LEMMA NextMapped ==
    ASSUME KeepOnly, ServerInv, ServerInv', TypeInv, BookInv, [Next]_vars
    PROVE  MappedStep
<1>0. WorkerInv /\ WorkerInv'
    BY WorkerOfBusy, WorkerOfBusyNext
<1>1. CASE UNCHANGED vars
    BY <1>1, HiddenStep DEF vars
<1>2. CASE ~Running /\ Next
    <2>1. UNCHANGED vars
        BY <1>2, OnlyRunning DEF Ended
    <2> QED BY <2>1, <1>1
<1>3. CASE Running /\ Next
    <2>0. UpInv /\ JoinInv /\ main # "deleted"
        BY <1>3 DEF ServerInv
    <2>1. CASE Client
        <3>1. ASSUME NEW c \in Conns, NEW k \in Kinds, SendHeader(c, k)
              PROVE  MappedStep
            BY <3>1, HiddenStep DEF SendHeader
        <3>2. ASSUME NEW c \in Conns, SendBody(c) PROVE MappedStep
            BY <3>2, HiddenStep DEF SendBody
        <3>3. ASSUME NEW c \in Conns, NEW x \in PeerFaults, PeerFault(c, x)
              PROVE  MappedStep
            BY <3>3, HiddenStep DEF PeerFault
        <3> QED BY <2>1, <3>1, <3>2, <3>3, ConnectMapped DEF Client
    <2>2. CASE Main
        <3>1. ASSUME StopFlag \/ StopPipe PROVE MappedStep
            BY <3>1, HiddenStep DEF StopFlag, StopPipe
        <3>2. ASSUME NEW t \in Threads, JoinKill(t) \/ JoinWait(t) PROVE MappedStep
            BY <3>2, HiddenStep DEF JoinKill, JoinWait
        <3>3. ASSUME Delete PROVE MappedStep
            BY <3>3, <2>0, <1>0, DeleteMapped
        <3> QED BY <2>2, <3>1, <3>2, <3>3 DEF Main
    <2>3. ASSUME NEW t \in Threads, svc(t) PROVE MappedStep
        <3>1. CASE TakeConn(t) BY <3>1, <2>0, <1>0, TakeMapped
        <3>2. ASSUME NEW c \in Conns, Accept(t, c) PROVE MappedStep
            BY <3>2, <2>0, <1>0, AcceptMapped
        <3>3. ASSUME NEW c \in Conns, AcceptRefuse(t, c) PROVE MappedStep
            BY <3>3, RefuseMapped
        <3> QED BY <2>3, <3>1, <3>2, <3>3, <1>0, IdleStep DEF svc
    <2>4. ASSUME NEW t \in Threads, recv_request(t) PROVE MappedStep
        <3>1. CASE ReadHeader(t)
            BY <3>1, HiddenStep DEF ReadHeader
        <3>2. CASE get_handle(t) \/ ReadBody(t) \/ ReleaseKeep(t)
            BY <3>2, <2>0, <1>0, DutyStep
        <3>3. CASE \/ GetInfo(t) \/ HeaderFails(t) \/ BodyFails(t)
                   \/ send_result(t) \/ SendFails(t)
            BY <3>3, <2>0, <1>0, ConcludeStep
        <3>4. CASE ReleaseClose(t)
            BY <3>4, <2>0, <1>0, CloseMapped
        <3>5. CASE EraseHandle(t) \/ ReAdd(t)
            BY <3>5, <2>0, <1>0, EndMapped
        <3> QED BY <2>4, <3>1, <3>2, <3>3, <3>4, <3>5, <2>0, NoBadStep
                DEF recv_request
    <2>5. ASSUME NEW t \in Threads, SendSpinEnds(t) \/ SigHandled(t)
          PROVE  MappedStep
        <3>1. CASE SendSpinEnds(t) BY <3>1, <2>0, <1>0, ConcludeStep
        <3>2. CASE SigHandled(t) BY <3>2, HiddenStep DEF SigHandled
        <3> QED BY <2>5, <3>1, <3>2
    <2> QED BY <1>3, <2>1, <2>2, <2>3, <2>4, <2>5 DEF Next, Ended
<1> QED BY <1>1, <1>2, <1>3

(* Http_Server implements HttpConnections for keep-alive clients: under    *)
(* any interleaving of threads, and with descriptors reused, a connection  *)
(* is admitted below MAX_FD_NUM, worked on by one thread at a time,        *)
(* answered at most once in each round of work, closed only by the thread  *)
(* at work on it, and never reopened.                                      *)
THEOREM ConnectionsRefined ==
    ASSUME KeepOnly PROVE Spec => ImplementsConnections
<1>1. ServerInv /\ ServerInv' /\ TypeInv /\ BookInv /\ [Next]_vars
          => [Connections!Next]_<<st, owner, duty, replies>>
    BY NextMapped DEF MappedStep
<1>2. [Connections!Next]_<<st, owner, duty, replies>>
          => [Connections!Next]_(Connections!vars)
    BY DEF Connections!vars
<1> QED BY <1>1, <1>2, InitMapped, ServerInvariant, BookInvariant, TypeInit,
        TypeStep, PTL DEF Spec, ImplementsConnections, Connections!Spec

=============================================================================
