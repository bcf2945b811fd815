# A TLA+ model of commonTools

The repository is a collection of C++ tools around a small HTTP server: the
server (`src/src/http_server`, with a variant in `src/src/http_server.babyEasy`),
a client, database access, dictionaries and indexes, similarity and clustering
code, and a large amount of vendored software.  This directory holds TLA+ models
of the parts that are concurrent, long-lived or exposed to failures, the TLC
configurations that check them, and machine-checked proofs.  All paths below
start at the root of the repository.

## 1. Inventory

| Part | State | Operations | What is hard | What makes it correct |
|---|---|---|---|---|
| `Http_Server` (`http_server.cpp`) | epoll registrations, event array, `m_fd_set`, `_now_connections`, `_stop_task`, two mutexes | `svc`, `recv_request`, `release_handle`, `stop`, ... | several receivers, edge-triggered epoll, descriptor numbers that are reused, close from one thread while another accepts | one owner per connection, handle and descriptor agree, no lost connection, every request answered, stop ends |
| `SocketHandle`, `Worker` | `_ref`, `_read_buf`; header, content | `acquire`, `release`; `genContentBuf` | reference counts decide who closes | `_ref` counts the holders |
| `task_base`, `main` | `m_thread`, the barrier | `open`, `activate`, `join`, `pause`, destructors | threads exist before the handler does; `join` runs twice | no receiver runs before `register_handler`; all are joined once |
| `wait_list_t` | ring, `_num`, `_alive`, mutex, condition | `put`, `get`, `get(abstime)`, `get_from_head`, `flush` | lost, stolen and spurious wakeups, timeouts, shutdown | a closable blocking queue |
| `linked_list_t` | `next`, `prev` | `add`, `add_prev`, `add_next`, `del`, `empty` | pointer surgery, stale pointers of deleted nodes | one ring, sequence semantics |
| `HttpHandler` of babyEasy | `command`, `motherAudio`, `babyStatus`, `lastCommandTime`, `babyVoice`, two temporary files | `generate_response` for four kinds of request | members and files shared by the receivers without a lock | without overlap, an instruction reaches the baby's phone once and the state of the baby is that of its voice |
| `HttpResponse`, `HttpClient` | response buffer; socket, partly read response | `dump_to_buff`; `connect_server`, `send`, `recv`, `disconnect` | partial reads, timeouts, late bytes of an earlier response, limits of two buffers | success only with the whole content of the right response |
| `CMysql`, `CMysqlExecute`, `CMysqlQuery` | session, table lock, cursor | `connect`, `execute`, `lock`, `unlock`, `fetch`, `reconnect`, `close` | sessions dropped at any moment, a retry hidden in `execute` | at most one effect per statement, a reported lock was granted to the session in use, every row is fetched |
| simhash configuration (`sim_conf.cpp`) | two halves and an index per file, kept mtimes | `conf_ontime_reload` and the readers | no lock, only a sleep; mtimes of whole seconds; half-written files | readers never see a half that is being filled, changes are loaded |
| inverted index, `EditDist` | documents with weight and city, inverted lists, ranked results | `Add`, `GetUnionResults`, `BinarySearch`, `EditSort` and the sorting by weight | narrowing searches over lists with repeated entries; two indexes that differ in what a missing word means and how results are ranked | equals the set operation and the ranking it computes |
| `HttpHandler` of http_server | `locateResult` shared by the receivers | `handle_worker`, `generate_response` | data race between receivers | not modelled |
| `config_map`, `Configuration` | key/value pairs | `import`, `get_value` | parsing | not modelled |
| classifiers, k-means, text models, query matching, segmentation, location of results, speech | models and dictionaries read from files | training, lookup | floating point, large data | not modelled |
| vendored: tensorflow, kenlm, CRF++, libsvm, liblinear, word2vec, opencore-amr, jsoncpp, pcre, tinyxml, darts | - | - | - | not part of this project |

How the parts interact.  `main()` opens the handler, opens the server (which
creates the receivers), registers the handler and lets the receivers pass the
barrier; then it sleeps in `pause()`.  Each receiver takes one event at a time
under `_epoll_mutex`, takes the descriptor out of epoll, serves one request in
`recv_request()` - read the header, read the content, call
`HttpHandler::handle_worker()`, which calls back `retrieve_worker()` to write the
answer and release the handle - and registers the descriptor again.  A signal
ends `pause()`; `stop()` sets `_stop_task`, writes one byte to a pipe that is
registered with epoll and joins the receivers.  `wait_list_t` and
`linked_list_t` are the containers of the same directory for handing work
between threads; `wait_list_t` uses `add()` and `del()`.
The client and the server meet in the bytes of one response; a dialogue asks
`CDlgIndex` and ranks its documents by edit distance; `CDlgLogIndex` ranks its own by
weight.  The database classes
and the simhash dictionaries are libraries with threads of their callers.

The hazards, each at its line, are listed in `PROJECT.json`.

## 2. Modules

| Module | Models |
|---|---|
| `HttpServer` | the receivers, epoll and the descriptors, the handle map, the clients, the main thread from `stop()` on; both variants of the server |
| `HttpConnections` | abstract: the life cycle of a connection |
| `MCHttpServer` | `HttpServer` with symmetry sets, for TLC |
| `TaskBase` | `main()` and `task_base` |
| `LinkedList` | `linked_list_t` |
| `WaitList` | `wait_list_t`, extends `LinkedList` |
| `WorkQueue` | abstract: the queue that `wait_list_t` promises |
| `BabyRelay` | `HttpHandler` of babyEasy |
| `ClientResponse` | `HttpClient` with the response path of the server |
| `Database` | the classes of `common_base/database.cpp` and a MySQL server |
| `SimConf` | the reload thread of simhash, its files and its readers |
| `InvIndex` | the inverted index, its two searches and `EditDist` |
| `HttpServerProofs`, `WaitListProofs`, `TaskBaseProofs`, `BabyRelayProofs`, `ClientResponseProofs`, `DatabaseProofs`, `SimConfProofs`, `InvIndexProofs` | the proofs about the module of that name; those about `LinkedList` are in `WaitListProofs` |

A definition whose comment begins with "Variant:" is not part of the model: it
is a plausible mistake in the code that the runs are known to notice.

### HttpServer

The actions are the code between two points where another actor can be seen: a
mutex, a system call, a shared variable.  `pc[t]` says where a receiver is:

| `pc` | Place in the code | Actions |
|---|---|---|
| `top`, `lock` | `svc()`: loop test, `_epoll_mutex` | `LoopTest`, `LockEpoll` |
| `epoll` | in `epoll_wait()` with the mutex | `EpollWait`, `EpollEintr` |
| `dispatch` | event array not empty | `TakeListen`, `TakePipe`, `TakeConn` |
| `accept`, `insert`, `addnew` | the accept loop | `Accept`, `AcceptRefuse`, `AcceptEnd`, `create_handle`, `AddNew` |
| `get` | `get_handle()`, `assert(hdle)` | `get_handle`, `AssertHandle` |
| `header` | `read_http_header_timeout()`, `GetInfo()` | `ReadHeader`, `GetInfo`, `HeaderFails` |
| `body` | `readn_timeout()` | `ReadBody`, `BodyFails`, `EmptyBodyCrash`, `EmptyBodyReturn` |
| `send` | `retrieve_worker()`: `send_result()` | `send_result`, `SendFails`, `SendSpinEnds` |
| `release`, `erase` | `release_handle()` | `ReleaseKeep`, `ReleaseClose`, `EraseHandle`, `ReleaseShared` |
| `readd` | `add_input_fd(fd)` at the end of `recv_request()` | `ReAdd` |

`StopFlag`, `StopPipe`, `JoinKill`, `JoinWait`, `SigHandled` and `Delete` are
`stop()`, `join()` and the destructor.  A fault of the process (a failed
assertion, a use of a deleted handle, a write through NULL) is recorded in
`fault`, after which nothing happens.

The kernel is external and modelled from its use: `sock` maps a descriptor to
the connection it denotes, the lowest free number is handed out, close frees it;
`interest` is the set of registered descriptors and `ready` the ones with an
edge that `epoll_wait()` has not reported.  An `EPOLL_CTL_ADD` on a readable
socket queues it, one on a descriptor that is free or registered fails, and
the code ignores that.

Data.  A request is a header token and, for the kinds with content, one content
token; what `GetInfo()` extracts is the kind: `keep` (keep-alive), `close`,
`empty` (no content), `bad` (unusable first line).  Token boundaries stay
visible: one `read()` may bring in any number of tokens.  Timeouts are not
measured: a read fails when nothing is there, a write when the client does not
read.

Not modelled here: partial reads within a header or a content; the locks
`_connections_mutex` (always taken for one assignment) and `SocketHandle::lock`
(never contended while `SingleOwner` holds); `generate_http_header()`, which
nothing calls; the read of the deleted worker in the log statement at line 353.

### TaskBase

One action per statement of `main()` from `open` to the end, and `run_svc` of
each receiver.  `svc()` is reduced to its use of `m_handler`, to its end, and to the
one place where a round of it may be stuck: a receiver that answers a client which has
reset its connection goes round in `writen_timeout()` (`"spin"`) until its counter of
bytes has run through its range, if ever (`SpinEnds`).  `exit(-1)` on a failed `open()`
is the state `failed`, in which the receivers that were created are gone.

### LinkedList and WaitList

A node is its own identity and `_head` is one more place of the ring.  The
operations assign `next` and `prev` as the code does, with one difference: the
assignments of one operation are simultaneous.  `linked` is history: the nodes
the caller has put in and not taken out, which is what the caller must know
anyway in order to obey the interface (a node is in at most one list, `del()`
only takes a node that is in).  `wait_list_t` calls `add()` and `del()`; `add_prev()`,
`add_next()` and `empty()` have no caller in the repository and occur in the theorems
about `ListSpec` only.

In `WaitList`, what a call does between getting the mutex and dropping it, or
going to sleep, is one action; the mutex itself is then invisible.  A thread
that is signalled, or wakes up without a signal, competes for the mutex with
newcomers.  A timed wait that expires competes too, and then returns without
looking at the list, as the code does.

### BabyRelay

The phone beside the baby sends recordings and asks what to do; the parents' phones
send instructions with a voice message.  Four receivers may be in
`generate_response()` at once, so every access to a member of the handler is a
step of its own.  A string that is read while another receiver assigns it reads as
any value, and of two that are assigned at once the later one stays; that such a race may also corrupt the heap is not modelled.  Recordings
that overlap share `babyVoice` and the files `tmp/tmp.amr` and `tmp/tmp.amr.wav`,
and what a torn file sounds like is open.  `CalSimilarity()` is external to the
model except for what it tells apart: a silent voice, one that is awake, one that
says nothing.  `heard`, `due` and `own` are
history; `Quiet` and `Storing` say whether any instruction is being stored.

### ClientResponse

A byte is a pair of a response and a place in it, so that bytes of different
responses can be told apart when they get mixed up.  The server contributes what
`dump_to_buff()` leaves in its length and `retrieve_worker()` sends; the network
delivers bytes in order, late or never, and `read()` returns any number of them.
`recv()` is modelled from `read_http_header_timeout()`, which looks for the
separator in one block of `READ_BUF_SIZE` bytes at a time, to its four error
returns.  `sync` records that no earlier call has left bytes behind.

### Database

Each client is a process with a `CMysql`, a `CMysqlExecute` and a `CMysqlQuery` on
it.  The server may drop a session at any moment (`Drop`) until it has calmed down for
good (`calm`).  A statement goes through `Call` and `Send` to the server; there it
waits while a table lock of another session is in its way (`InTheWay`), takes effect
(`Effect`), and its answer is on the way: it comes through (`Succeeds`), even from a
session that is dropped by then, or is lost with the session (`LosesAnswer`).  Or it
fails before (`Refused`, `Broken`).  `Fails` decides, as `execute()` does, whether to
`reconnect()` and try once more: only for `CR_SERVER_GONE_ERROR`.  `reconnect()` may
fail at each of its steps and leaves the handle closed, not connected, connected
without a database, or connected with `initSQL_` refused.  `times` counts effects on
the server, which the code cannot see.

`CMysqlQuery::execute()` without a result set runs off its end without a return
statement: what its caller sees (`"any"`) may pass for 0.  A caller that takes it for 0
fetches (`fetchable[c] = "blind"`), and `fetch()` then hands a NULL result to the
library (`FetchNull`): the process dies.

### SimConf

A `Tick` is a second; `same`, `seenNow` and `editNow` are what comparing two
`st_mtime` values can show.  A load is two steps, so that a reader or an editor may
come between clearing and filling a half.  A file that is not there is created by
`file_ismodify()`, without taking over its mtime, or the process exits (`Absent`,
`Exit`).  A load that is refused half-way leaves its half cut off (`Cut`); if the
entry is a pid that comes twice, `load_product_conf()` returns the code of `set()`,
external here, which may be 0 and puts the half into use (`Refused`).  How long a reader
stays in a half is the constant `ReadTime`, and `ReadTime < Grace` is the assumption that
the `sleep(5)` of the code stands for: nothing else keeps readers and the thread apart.
The readers themselves are external (what calls `client_init()` and looks up in the halves
is not under `src/`).

### InvIndex

Documents and queries are sequences of words, as the segmenters return them.  A query
is cut twice: what is searched for comes from the normalised query without its stop
words (`parts`), what `EditSort()` compares with the documents from the query as it was
typed (`raw`, chosen by `Segment_` independently of `parts`).  One action adds a
document; a query is one action per step of its loops: the next entry of the shortest
list, the next word, each halving of `BinarySearch()`, the next result to be ranked.

The two indexes differ (`log`).  `CDlgLogIndex` gives a document up when a word is
missing, leaves out documents whose city is not known and sorts the others by their
weight (`LogSort`); nothing is compared or listed once only.  `CDlgIndex::SearchDoc()`
goes on when a word is missing, so that every document with the rarest word counts as
found, and `DIALOGUE` ranks the texts with `EditSort`.  `Wanted` states both.  `edit()` is
a recursive function over places, as the matrix of the code, and `Distance` is its
definition by common subsequences.

## 3. Runs

| Run | Instance | Checks |
|---|---|---|
| `ServerKeepAlive` | 2 receivers, 2 clients, 2 descriptors; keep-alive requests; clients that fall silent or hang up | `SingleOwner`, `ServesOwnSocket`, `NoOrphan`, `CloseRequestCloses`, `ServerInv` (with `TypeOK` and `NoFault` among its conjuncts), `ImplementsConnections` |
| `ServerShort` | 2 receivers, 2 clients, 2 descriptors of which one is below the limit; short connections, requests without content | `InsertFindsFree`, `ConnectionCount` |
| `ServerLive` | 2 receivers of babyEasy, 1 client with 2 requests of every kind and every fault, fairness | `RequestAnswered`, `StopCompletes` |
| `WaitList` | 2 callers, 3 nodes, fairness | `RingInv`, `SequenceEffects`, `NoLostWakeup`, `CountsList`, `ImplementsQueue`, `FlushReleases`, `NotLeftAsleep` |
| `TaskBase` | 4 receivers (the value in `http.cfg`), every failure of `open()`, fairness | `HandlerReady`, `JoinedOnce`, `AllActivated`, `StopsAfterPause` |
| `BabyRelay` | 1 request for an instruction, 2 recordings and 2 parents at a time, 2 instructions, a period of 1 | `InstructionKept`, `MessageOnce`, `StatusOfVoice`, `AwakeBabyGetsPlay` |
| `ClientResponse` | reads of 4 bytes, a separator of 2, buffers of 4 and 8, headers of 3 to 5, contents of none and 0 to 5, 2 requests | `AnswerOfRequest`, `ResultByLength`, `BufferSafe` (with `TypeOK`), `RecvReturns` |
| `Database` | one client with every statement, one that locks the table, results of at most one row | `ExactlyOnce`, `CursorSafe`, `LockHeldOnReturn`, `StatementReturns`, `Recovers` |
| `SimConf` | 1 reader, 2 changes of each file (whole, half written, with a repeated pid, removed), `Grace` 2, `ReloadTime` 1, `ReadTime` 1 | `NoTornRead`, `ActiveLoaded`, `EditLoaded` |
| `InvIndex` | 2 words, 2 weights besides 0 and no city, up to 3 documents and queries of up to 2 words, both indexes | `BinarySafe`, `SearchComplete`, `QueryEnds` |

The type invariants of the other modules, `FlushWakesAll`, `NoFault` and `ListsOrdered`
are proved for every instance (section 4) and not repeated by TLC.

Why the bounds are enough.  Every hazard of the server is between two receivers,
or between a receiver and a client, over one descriptor number that two connections
use in turn: two receivers, two connections and one or two descriptors reach them.
A connection that is closed frees its number for the next client, and in
`ServerShort` there is one usable number for both.  `MAX_EPOLL_EVENT_NUM` is 2, so
an event array may hold events that are consumed by different receivers, and
`epoll_wait()` may leave some behind.  For `wait_list_t`, two callers that come back
are a sleeper and the newcomer that overtakes it, and three nodes make the order
and a ring with a node inside visible; the proofs hold for any number.  In `Database`, two clients are a session
and another one in its way; a second row would repeat the first.  In `SimConf` the
second change of a file is the one that meets the sleep after the first flip, and two
files let the sleep of one delay the other.  In `BabyRelay` two recordings, and the
instructions of two parents, overlap or follow each other.  In `ClientResponse` the lengths lie on both sides of every limit:
a header that ends before, at and after the end of a read, a separator across two
reads, contents of nothing, up to a read, and past either buffer; the second request
meets what the first has left.  In `InvIndex` three documents of two words
give lists of up to six entries, that take three halvings, with repeated entries.  Named bounds cut the counters: `MaxReq`,
`MaxRows`, `MaxEdits`, `MaxSends`, `MaxRequests`, `MaxDocs`, `MaxLen`.

Symmetry is used for threads and connections in the server runs without liveness;
nothing but `CHOOSE` over them in a function whose value is symmetric depends on
their identity.

Fairness.  The scheduler runs every thread: weak fairness of what each receiver,
caller, client and the main thread does.  Weak fairness is enough for the mutexes:
none of the properties depends on which thread gets one.  Peers, signals, spurious
wakeups, expiry of timed waits and the end of the spinning `writen_timeout()`
(`SendSpinEnds`, `SpinEnds`) get none.  Besides:

- `Database`: every process runs, and the server works on a statement that no lock of
  another session is in the way of; a caller that is done with one statement has another, without which a
  broken handle is never tried again; `Drop` and `Calm` get no fairness, and `Recovers`
  speaks of the time after the last disturbance.
- `SimConf`: time passes and readers finish.
- `BabyRelay`: time passes, and the baby's phone goes on asking, as it is made to.
- `ClientResponse`: `recv()` goes on, because `recv_timeout` bounds every `poll()`; the
  server gets no fairness.

What the properties had to be told about the code, found while modelling:

- A client that has reset its connection keeps the receiver that answers it in
  `writen_timeout()` (`http_server.cpp:573`: `write()` returns -1 and the count of
  bytes left grows): `RequestAnswered`, `StopCompletes` and `StopsAfterPause` exempt it.
- `release_handle(hdle, true)` closes nothing when two receivers hold the handle, and
  with several clients and short connections they may: `CloseRequestCloses` is checked
  and proved for clients that keep their connection.
- A request without content writes through NULL in http_server (line 341,
  `EmptyBodyCrash`); babyEasy returns instead (line 340) and keeps the handle, which
  `RequestAnswered` exempts (`Abandoned`).
- A client that pipelines may wait for its second answer (`Pipelined = TRUE`); the
  runs use clients that wait.
- `recv()` reports an error for a response that came completely: when the content came
  along with the end of the header, or when the separator lies across two reads.
  `ResultByLength` states exactly for which lengths.
- A failed `recv()` leaves bytes on the connection that the next one takes for its
  own response; `AnswerOfRequest` needs `sync`.  A header without an end would keep
  `recv()` for ever; responses are finite here.
- The statement that `unlock()` sends is refused by MySQL, which keeps the lock until
  the session ends or locks again.  So another client may wait for the table without
  end, and `StatementReturns` says that this is the only thing to wait for.  A session
  whose `open()` failed is never repaired.
- A lock that `lock()` reports may be gone when it returns, if the session was dropped
  with the answer on its way (`LockHeldOnReturn`); and `m_pTable` keeps its value when a
  later statement reopens the connection, which the code cannot notice.
- `fetch()` after an `execute()` that has ended without a return statement may read
  through NULL; `CursorSafe` says that it does so in no other case.
- A change of a file in the second in which the thread has looked at it is missed
  (`missed` in `EditLoaded`), and a repeated pid may put a half into use that is cut off
  (`ActiveLoaded`).
- Overlapping recordings disturb each other, an instruction stored during a request for
  one may be lost, a message stored meanwhile lost or heard twice: `StatusOfVoice`,
  `InstructionKept` and `MessageOnce` state what is left without overlap.

Two runs show a disagreement between the code and what it says of itself:

| Run | Property | Shows |
|---|---|---|
| `ServerAssert` | `AssertHdle` | `assert(hdle)` (line 309) fails: `add_input_fd(fd)` at line 343 runs after a short connection was closed and may register the next connection with the same number (the same step lets two receivers hold one handle, and `release_handle(hdle, true)` then closes nothing) |
| `IndexIntersect` | `AllWordsHeld` | `CDlgIndex` lists a document that lacks a word of the query: the rarest word selects the documents, while the comments in `doc_index.cpp` (lines 519, 560, 644-645) speak of an intersection in which every word must occur; the return statements that would do that (lines 647 and 711) are commented out |

## 4. Proofs

All theorems hold for every value of the constants that satisfies the named
assumptions (finite sets, natural bounds, the special values outside the sets).

`HttpServerProofs`

- `TypeCorrect`: `Spec => []TypeOK`.  `TypeOK` alone is not inductive: `fd[t]` is a
  descriptor of a connection only at the places where the code uses it as one.
  The proof carries `FdInv` and the fact that the pipe and the listening socket stay
  registered along.
- `ServerInvariant`: `Spec => []ServerInv`, if clients send only requests that keep
  the connection or are malformed (`KeepOnly`).  Without that assumption it is
  false, which is what `ServerAssert` shows.  The argument: a descriptor is either
  registered with epoll or in the hands of exactly one receiver (`EpollInv`,
  `OwnInv`, `NoOrphanInv`), because `del_input_fd()` happens under the mutex and
  `add_input_fd()` when the receiver lets go; so the receiver's descriptor keeps
  denoting the connection it was taken for (`SockInv`, `ServeInv`), the map agrees
  with the kernel except for the entry that `release_handle()` is erasing, which
  holds `_map_mutex` (`MapInv`, `LockInv`), and `_ref` is 1 exactly while there is
  a holder (`RefInv`).  Hence a close request always finds the last reference, the
  error paths, the only ones that close, return without `add_input_fd()` (`ReqInv`),
  and the argument starts again.  Actions that touch none of this are handled by one
  lemma; each of the others has a lemma of its own with one step per conjunct.
- `OneOwner`, `FaultFree`, `OwnSocket`, `NeverOrphaned`: `SingleOwner`, `NoFault`,
  `ServesOwnSocket` and `NoOrphan` follow from `ServerInv`, under `KeepOnly` like it.
- `CloseCloses`: `CloseRequestCloses`, under `KeepOnly`.  It follows from
  `SingleOwner` and the conjuncts of `ServerInv` about handles.  With short
  connections the reference may be shared (see `ServerAssert`), and without the
  assumption it is false.
- `BookInvariant`: `Spec => []BookInv`, for clients that send anything, and from it
  `InsertNeverFails` (`InsertFindsFree`) and `CountExact` (`ConnectionCount`).  Who
  owns a descriptor is not needed here; `BookInv` is about what `_map_mutex` protects.
  A receiver that serves a live handle finds it in the map under its own
  descriptor; `close()` and the erasure of the entry are two steps but one critical
  section, so an entry without a socket exists only while `release_handle()` holds the
  mutex, and `insert_handle()` of the next connection with that number has to wait for
  it (`LockInv`, `SockInv`, `EntryInv`).  The count differs from the number of open
  sockets by the one that is being released.
- `ConnectionsRefined`: `Spec => ImplementsConnections`, under `KeepOnly`.  Each
  action is shown to be a step of `HttpConnections` or a stutter, through the lemma
  that says for which connection the abstract state may change and that a receiver
  works on at most one.

`WaitListProofs`

- `RingKept`, about `linked_list_t`: `next` and `prev` are inverse to each other on the
  nodes of the list and do not lead out of it.
- `ListIsSequence`: `ListSpec => SequenceEffects`: `add()` puts its node first,
  `add_prev()` and `add_next()` put it before and behind the given one, `del()` takes it
  out, `empty()` forgets all, and nothing else moves.
  `RingInv` does not rule out a ring beside the one of `_head`, so the proof carries the
  chain of `IsChain`, a function from `1..n` that lists the nodes both ways.  That the
  walk along `next` computes this function is an induction over its steps; it is done
  with the least step at which they would differ.
- `WaitListCorrect`: `Spec => []WaitInv`, and from it `WaitTypeCorrect`, `WakeupsKept`, `ListCounted` and
  `FlushedAwake`.  `NoLostWakeup` needs to know that a caller goes to sleep only
  when `_num` is 0, and the code tests the ring, not `_num`; `CountsList` supplies
  it: there is a function from `1.._num` that lists the ring both ways.  `put()`
  extends it at one end, `get()` shortens it at either.
- `QueueRefined`: `Spec => ImplementsQueue`, the abstract queue of `WorkQueue` being
  the walk along the ring.  Besides `WaitInv` it needs `CallInv`: a thread sleeps or
  waits for the mutex only in a call, and only a timed call expires.

`TaskBaseProofs`

- `TaskInvariant`: `Spec => []TaskInv`, and from it `TaskTypeCorrect`, `ReadyInService`
  (`HandlerReady`) and `CollectedOnce` (`JoinedOnce`).  `TaskInv` ties the place of
  `main()` to the handler, the server and the receivers.  The heart is a counting
  argument: the barrier lets nobody through before `thread_num + 1` arrivals, there are
  only `thread_num` receivers, so `main()` is among them and has registered the handler.

`ClientResponseProofs`

- `LimitInvariant` and from it `NeverOverrun` (`BufferSafe`, with `TypeOK`): what
  `recv()` has stored and what `readn_timeout()` may still store fit into
  the caller's buffer, for any sizes that satisfy `ClientAssumption`.
- `RecvInvariant`: `Spec => []RecvInv`, and from it `AnswerBelongs` (`AnswerOfRequest`) and
  `LengthsDecide` (`ResultByLength`), for responses of any lengths.  `StreamInv` says
  that, as long as no earlier call left bytes behind, the bytes that were read followed
  by those on the connection are one piece of the response to the last request, and
  that the piece in hand begins at a multiple of `READ_BUF_SIZE`.  The rest is where the
  first separator of such a piece lies, and what length its header field gives.

`DatabaseProofs`

- `DbInvariant`: `Spec => []DbInv`, and from it `DbTypeCorrect`, `NeverTwice`
  (`ExactlyOnce`), `CursorKept` (`CursorSafe`) and the action property `LockReported`
  (`LockHeldOnReturn`).  `ExactlyOnce` is not inductive; `CallInv` adds that a statement
  that is not answered yet has not taken effect, one whose answer is on the way has, once,
  and left its lock with the session as long as that lives, and that the cursor of a query
  in hand is cleared.  It is kept because the only error after which `execute()` retries is
  the one after which the statement cannot have arrived.  `BlindInv`: a caller that took
  the missing return for 0 has a cursor without a result, so that its first `fetch()`
  reads through NULL, and nobody else's does.

`SimConfProofs`

- `SimInvariant`: `Spec => []SimInv`, and from it `SimTypeCorrect`, `NeverTorn`
  (`NoTornRead`) and `AlwaysLoaded` (`ActiveLoaded`), from the assumption
  `ReadTime < Grace`.  The strengthening is `StaleInv`: a reader of the half that is not
  in use has less time left than the thread still sleeps; `DupInv`: only the product
  configuration is loaded with a repeated pid.

`BabyRelayProofs`

- `RelayInvariant`: `Spec => []RelayInv`, and from it `RelayTypeCorrect`, `NeverReplaced`
  (`InstructionKept`), `HeardOnce` (`MessageOnce`) and the action property `OwnVoice`
  (`StatusOfVoice`), for any number of requests and parents at a time.  `KeptInv`:
  while an instruction is due, it is the only one being stored, no request that began
  before it was stored is under way, and none has gone past its answer.  `OnceInv`: a message in place that has been handed out
  already is about to be taken back.  `AloneInv`: a recording that is served alone has
  `babyVoice` and the file to itself.

`InvIndexProofs`

- `IndexInvariant`: `Spec => []IndexInv`, and from it `IndexTypeCorrect`, `AlwaysOrdered` (`ListsOrdered`) and
  `NeverCutOff` (`BinarySafe`), for any vocabulary, documents and queries.  Lists stay in
  order because a new document has the largest number (`EntryInv`); in an ordered list
  the half that is cut off cannot hold the document.
- `EditIsDistance`: `edit()` is `Distance`, for texts of any length.  Every cell of the
  matrix holds the words of the two beginnings less twice the most words in common.
  `MostGrows`, `MostWithLast` and `MostWithout` give the most words in common of a cell
  from those of its three neighbours, and the induction over the cells takes the least
  one that would be wrong.
- `ResultInvariant`: `Spec => []ResultInv`, and from it `SearchFinds` (`SearchComplete`).
  `HitInv`: a list holds exactly the documents with its word.  `DocsInv`: the result so
  far holds exactly the documents wanted among the entries of the shortest list that
  are done.  `BeginsInv`: an entry before `index_begins` belongs to no document later
  than the one in hand, so that a document whose entries are all skipped can only be one
  that a repeated entry has put into the result before (`MissedTaken`).  `SortInv`: what
  is listed and what is still to come are together the results wanted, and what is listed
  is listed right: for `CDlgLogIndex` under its weight (`ByWeight`), for `CDlgIndex` once
  and under its distance from `raw` (`ListedOnce`).

Only model-checked: the liveness properties (`RequestAnswered`, `StopCompletes`,
`FlushReleases`, `NotLeftAsleep`, `AllActivated`, `StopsAfterPause`, `AwakeBabyGetsPlay`,
`RecvReturns`, `StatementReturns`, `Recovers`, `EditLoaded`, `QueryEnds`), because fairness
and `ENABLED` are out of the prover's reach.  Every other property of the passing
runs is proved.  The two abstract specifications state no fairness, so their refinement is
proved completely.

## 5. Plan

Every safety property of the passing runs has its theorem.  Left: what the server still
guarantees with short connections and several clients (a weaker ownership than
`ServerInv`), and the liveness of the babyEasy server with a second client beside one that
it has abandoned.

## 6. Not modelled

Nearly all of the lines under `src/` are vendored (tensorflow, kenlm, CRF++, libsvm,
liblinear, word2vec, opencore-amr, jsoncpp, pcre, tinyxml, darts) and are not the
program of this repository; so a map of its own concurrent and stateful code covers a
small share of all lines.  Of its own code these parts are left out:

- `HttpHandler` of http_server: its inputs are overwritten by constants, and its one
  member is a vector that receivers fill without a lock, which is undefined as soon as
  two of them overlap and trivial when they do not.
- `config_map`, `Configuration`: a parser of characters that runs once before the
  threads exist.
- k-means, classifiers, text models, the location of results and the speech features:
  floating point over data files, out of reach of TLC.
- query matching, the double-array index, segmentation: lookups in tables that do not
  change after loading, most of them in external libraries.
- defects that every schedule meets alike and a test with one input reaches: the log
  statement that reads the deleted worker (`http_server.cpp:353`), the zero that
  `dump_to_buff()` writes behind a buffer that is exactly full (`HttpResponse.cpp:112`),
  `m_lengths` that stays that of the first row, `permanentKeys` that is never cleared.
- the texts of headers and fields, the files of the inverted index and the sorting that
  no caller asks for, the chunked branch of the client (no server of the repository
  answers with chunks), the sign arithmetic and the redis commands of simhash.
