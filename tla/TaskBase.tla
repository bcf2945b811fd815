------------------------------ MODULE TaskBase ------------------------------
(***************************************************************************)
(* The life of the process: main() (src/http_server/main.cpp) and the      *)
(* thread pool task_base (src/http_server/task_base.cpp).  open() creates  *)
(* the receivers one by one; they wait at a barrier that activate() makes  *)
(* complete, and join() collects them.  svc() is the loop of module        *)
(* HttpServer, of which only its use of the handler, its end and the one   *)
(* place where it may be stuck matter.                                     *)
(***************************************************************************)
EXTENDS Integers, FiniteSets

CONSTANT ThreadNum      \* receiver_num, as read from the configuration

ASSUME ThreadNumAssumption == ThreadNum \in Nat

Receivers == 1..ThreadNum
Main == 0

VARIABLES
    main,       \* the statement main() is at
    i,          \* the loop variable of open() and join()
    m_thread,   \* m_thread # NULL
    barrier,    \* "none", "init" or "destroyed"
    arrived,    \* who has reached the barrier
    tpc,        \* the receivers
    handler,    \* "new", "registered" or "deleted"
    server,     \* Http_Server: "new" or "deleted"
    stop_task

vars == <<main, i, m_thread, barrier, arrived, tpc, handler, server, stop_task>>

MainStates == {"open", "create", "register", "activate", "barrier", "started",
               "pause", "stop", "join", "delete", "rejoin",
               "delete_handler", "exited", "failed"}

TaskStates == {"none", "run", "barrier", "svc", "spin", "done"}

TypeOK == /\ main \in MainStates
          /\ i \in 1..(ThreadNum + 1)
          /\ m_thread \in BOOLEAN /\ stop_task \in BOOLEAN
          /\ barrier \in {"none", "init", "destroyed"}
          /\ arrived \subseteq Receivers \cup {Main}
          /\ tpc \in [Receivers -> TaskStates]
          /\ handler \in {"new", "registered", "deleted"}
          /\ server \in {"new", "deleted"}

\* The configuration is read and the handler is open.
Init == /\ main = "open" /\ i = 1
        /\ m_thread = FALSE /\ barrier = "none" /\ arrived = {}
        /\ tpc = [t \in Receivers |-> "none"]
        /\ handler = "new" /\ server = "new" /\ stop_task = FALSE

Up == main \notin {"exited", "failed"}

-----------------------------------------------------------------------------
\* task_base::open(): stack size, thread_num and malloc() may make it fail.
Open ==
    /\ main = "open"
    /\ \/ /\ ThreadNum > 0
          /\ m_thread' = TRUE /\ barrier' = "init" /\ main' = "create"
       \/ main' = "failed" /\ UNCHANGED <<m_thread, barrier>>
    /\ UNCHANGED <<i, arrived, tpc, handler, server, stop_task>>

\* pthread_create() number i.  If it fails, main() calls exit(-1).
Create ==
    /\ main = "create" /\ i <= ThreadNum
    /\ \/ tpc' = [tpc EXCEPT ![i] = "run"] /\ i' = i + 1 /\ UNCHANGED main
       \/ main' = "failed" /\ UNCHANGED <<tpc, i>>
    /\ UNCHANGED <<m_thread, barrier, arrived, handler, server, stop_task>>

Created ==
    /\ main = "create" /\ i > ThreadNum
    /\ main' = "register"
    /\ UNCHANGED <<i, m_thread, barrier, arrived, tpc, handler, server, stop_task>>

register_handler ==
    /\ main = "register"
    /\ handler' = "registered"
    /\ main' = "activate"
    /\ UNCHANGED <<i, m_thread, barrier, arrived, tpc, server, stop_task>>

\* Variant: the barrier is initialised for the receivers only.
Complete_WithoutMain == Cardinality(arrived) >= ThreadNum

\* Variant: the barrier waits for one thread more than there are.
Complete_Extra == Cardinality(arrived) = ThreadNum + 2

\* pthread_barrier_init(&m_barrier, NULL, thread_num + 1)
Complete == Cardinality(arrived) = ThreadNum + 1

activate ==
    /\ main = "activate"
    /\ arrived' = arrived \cup {Main}
    /\ main' = "barrier"
    /\ UNCHANGED <<i, m_thread, barrier, tpc, handler, server, stop_task>>

Activated ==
    /\ main = "barrier" /\ Complete
    /\ main' = "started"
    /\ UNCHANGED <<i, m_thread, barrier, arrived, tpc, handler, server, stop_task>>

pause ==
    /\ main = "started"
    /\ main' = "pause"
    /\ UNCHANGED <<i, m_thread, barrier, arrived, tpc, handler, server, stop_task>>

\* SIGTERM or SIGINT: their handlers do nothing, but pause() returns.  A
\* signal that comes at another time changes nothing.
Signal ==
    /\ Up
    /\ main' = IF main = "pause" THEN "stop" ELSE main
    /\ UNCHANGED <<i, m_thread, barrier, arrived, tpc, handler, server, stop_task>>

-----------------------------------------------------------------------------
\* run_svc()
run_svc(t) ==
    /\ Up /\ tpc[t] = "run"
    /\ arrived' = arrived \cup {t}
    /\ tpc' = [tpc EXCEPT ![t] = "barrier"]
    /\ UNCHANGED <<main, i, m_thread, barrier, handler, server, stop_task>>

Released(t) ==
    /\ Up /\ tpc[t] = "barrier" /\ Complete
    /\ tpc' = [tpc EXCEPT ![t] = "svc"]
    /\ UNCHANGED <<main, i, m_thread, barrier, arrived, handler, server,
                   stop_task>>

InService == {"svc", "spin"}

\* A round of svc(), begun before it could see _stop_task, gets stuck in
\* writen_timeout(): the client has reset its connection.
writen_timeout(t) ==
    /\ Up /\ tpc[t] = "svc"
    /\ tpc' = [tpc EXCEPT ![t] = "spin"]
    /\ UNCHANGED <<main, i, m_thread, barrier, arrived, handler, server,
                   stop_task>>

\* The int "left" has run through its range; the next round comes to the
\* test of _stop_task.
SpinEnds(t) ==
    /\ Up /\ tpc[t] = "spin"
    /\ tpc' = [tpc EXCEPT ![t] = IF stop_task THEN "done" ELSE "svc"]
    /\ UNCHANGED <<main, i, m_thread, barrier, arrived, handler, server,
                   stop_task>>

\* svc() returns when it sees _stop_task.
svc(t) ==
    /\ Up /\ tpc[t] = "svc" /\ stop_task
    /\ tpc' = [tpc EXCEPT ![t] = "done"]
    /\ UNCHANGED <<main, i, m_thread, barrier, arrived, handler, server,
                   stop_task>>

-----------------------------------------------------------------------------
\* Variant: _stop_task is not set.
stop_NoFlag ==
    /\ main = "stop"
    /\ main' = "join" /\ i' = 1
    /\ UNCHANGED <<m_thread, barrier, arrived, tpc, handler, server, stop_task>>

\* Http_Server::stop()
stop ==
    /\ main = "stop"
    /\ stop_task' = TRUE
    /\ main' = "join" /\ i' = 1
    /\ UNCHANGED <<m_thread, barrier, arrived, tpc, handler, server>>

\* Variant: join() does not wait for the thread it has signalled.
Joined_NoWait ==
    /\ main = "join" /\ i <= ThreadNum
    /\ i' = i + 1
    /\ UNCHANGED <<main, m_thread, barrier, arrived, tpc, handler, server,
                   stop_task>>

\* join(): pthread_kill() and pthread_join() of receiver i.
Joined ==
    /\ main = "join" /\ i <= ThreadNum
    /\ tpc[i] = "done"
    /\ i' = i + 1
    /\ UNCHANGED <<main, m_thread, barrier, arrived, tpc, handler, server,
                   stop_task>>

JoinEnds ==
    /\ main = "join" /\ i > ThreadNum
    /\ m_thread' = FALSE /\ barrier' = "destroyed"
    /\ main' = "delete"
    /\ UNCHANGED <<i, arrived, tpc, handler, server, stop_task>>

\* delete http: ~Http_Server(), and then ~task_base() calls join() again.
DeleteServer ==
    /\ main = "delete"
    /\ server' = "deleted"
    /\ main' = "rejoin"
    /\ UNCHANGED <<i, m_thread, barrier, arrived, tpc, handler, stop_task>>

Rejoin ==
    /\ main = "rejoin" /\ ~m_thread
    /\ main' = "delete_handler"
    /\ UNCHANGED <<i, m_thread, barrier, arrived, tpc, handler, server, stop_task>>

DeleteHandler ==
    /\ main = "delete_handler"
    /\ handler' = "deleted"
    /\ main' = "exited"
    /\ UNCHANGED <<i, m_thread, barrier, arrived, tpc, server, stop_task>>

Exited == ~Up /\ UNCHANGED vars

MainStep == \/ Open \/ Create \/ Created \/ register_handler \/ activate
            \/ Activated \/ pause \/ stop \/ Joined \/ JoinEnds
            \/ DeleteServer \/ Rejoin \/ DeleteHandler

Receiver(t) == run_svc(t) \/ Released(t) \/ svc(t)

Next == \/ MainStep \/ Signal \/ Exited
        \/ \E t \in Receivers : Receiver(t) \/ writen_timeout(t) \/ SpinEnds(t)

Spec == Init /\ [][Next]_vars

\* The threads of the process are scheduled.  Signals need not come, and a
\* spinning receiver need not get out of its loop.
FairSpec == /\ Spec /\ WF_vars(MainStep)
            /\ \A t \in Receivers : WF_vars(Receiver(t))

-----------------------------------------------------------------------------
(***************************************************************************)
(* Properties.                                                             *)
(***************************************************************************)
(* A receiver in svc() finds a registered handler and a live server, from  *)
(* the barrier that open() sets up before register_handler() until join()  *)
(* has returned, before delete.                                            *)
HandlerReady == \A t \in Receivers : Up /\ tpc[t] \in InService =>
                    handler = "registered" /\ server = "new"

(* join() frees the thread array and the barrier when nobody uses them,    *)
(* and its second call from ~task_base() finds nothing to do.              *)
JoinedOnce == /\ barrier = "destroyed" => \A t \in Receivers : tpc[t] = "done"
              /\ main = "rejoin" => ~m_thread

(* activate() lets every receiver into svc(): none is left at the barrier. *)
AllActivated == main = "activate" ~> \A t \in Receivers : tpc[t] \in InService \cup {"done"}

(* Once pause() has returned the process ends, unless a receiver never     *)
(* gets out of writen_timeout(): join() waits for it without a limit.      *)
StopsAfterPause ==
    (\A t \in Receivers : []<>(tpc[t] # "spin")) => (main = "stop" ~> main = "exited")
=============================================================================
