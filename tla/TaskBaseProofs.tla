---------------------------- MODULE TaskBaseProofs ----------------------------
(***************************************************************************)
(* For any number of receivers: nobody is in svc() before the handler is   *)
(* registered or after the server is deleted, and join() collects them.    *)
(*                                                                         *)
(* The argument rests on the barrier: thread_num + 1 arrivals out of the   *)
(* receivers and main() include that of main(), and so come after          *)
(* register_handler().                                                     *)
(***************************************************************************)
EXTENDS TaskBase, FiniteSetTheorems, TLAPS

Early == {"open", "create", "register", "activate"}
Running == {"barrier", "started", "pause", "stop", "join"}
Late == {"delete", "rejoin", "delete_handler", "exited"}

\* What the places of main() say about the rest.
PlaceInv ==
    /\ Main \in arrived => main \notin Early
    /\ main \in Early \cup {"failed"} => \A t \in Receivers : tpc[t] \notin InService \cup {"done"}
    /\ main \in Running \cup Late => handler = "registered" \/ main = "exited"
    /\ main \in Late => (\A t \in Receivers : tpc[t] = "done") /\ ~m_thread
    /\ main \notin {"rejoin", "delete_handler", "exited"} => server = "new"
    /\ barrier = "destroyed" => main \in Late
    /\ main = "activate" => handler = "registered"

\* join() has collected the receivers before i.
JoinInv == main = "join" => \A t \in Receivers : t < i => tpc[t] = "done"

TaskInv == TypeOK /\ PlaceInv /\ JoinInv

\* A complete barrier includes main().
LEMMA CompleteHasMain == ASSUME TypeOK, Complete PROVE Main \in arrived
  <1> SUFFICES ASSUME Main \notin arrived PROVE FALSE
    OBVIOUS
  <1>1. arrived \subseteq Receivers
    BY DEF TypeOK
  <1>2. IsFiniteSet(Receivers) /\ Cardinality(Receivers) = ThreadNum
    BY FS_Interval, ThreadNumAssumption DEF Receivers
  <1>3. Cardinality(arrived) <= Cardinality(Receivers) /\ Cardinality(arrived) \in Nat
    BY <1>1, <1>2, FS_Subset, FS_CardinalityType
  <1>4. QED
    BY <1>2, <1>3, ThreadNumAssumption DEF Complete

LEMMA InitTask == Init => TaskInv
  <1> SUFFICES ASSUME Init PROVE TaskInv
    OBVIOUS
  <1>1. TypeOK
    <2>1. m_thread \in BOOLEAN /\ stop_task \in BOOLEAN
      BY Zenon DEF Init
    <2>2. main \in MainStates /\ i \in 1..(ThreadNum + 1) /\ arrived \subseteq Receivers \cup {Main}
      BY ThreadNumAssumption DEF Init, MainStates
    <2>3. /\ tpc \in [Receivers -> TaskStates] /\ server \in {"new", "deleted"}
          /\ handler \in {"new", "registered", "deleted"} /\ barrier \in {"none", "init", "destroyed"}
      BY DEF Init, TaskStates
    <2>4. QED
      BY <2>1, <2>2, <2>3 DEF TypeOK
  <1>2. PlaceInv /\ JoinInv
    BY DEF Init, PlaceInv, JoinInv, Early, Running, Late, InService
  <1>3. QED
    BY <1>1, <1>2 DEF TaskInv

LEMMA MainKept == ASSUME TaskInv, MainStep PROVE TaskInv'
  <1> USE ThreadNumAssumption DEF TaskInv, TypeOK, MainStates, TaskStates, Receivers
  <1> USE DEF PlaceInv, JoinInv, Early, Running, Late, InService
  <1>1. CASE Open
    BY <1>1 DEF Open
  <1>2. CASE Create
    BY <1>2 DEF Create
  <1>3. CASE Created \/ register_handler \/ pause
    BY <1>3 DEF Created, register_handler, pause
  <1>4. CASE activate
    BY <1>4 DEF activate
  <1>5. CASE Activated
    BY <1>5 DEF Activated
  <1>6. CASE stop
    BY <1>6 DEF stop
  <1>7. CASE Joined
    <2>1. i \in 1..ThreadNum /\ i' = i + 1 /\ tpc[i] = "done" /\ tpc' = tpc /\ main' = main
      BY <1>7 DEF Joined
    <2>2. \A t \in 1..ThreadNum : t < i' => tpc'[t] = "done"
      BY <1>7, <2>1 DEF Joined
    <2>3. TypeOK'
      BY <1>7, <2>1 DEF Joined
    <2>4. PlaceInv'
      BY <1>7 DEF Joined
    <2>5. QED
      BY <2>2, <2>3, <2>4
  <1>8. CASE JoinEnds
    <2>1. \A t \in 1..ThreadNum : tpc[t] = "done"
      BY <1>8 DEF JoinEnds
    <2>2. QED
      BY <1>8, <2>1 DEF JoinEnds
  <1>9. CASE DeleteServer \/ Rejoin \/ DeleteHandler
    <2>1. CASE DeleteServer
      BY <2>1 DEF DeleteServer
    <2>2. CASE Rejoin
      BY <2>2 DEF Rejoin
    <2>3. CASE DeleteHandler
      BY <2>3 DEF DeleteHandler
    <2>4. QED
      BY <1>9, <2>1, <2>2, <2>3
  <1>10. QED
    BY <1>1, <1>2, <1>3, <1>4, <1>5, <1>6, <1>7, <1>8, <1>9 DEF MainStep

LEMMA ReceiverKept ==
    ASSUME TaskInv, NEW t \in Receivers, Receiver(t) \/ writen_timeout(t) \/ SpinEnds(t)
    PROVE  TaskInv'
  <1> USE DEF Up, TaskInv, TypeOK, TaskStates, InService
  <1>1. CASE run_svc(t)
    <2>1. Main \in arrived' <=> Main \in arrived
      BY <1>1, ThreadNumAssumption DEF run_svc, Receivers, Main
    <2>2. QED
      BY <1>1, <2>1 DEF run_svc, PlaceInv, JoinInv, Early, Running, Late
  <1>2. CASE Released(t)
    <2>1. Main \in arrived
      BY <1>2, CompleteHasMain DEF TaskInv, Released
    <2>2. QED
      BY <1>2, <2>1 DEF Released, PlaceInv, JoinInv, Early, Running, Late
  <1>3. CASE svc(t)
    BY <1>3 DEF svc, PlaceInv, JoinInv, Early, Running, Late
  <1>4. CASE writen_timeout(t)
    BY <1>4 DEF writen_timeout, PlaceInv, JoinInv, Early, Running, Late
  <1>5. CASE SpinEnds(t)
    BY <1>5 DEF SpinEnds, PlaceInv, JoinInv, Early, Running, Late
  <1>6. QED
    BY <1>1, <1>2, <1>3, <1>4, <1>5 DEF Receiver

(* The inductive invariant holds in every reachable state.                 *)
THEOREM TaskInvariant == Spec => []TaskInv
  <1>1. TaskInv /\ [Next]_vars => TaskInv'
    <2> SUFFICES ASSUME TaskInv, [Next]_vars PROVE TaskInv'
      OBVIOUS
    <2>1. CASE Signal
      BY <2>1 DEF Signal, Up, TaskInv, TypeOK, MainStates, PlaceInv, JoinInv, Early, Running, Late
    <2>2. CASE UNCHANGED vars
      BY <2>2 DEF vars, TaskInv, TypeOK, PlaceInv, JoinInv
    <2>3. QED
      BY <2>1, <2>2, MainKept, ReceiverKept DEF Next, Exited
  <1>2. QED
    BY InitTask, <1>1, PTL DEF Spec

(* Type correctness of the thread pool and of main().                      *)
THEOREM TaskTypeCorrect == Spec => []TypeOK
  <1>1. TaskInv => TypeOK
    BY DEF TaskInv
  <1>2. QED
    BY TaskInvariant, <1>1, PTL

(* A receiver in svc() has a registered handler and a live server.         *)
THEOREM ReadyInService == Spec => []HandlerReady
  <1>1. TaskInv => HandlerReady
    <2> SUFFICES ASSUME TaskInv, NEW t \in Receivers, Up, tpc[t] \in InService
                 PROVE  handler = "registered" /\ server = "new"
      BY DEF HandlerReady
    <2>1. main \in Running
      BY DEF TaskInv, TypeOK, MainStates, PlaceInv, Early, Running, Late, Up, InService
    <2>2. QED
      BY <2>1 DEF TaskInv, PlaceInv, Running
  <1>2. QED
    BY TaskInvariant, <1>1, PTL

(* join() frees what nobody uses, and the second join() does nothing.      *)
THEOREM CollectedOnce == Spec => []JoinedOnce
  <1>1. TaskInv => JoinedOnce
    BY DEF TaskInv, PlaceInv, JoinedOnce, Late
  <1>2. QED
    BY TaskInvariant, <1>1, PTL
=============================================================================
