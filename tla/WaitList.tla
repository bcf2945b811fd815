------------------------------ MODULE WaitList ------------------------------
(***************************************************************************)
(* wait_list_t (src/http_server/wait_list.hpp): a linked list with a mutex *)
(* and a condition variable.  What a call does between taking the mutex    *)
(* and dropping it, or sleeping on the condition, is one action.           *)
(***************************************************************************)
EXTENDS LinkedList

CONSTANT Threads

VARIABLES
    alive, num,           \* _alive, _num
    call,                 \* the kind of get() each thread is in, or "none"
    st,                   \* where it is: see States
    got                   \* what its last get() returned

ASSUME WaitAssumption == IsFiniteSet(Threads)

vars == <<listVars, alive, num, call, st, got>>

Calls == {"get", "timed", "newest"}

\* "idle": in no call; "lock": waits for the mutex at the start of the call;
\* "wait": asleep on _cond; "woken": left _cond, waits for the mutex;
\* "expired": pthread_cond_timedwait() timed out, waits for the mutex.
States == {"idle", "lock", "wait", "woken", "expired"}

TypeOK == /\ ListTypeOK
          /\ alive \in BOOLEAN /\ num \in Nat
          /\ call \in [Threads -> Calls \cup {"none"}]
          /\ st \in [Threads -> States]
          /\ got \in [Threads -> Nodes \cup {Null}]

Init == /\ ListInit
        /\ alive = TRUE /\ num = 0
        /\ call = [t \in Threads |-> "none"]
        /\ st = [t \in Threads |-> "idle"]
        /\ got = [t \in Threads |-> Null]

In(s) == {t \in Threads : st[t] = s}

\* pthread_cond_signal(): one sleeping thread, if there is one, is woken.
Signal == IF In("wait") = {} THEN UNCHANGED st
          ELSE \E t \in In("wait") : st' = [st EXCEPT ![t] = "woken"]

\* Variant: put() signals only when the list was empty.
put_SignalsFirst(x) ==
    /\ x \notin linked
    /\ IF alive
       THEN /\ add(x)
            /\ linked' = linked \cup {x}
            /\ num' = num + 1
       ELSE UNCHANGED <<listVars, num>>
    /\ IF is_empty THEN Signal ELSE UNCHANGED st
    /\ UNCHANGED <<alive, call, got>>

\* A caller owns the node it puts.  After flush() the node is not added.
put(x) ==
    /\ x \notin linked
    /\ IF alive
       THEN /\ add(x)
            /\ linked' = linked \cup {x}
            /\ num' = num + 1
       ELSE UNCHANGED <<listVars, num>>
    /\ Signal
    /\ UNCHANGED <<alive, call, got>>

\* get(), get(abstime) and get_from_head() ask for the mutex.
Invoke(t, k) ==
    /\ st[t] = "idle"
    /\ call' = [call EXCEPT ![t] = k]
    /\ st' = [st EXCEPT ![t] = "lock"]
    /\ UNCHANGED <<listVars, alive, num, got>>

Return(t, x) ==
    /\ call' = [call EXCEPT ![t] = "none"]
    /\ st' = [st EXCEPT ![t] = "idle"]
    /\ got' = [got EXCEPT ![t] = x]

\* The test of the while loop, with the mutex held.
Testing(t) == st[t] \in {"lock", "woken"}

Sleep(t) ==
    /\ Testing(t) /\ alive /\ is_empty
    /\ st' = [st EXCEPT ![t] = "wait"]
    /\ UNCHANGED <<listVars, alive, num, call, got>>

\* Variant: both kinds of get() take from the same end.
Chosen_Newest(t) == next[HeadNode]

\* get() takes _head.prev, the oldest node; get_from_head() _head.next.
Chosen(t) == IF call[t] = "newest" THEN next[HeadNode] ELSE prev[HeadNode]

\* Variant: _num is not counted down.
Take_NoCount(t) ==
    /\ Testing(t) /\ alive /\ ~is_empty
    /\ del(Chosen(t))
    /\ linked' = linked \ {Chosen(t)}
    /\ Return(t, entry(Chosen(t)))
    /\ UNCHANGED <<alive, num>>

Take(t) ==
    /\ Testing(t) /\ alive /\ ~is_empty
    /\ del(Chosen(t))
    /\ linked' = linked \ {Chosen(t)}
    /\ num' = num - 1
    /\ Return(t, entry(Chosen(t)))
    /\ UNCHANGED alive

Dead(t) ==
    /\ Testing(t) /\ ~alive
    /\ Return(t, Null)
    /\ UNCHANGED <<listVars, alive, num>>

\* pthread_cond_wait() may return without a signal.
Spurious(t) ==
    /\ st[t] = "wait"
    /\ st' = [st EXCEPT ![t] = "woken"]
    /\ UNCHANGED <<listVars, alive, num, call, got>>

Expire(t) ==
    /\ st[t] = "wait" /\ call[t] = "timed"
    /\ st' = [st EXCEPT ![t] = "expired"]
    /\ UNCHANGED <<listVars, alive, num, call, got>>

\* A timed get() that timed out does not look at the list again.
TimedOut(t) ==
    /\ st[t] = "expired"
    /\ Return(t, Null)
    /\ UNCHANGED <<listVars, alive, num>>

\* Variant: one thread is woken instead of all.
flush_Signals ==
    /\ alive' = FALSE
    /\ Signal
    /\ UNCHANGED <<listVars, num, call, got>>

\* The nodes that are still in the list stay there.
flush ==
    /\ alive' = FALSE
    /\ st' = [t \in Threads |-> IF st[t] = "wait" THEN "woken" ELSE st[t]]
    /\ UNCHANGED <<listVars, num, call, got>>

get(t) == Sleep(t) \/ Take(t) \/ Dead(t) \/ TimedOut(t)

Next == \/ flush
        \/ \E x \in Nodes : put(x)
        \/ \E t \in Threads : \/ get(t) \/ Spurious(t) \/ Expire(t)
                              \/ \E k \in Calls : Invoke(t, k)

Spec == Init /\ [][Next]_vars

\* A thread that waits for the mutex gets it: no section under it blocks.
FairSpec == Spec /\ \A t \in Threads : WF_vars(get(t))

-----------------------------------------------------------------------------
(***************************************************************************)
(* Properties.                                                             *)
(***************************************************************************)
(* No lost wakeup: while a thread sleeps, every node in the list has a     *)
(* thread that was woken and is on its way to take one.                    *)
NoLostWakeup == In("wait") # {} => num <= Cardinality(In("woken"))

(* After flush() nobody sleeps: put() and the loops of get() never send a  *)
(* thread back to the condition.                                           *)
FlushWakesAll == ~alive => In("wait") = {}

(* _num, which len() reads without the mutex, is the length of the list:   *)
(* the nodes that were put and not taken form one ring of that length.     *)
CountsList == \E f \in [1..num -> Nodes] : IsChain(f, num)

(* A get() returns once the list has been flushed.                         *)
FlushReleases == \A t \in Threads : []<>(alive \/ st[t] = "idle")

(* A get() does not sleep for ever beside a list that is never empty.      *)
NotLeftAsleep == \A t \in Threads : []<>(st[t] = "idle" \/ num = 0 \/ ~alive)

\* The list from the oldest node to the newest.
Queue == Walk(prev)

Abstract == INSTANCE WorkQueue WITH Items <- Nodes, items <- Queue, open <- alive

(* wait_list_t is the blocking queue of WorkQueue: the nodes come out in   *)
(* order, each once, and only a timeout or flush() makes get() return NULL.*)
ImplementsQueue == Abstract!Spec
=============================================================================
