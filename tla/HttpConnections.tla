-------------------------- MODULE HttpConnections --------------------------
(***************************************************************************)
(* What Http_Server promises about its connections, with descriptors,      *)
(* epoll, locks and reference counts left out: at most Capacity are open,  *)
(* an open connection is worked on by one thread at a time, each round of  *)
(* work gives at most one answer to that connection, only the thread at    *)
(* work closes it, and a closed connection stays closed.                   *)
(***************************************************************************)
EXTENDS Naturals, FiniteSets

CONSTANTS Conns, Threads, NoThread, Capacity

VARIABLES
    st,       \* "new", "queued", "open", "closed"
    owner,    \* the thread at work on the connection, or NoThread
    duty,     \* "idle", "reading" (before the answer) or "done" (after it)
    answers   \* answers given

vars == <<st, owner, duty, answers>>

Init ==
    /\ st = [c \in Conns |-> "new"]
    /\ owner = [c \in Conns |-> NoThread]
    /\ duty = [c \in Conns |-> "idle"]
    /\ answers = [c \in Conns |-> 0]

Connect(c) ==
    /\ st[c] = "new"
    /\ st' = [st EXCEPT ![c] = "queued"]
    /\ UNCHANGED <<owner, duty, answers>>

Admit(c) ==
    /\ st[c] = "queued"
    /\ Cardinality({d \in Conns : st[d] = "open"}) < Capacity
    /\ st' = [st EXCEPT ![c] = "open"]
    /\ UNCHANGED <<owner, duty, answers>>

Refuse(c) ==
    /\ st[c] = "queued"
    /\ st' = [st EXCEPT ![c] = "closed"]
    /\ UNCHANGED <<owner, duty, answers>>

Begin(t, c) ==
    /\ st[c] = "open" /\ owner[c] = NoThread
    /\ \A d \in Conns : owner[d] # t
    /\ owner' = [owner EXCEPT ![c] = t]
    /\ duty' = [duty EXCEPT ![c] = "reading"]
    /\ UNCHANGED <<st, answers>>

Conclude(c) ==
    /\ duty[c] = "reading" /\ st[c] = "open"
    /\ duty' = [duty EXCEPT ![c] = "done"]
    /\ \/ answers' = [answers EXCEPT ![c] = @ + 1]
       \/ UNCHANGED answers
    /\ UNCHANGED <<st, owner>>

Close(c) ==
    /\ duty[c] = "done" /\ st[c] = "open"
    /\ st' = [st EXCEPT ![c] = "closed"]
    /\ UNCHANGED <<owner, duty, answers>>

End(c) ==
    /\ duty[c] = "done"
    /\ owner' = [owner EXCEPT ![c] = NoThread]
    /\ duty' = [duty EXCEPT ![c] = "idle"]
    /\ UNCHANGED <<st, answers>>

Shutdown ==
    /\ \A c \in Conns : duty[c] = "idle"
    /\ st' = [c \in Conns |-> IF st[c] = "new" THEN "new" ELSE "closed"]
    /\ UNCHANGED <<owner, duty, answers>>

Next == \/ Shutdown
        \/ \E c \in Conns : \/ Connect(c) \/ Admit(c) \/ Refuse(c)
                            \/ Conclude(c) \/ Close(c) \/ End(c)
                            \/ \E t \in Threads : Begin(t, c)

Spec == Init /\ [][Next]_vars
=============================================================================
