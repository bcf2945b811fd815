----------------------------- MODULE LinkedList -----------------------------
(***************************************************************************)
(* linked_list_t (src/http_server/linked_list.hpp): an intrusive circular  *)
(* doubly linked list.  A node carries its own next and prev; _head closes *)
(* the ring.  A caller may add a node only while it is in no list, and     *)
(* delete it only while it is in one: "linked" is that obligation.         *)
(***************************************************************************)
EXTENDS Integers, Sequences, FiniteSets

CONSTANTS Nodes, HeadNode,
          Null        \* NULL, and what a pointer of a node never added holds

ASSUME NodeAssumption == /\ IsFiniteSet(Nodes)
                         /\ HeadNode \notin Nodes /\ Null \notin Nodes
                         /\ HeadNode # Null

VARIABLES next, prev, linked

listVars == <<next, prev, linked>>

Places == Nodes \cup {HeadNode}

ListTypeOK == /\ next \in [Places -> Places \cup {Null}]
              /\ prev \in [Places -> Places \cup {Null}]
              /\ linked \subseteq Nodes

\* linked_list_t()
ListInit == /\ next = [n \in Places |-> IF n = HeadNode THEN HeadNode ELSE Null]
            /\ prev = next
            /\ linked = {}

is_empty == next[HeadNode] = HeadNode

\* entry(): the element of a ring position, NULL for _head.
entry(n) == IF n = HeadNode THEN Null ELSE n

\* Variant: the node that was first keeps its old prev.
add_Forgets(x) ==
    /\ prev' = [prev EXCEPT ![x] = HeadNode]
    /\ next' = [next EXCEPT ![x] = next[HeadNode], ![HeadNode] = x]

add(x) ==
    /\ prev' = [prev EXCEPT ![next[HeadNode]] = x, ![x] = HeadNode]
    /\ next' = [next EXCEPT ![x] = next[HeadNode], ![HeadNode] = x]

add_prev(x, cur) ==
    /\ next' = [next EXCEPT ![prev[cur]] = x, ![x] = cur]
    /\ prev' = [prev EXCEPT ![x] = prev[cur], ![cur] = x]

add_next(x, cur) ==
    /\ prev' = [prev EXCEPT ![next[cur]] = x, ![x] = cur]
    /\ next' = [next EXCEPT ![x] = next[cur], ![cur] = x]

\* Variant: the node behind x still points back to it.
del_Forgets(x) ==
    /\ prev' = prev
    /\ next' = [next EXCEPT ![prev[x]] = next[x]]

del(x) ==
    /\ prev' = [prev EXCEPT ![next[x]] = prev[x]]
    /\ next' = [next EXCEPT ![prev[x]] = next[x]]

\* empty() and operator=: only _head is reset.
empty ==
    /\ next' = [next EXCEPT ![HeadNode] = HeadNode]
    /\ prev' = [prev EXCEPT ![HeadNode] = HeadNode]

-----------------------------------------------------------------------------
Add(x) == /\ x \notin linked
          /\ add(x)
          /\ linked' = linked \cup {x}

AddPrev(x, cur) == /\ x \notin linked /\ cur \in linked
                   /\ add_prev(x, cur)
                   /\ linked' = linked \cup {x}

AddNext(x, cur) == /\ x \notin linked /\ cur \in linked
                   /\ add_next(x, cur)
                   /\ linked' = linked \cup {x}

Del(x) == /\ x \in linked
          /\ del(x)
          /\ linked' = linked \ {x}

Empty == empty /\ linked' = {}

ListNext == \/ Empty
            \/ \E x \in Nodes : Add(x) \/ Del(x)
            \/ \E x, cur \in Nodes : AddPrev(x, cur) \/ AddNext(x, cur)

ListSpec == ListInit /\ [][ListNext]_listVars

-----------------------------------------------------------------------------
(***************************************************************************)
(* Properties.                                                             *)
(***************************************************************************)
\* The ring positions reached from _head by following p, up to _head.
Walk(p) ==
    LET step[i \in 0..Cardinality(Places)] ==
            IF i = 0 THEN HeadNode ELSE p[step[i - 1]]
        back == {i \in 1..Cardinality(Places) : step[i] = HeadNode}
        len == IF back = {} THEN 0 ELSE (CHOOSE i \in back : \A j \in back : i <= j) - 1
    IN  [i \in 1..len |-> step[i]]

Order == Walk(next)

Ring == linked \cup {HeadNode}

(* next and prev are inverse to each other on the nodes that are in the    *)
(* list, and never lead out of it.                                         *)
RingInv == \A n \in Ring : /\ next[n] \in Ring /\ prev[n] \in Ring
                           /\ prev[next[n]] = n
                           /\ next[prev[n]] = n

\* f lists the n nodes of the ring from the first to the last, both ways round.
IsChain(f, n) ==
    /\ \A i, j \in 1..n : f[i] = f[j] => i = j
    /\ \A x \in Nodes : x \in linked <=> \E i \in 1..n : f[i] = x
    /\ next[HeadNode] = (IF n = 0 THEN HeadNode ELSE f[1])
    /\ prev[HeadNode] = (IF n = 0 THEN HeadNode ELSE f[n])
    /\ \A i \in 1..n :
          /\ next[f[i]] = (IF i = n THEN HeadNode ELSE f[i + 1])
          /\ prev[f[i]] = (IF i = 1 THEN HeadNode ELSE f[i - 1])

At(s, x) == CHOOSE i \in 1..Len(s) : s[i] = x
InsertAfter(s, i, x) == SubSeq(s, 1, i) \o <<x>> \o SubSeq(s, i + 1, Len(s))
Without(s, i) == SubSeq(s, 1, i - 1) \o SubSeq(s, i + 1, Len(s))

(* Seen as a sequence, add() puts a node first, add_prev() and add_next()  *)
(* put it beside cur, del() takes it out, and nothing else moves.          *)
SequenceEffects ==
    [][/\ \A x \in Nodes :
            /\ Add(x) => Order' = <<x>> \o Order
            /\ Del(x) => Order' = Without(Order, At(Order, x))
       /\ \A x, cur \in Nodes :
            /\ AddPrev(x, cur) => Order' = InsertAfter(Order, At(Order, cur) - 1, x)
            /\ AddNext(x, cur) => Order' = InsertAfter(Order, At(Order, cur), x)
       /\ Empty => Order' = <<>>]_listVars
=============================================================================
