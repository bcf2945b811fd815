--------------------------- MODULE WaitListProofs ---------------------------
(***************************************************************************)
(* Proofs about LinkedList and WaitList, for any number of callers and     *)
(* nodes.                                                                  *)
(***************************************************************************)
EXTENDS WaitList, FiniteSetTheorems, SequenceTheorems, TLAPS

(* add() keeps the ring closed: it only redirects the link between _head   *)
(* and the first node.                                                     *)
LEMMA AddKeeps == ASSUME ListTypeOK, RingInv, NEW x \in Nodes, Add(x)
                  PROVE  ListTypeOK' /\ RingInv'
<1>1. ListTypeOK'
    BY NodeAssumption DEF ListTypeOK, Add, add, Places, RingInv, Ring
<1>2. RingInv'
    BY NodeAssumption DEF ListTypeOK, Add, add, Places, RingInv, Ring
<1> QED BY <1>1, <1>2

(* add_prev() redirects the link between cur and the node before it.       *)
LEMMA AddPrevKeeps ==
    ASSUME ListTypeOK, RingInv, NEW x \in Nodes, NEW cur \in Nodes, AddPrev(x, cur)
    PROVE  ListTypeOK' /\ RingInv'
<1>1. ListTypeOK'
    BY NodeAssumption DEF ListTypeOK, AddPrev, add_prev, Places, RingInv, Ring
<1>2. RingInv'
    BY NodeAssumption DEF ListTypeOK, AddPrev, add_prev, Places, RingInv, Ring
<1> QED BY <1>1, <1>2

(* add_next() redirects the link between cur and the node after it.        *)
LEMMA AddNextKeeps ==
    ASSUME ListTypeOK, RingInv, NEW x \in Nodes, NEW cur \in Nodes, AddNext(x, cur)
    PROVE  ListTypeOK' /\ RingInv'
<1>1. ListTypeOK'
    BY NodeAssumption DEF ListTypeOK, AddNext, add_next, Places, RingInv, Ring
<1>2. RingInv'
    BY NodeAssumption DEF ListTypeOK, AddNext, add_next, Places, RingInv, Ring
<1> QED BY <1>1, <1>2

(* del() joins the neighbours of the node; the node keeps stale pointers.  *)
LEMMA DelKeeps == ASSUME ListTypeOK, RingInv, NEW x \in Nodes, Del(x)
                  PROVE  ListTypeOK' /\ RingInv'
<1>1. ListTypeOK'
    BY NodeAssumption DEF ListTypeOK, Del, del, Places, RingInv, Ring
<1>2. RingInv'
    BY NodeAssumption DEF ListTypeOK, Del, del, Places, RingInv, Ring
<1> QED BY <1>1, <1>2

(* empty() closes the ring over _head alone.                               *)
LEMMA EmptyKeeps == ASSUME ListTypeOK, RingInv, Empty PROVE ListTypeOK' /\ RingInv'
    BY NodeAssumption DEF ListTypeOK, Empty, empty, Places, RingInv, Ring

(* Whatever sequence of operations the callers of linked_list_t choose,    *)
(* the links of the nodes in the list are inverse to each other and do not *)
(* lead to a node that is not in it.                                       *)
THEOREM RingKept == ListSpec => [](ListTypeOK /\ RingInv)
<1>1. ListInit => ListTypeOK /\ RingInv
    BY NodeAssumption DEF ListInit, ListTypeOK, RingInv, Ring, Places
<1>2. ListTypeOK /\ RingInv /\ [ListNext]_listVars => (ListTypeOK /\ RingInv)'
    <2> SUFFICES ASSUME ListTypeOK, RingInv, [ListNext]_listVars PROVE (ListTypeOK /\ RingInv)'
        OBVIOUS
    <2>1. CASE ListNext
        BY <2>1, AddKeeps, AddPrevKeeps, AddNextKeeps, DelKeeps, EmptyKeeps
           DEF ListNext
    <2>2. CASE UNCHANGED listVars
        BY <2>2 DEF listVars, ListTypeOK, RingInv, Ring
    <2> QED BY <2>1, <2>2
<1> QED BY <1>1, <1>2, PTL DEF ListSpec

-----------------------------------------------------------------------------
(* A set of numbers has a least one.                                       *)
LEMMA LeastNumber ==
    ASSUME NEW T, T \subseteq Nat, T # {} PROVE \E m \in T : \A k \in T : m <= k
<1>1. PICK m \in T : \A k \in T : ~ (<<k, m>> \in OpToRel(<, Nat))
    BY NatLessThanWellFounded, WFMin
<1>2. \A k \in T : k < m => <<k, m>> \in OpToRel(<, Nat)
    BY DEF OpToRel
<1>3. \A k \in T : ~ (k < m)
    BY <1>1, <1>2, Zenon
<1> QED BY <1>3

(* A recursive definition of a function on 0..c names one.                 *)
LEMMA WalkExists ==
    ASSUME NEW p, NEW h, NEW c \in Nat
    PROVE  \E g : g = [i \in 0..c |-> IF i = 0 THEN h ELSE p[g[i - 1]]]
<1> DEFINE Bad == {b \in Nat : ~ \E g : g = [i \in 0..b |-> IF i = 0 THEN h ELSE p[g[i - 1]]]}
<1> SUFFICES ASSUME c \in Bad PROVE FALSE
    OBVIOUS
<1>1. PICK m \in Bad : \A k \in Bad : m <= k
    BY LeastNumber
<1>2. m # 0
    <2> SUFFICES ASSUME m = 0 PROVE FALSE
        OBVIOUS
    <2>1. [i \in 0..0 |-> h] = [i \in 0..0 |-> IF i = 0 THEN h ELSE p[[k \in 0..0 |-> h][i - 1]]]
        OBVIOUS
    <2> QED BY <2>1
<1>3. m - 1 \in Nat /\ m \in Nat /\ ~(m - 1 \in Bad)
    <2>1. m \in Nat
        OBVIOUS
    <2> HIDE DEF Bad
    <2>2. m - 1 \in Bad => m <= m - 1
        BY <1>1
    <2> QED BY <2>1, <2>2, <1>2
<1>4. PICK g : g = [i \in 0..(m - 1) |-> IF i = 0 THEN h ELSE p[g[i - 1]]]
    BY <1>3
<1> DEFINE e == [i \in 0..m |-> IF i = m THEN p[g[m - 1]] ELSE g[i]]
<1>5. ASSUME NEW i \in 0..m
      PROVE  e[i] = IF i = 0 THEN h ELSE p[e[i - 1]]
    <2>1. CASE i = m
        BY <2>1, <1>2, <1>3
    <2>2. CASE i # m
        <3>1. i \in 0..(m - 1)
            BY <2>2, <1>3
        <3>2. g[i] = IF i = 0 THEN h ELSE p[g[i - 1]]
            BY <3>1, <1>4
        <3> QED BY <3>1, <3>2, <1>3
    <2> QED BY <2>1, <2>2
<1>6. e = [i \in 0..m |-> IF i = 0 THEN h ELSE p[e[i - 1]]]
    BY <1>5
<1> QED BY <1>1, <1>3, <1>6

(* A chain has at most as many links as there are nodes.                   *)
LEMMA ChainShort ==
    ASSUME NEW n \in Nat, NEW f \in [1..n -> Nodes],
           \A i, j \in 1..n : f[i] = f[j] => i = j
    PROVE  Cardinality(Places) \in Nat /\ n < Cardinality(Places)
<1>1. f \in Injection(1..n, Nodes)
    BY DEF Injection, IsInjective
<1>2. Cardinality(1..n) = n
    BY FS_Interval
<1>3. n <= Cardinality(Nodes) /\ Cardinality(Nodes) \in Nat
    BY <1>1, <1>2, FS_Injection, FS_CardinalityType, NodeAssumption
<1>4. Cardinality(Places) = Cardinality(Nodes) + 1
    BY FS_AddElement, NodeAssumption DEF Places
<1> QED BY <1>3, <1>4

(* Walk() finds the chain of nodes that p closes over _head.               *)
LEMMA WalkIs ==
    ASSUME NEW p, NEW n \in Nat, NEW f \in [1..n -> Nodes],
           \A i, j \in 1..n : f[i] = f[j] => i = j,
           p[HeadNode] = (IF n = 0 THEN HeadNode ELSE f[1]),
           \A i \in 1..n : p[f[i]] = (IF i = n THEN HeadNode ELSE f[i + 1])
    PROVE  Walk(p) = f
<1> DEFINE c == Cardinality(Places)
           step[i \in 0..Cardinality(Places)] == IF i = 0 THEN HeadNode ELSE p[step[i - 1]]
           back == {i \in 1..Cardinality(Places) : step[i] = HeadNode}
           len == IF back = {} THEN 0 ELSE (CHOOSE i \in back : \A j \in back : i <= j) - 1
<1>1. c \in Nat /\ n < c
    BY ChainShort
<1>2. Walk(p) = [i \in 1..len |-> step[i]]
    BY DEF Walk
<1>3. step = [i \in 0..c |-> IF i = 0 THEN HeadNode ELSE p[step[i - 1]]]
    BY <1>1, WalkExists
<1> HIDE DEF step, c
<1>4. \A i \in 1..n : step[i] = f[i]
    <2> DEFINE Bad == {b \in 1..n : step[b] # f[b]}
    <2> SUFFICES ASSUME Bad # {} PROVE FALSE
        OBVIOUS
    <2>1. Bad \subseteq Nat
        OBVIOUS
    <2>2. PICK m \in Bad : \A k \in Bad : m <= k
        BY <2>1, LeastNumber
    <2>3. m \in 1..n /\ step[m] # f[m]
        OBVIOUS
    <2>4. m - 1 \notin Bad
        <3> HIDE DEF Bad
        <3> QED BY <2>2, <2>3
    <2>5. m \in 0..c /\ m - 1 \in 0..c /\ m # 0
        BY <2>3, <1>1
    <2>6. step[m] = p[step[m - 1]]
        BY <2>5, <1>3
    <2>7. CASE m = 1
        <3>1. step[0] = HeadNode
            BY <1>1, <1>3
        <3> QED BY <3>1, <2>3, <2>6, <2>7
    <2>8. CASE m # 1
        <3>1. m - 1 \in 1..n /\ m - 1 # n /\ m - 1 + 1 = m
            BY <2>3, <2>8
        <3>2. step[m - 1] = f[m - 1]
            BY <3>1, <2>4
        <3> QED BY <3>1, <3>2, <2>3, <2>6
    <2> QED BY <2>7, <2>8
<1>5. step[n + 1] = HeadNode
    <2>1. n + 1 \in 0..c /\ n \in 0..c /\ n + 1 # 0
        BY <1>1
    <2>2. step[n + 1] = p[step[n]]
        <3>1. step[n + 1] = p[step[n + 1 - 1]]
            BY <2>1, <1>3
        <3> QED BY <3>1
    <2>3. CASE n = 0
        <3>1. step[0] = HeadNode
            BY <1>1, <1>3
        <3> QED BY <3>1, <2>2, <2>3
    <2>4. CASE n # 0
        <3>1. n \in 1..n
            BY <2>4
        <3> QED BY <3>1, <2>2, <1>4
    <2> QED BY <2>3, <2>4
<1>6. n + 1 \in back /\ \A j \in back : n + 1 <= j
    <2>1. n + 1 \in back
        BY <1>1, <1>5 DEF c
    <2>2. ASSUME NEW j \in back PROVE n + 1 <= j
        <3>1. CASE j \in 1..n
            BY <3>1, <1>4, NodeAssumption
        <3>2. j \in Nat /\ j >= 1
            BY <1>1 DEF c
        <3> QED BY <3>1, <3>2
    <2> QED BY <2>1, <2>2
<1>7. len = n
    <2>1. back \subseteq Nat
        BY <1>1 DEF c
    <2> DEFINE i0 == CHOOSE i \in back : \A j \in back : i <= j
    <2> HIDE DEF back
    <2>2. i0 \in back /\ \A j \in back : i0 <= j
        BY <1>6
    <2>3. i0 = n + 1
        <3> HIDE DEF i0
        <3>1. i0 \in Nat
            BY <2>1, <2>2
        <3>2. i0 <= n + 1 /\ n + 1 <= i0
            BY <1>6, <2>2
        <3> QED BY <3>1, <3>2
    <2>4. len = i0 - 1
        BY <1>6, Zenon
    <2> HIDE DEF i0, len
    <2> QED BY <2>3, <2>4
<1> HIDE DEF len
<1>8. Walk(p) = [i \in 1..n |-> f[i]]
    BY <1>2, <1>4, <1>7
<1> QED BY <1>8

-----------------------------------------------------------------------------
\* The chain f of n nodes with x after the k-th, and without its k-th node.
Inserted(f, n, k, x) ==
    [i \in 1..(n + 1) |-> IF i <= k THEN f[i] ELSE IF i = k + 1 THEN x ELSE f[i - 1]]
Removed(f, n, k) == [i \in 1..(n - 1) |-> IF i < k THEN f[i] ELSE f[i + 1]]

\* The nodes around the k-th gap of a chain: before it and after it.
Before(f, k) == IF k = 0 THEN HeadNode ELSE f[k]
After(f, n, k) == IF k = n THEN HeadNode ELSE f[k + 1]

(* To link x between two neighbours of the ring is to insert it into the   *)
(* chain at their place.                                                   *)
LEMMA InsertAt ==
    ASSUME NEW n \in Nat, NEW f \in [1..n -> Nodes], IsChain(f, n),
           NEW x \in Nodes, x \notin linked, NEW k \in 0..n,
           next' = [y \in Places |-> IF y = x THEN After(f, n, k)
                                     ELSE IF y = Before(f, k) THEN x ELSE next[y]],
           prev' = [y \in Places |-> IF y = x THEN Before(f, k)
                                     ELSE IF y = After(f, n, k) THEN x ELSE prev[y]],
           linked' = linked \cup {x}
    PROVE  /\ Inserted(f, n, k, x) \in [1..(n + 1) -> Nodes]
           /\ IsChain(Inserted(f, n, k, x), n + 1)'
<1> DEFINE g == Inserted(f, n, k, x)
<1>0. /\ \A i, j \in 1..n : f[i] = f[j] => i = j
      /\ \A y \in Nodes : y \in linked <=> \E i \in 1..n : f[i] = y
      /\ next[HeadNode] = (IF n = 0 THEN HeadNode ELSE f[1])
      /\ prev[HeadNode] = (IF n = 0 THEN HeadNode ELSE f[n])
      /\ \A i \in 1..n :
            /\ next[f[i]] = (IF i = n THEN HeadNode ELSE f[i + 1])
            /\ prev[f[i]] = (IF i = 1 THEN HeadNode ELSE f[i - 1])
    BY DEF IsChain
<1>1. /\ g \in [1..(n + 1) -> Nodes]
      /\ \A i \in 1..(n + 1) : g[i] = IF i <= k THEN f[i] ELSE IF i = k + 1 THEN x ELSE f[i - 1]
    <2>1. \A i \in 1..(n + 1) : /\ i <= k => i \in 1..n
                                /\ ~(i <= k) /\ i # k + 1 => i - 1 \in 1..n
        OBVIOUS
    <2> QED BY <2>1 DEF Inserted
<1> HIDE DEF g
<1>2. \A i \in 1..n : f[i] \in Nodes /\ f[i] # x /\ f[i] # HeadNode /\ f[i] \in Places
    BY <1>0, NodeAssumption DEF Places
<1>3. x # HeadNode /\ x \in Places /\ HeadNode \in Places
    BY NodeAssumption DEF Places
<1>4. \A i, j \in 1..(n + 1) : g[i] = g[j] => i = j
    <2> SUFFICES ASSUME NEW i \in 1..(n + 1), NEW j \in 1..(n + 1), g[i] = g[j] PROVE i = j
        OBVIOUS
    <2>1. /\ i <= k => i \in 1..n /\ g[i] = f[i]
          /\ i > k + 1 => i - 1 \in 1..n /\ g[i] = f[i - 1]
          /\ i = k + 1 => g[i] = x
        BY <1>1
    <2>2. /\ j <= k => j \in 1..n /\ g[j] = f[j]
          /\ j > k + 1 => j - 1 \in 1..n /\ g[j] = f[j - 1]
          /\ j = k + 1 => g[j] = x
        BY <1>1
    <2>3. CASE i = k + 1 \/ j = k + 1
        BY <2>1, <2>2, <2>3, <1>2
    <2>4. CASE i # k + 1 /\ j # k + 1
        <3> DEFINE u == IF i <= k THEN i ELSE i - 1
                   v == IF j <= k THEN j ELSE j - 1
        <3>1. u \in 1..n /\ v \in 1..n /\ f[u] = f[v]
            BY <2>1, <2>2, <2>4
        <3>2. u = v
            <4> HIDE DEF u, v
            <4> QED BY <3>1, <1>0
        <3> QED BY <3>2, <2>4
    <2> QED BY <2>3, <2>4
<1>5. \A y \in Nodes : y \in linked' <=> \E i \in 1..(n + 1) : g[i] = y
    <2> SUFFICES ASSUME NEW y \in Nodes PROVE y \in linked' <=> \E i \in 1..(n + 1) : g[i] = y
        OBVIOUS
    <2>1. k + 1 \in 1..(n + 1) /\ g[k + 1] = x
        BY <1>1
    <2>2. ASSUME NEW i \in 1..n PROVE \E j \in 1..(n + 1) : g[j] = f[i]
        <3>1. CASE i <= k
            BY <3>1, <1>1
        <3>2. CASE ~(i <= k)
            <4>1. i + 1 \in 1..(n + 1) /\ g[i + 1] = f[i]
                BY <3>2, <1>1
            <4> QED BY <4>1
        <3> QED BY <3>1, <3>2
    <2>3. ASSUME NEW i \in 1..(n + 1) PROVE g[i] = x \/ \E j \in 1..n : g[i] = f[j]
        <3>1. CASE i <= k
            BY <3>1, <1>1
        <3>2. CASE i > k + 1
            <4>1. i - 1 \in 1..n /\ g[i] = f[i - 1]
                BY <3>2, <1>1
            <4> QED BY <4>1
        <3>3. CASE i = k + 1
            BY <3>3, <2>1
        <3> QED BY <3>1, <3>2, <3>3
    <2>4. y \in linked' <=> y = x \/ \E i \in 1..n : f[i] = y
        BY <1>0
    <2> QED BY <2>1, <2>2, <2>3, <2>4
<1>6. /\ next'[HeadNode] = g[1] /\ prev'[HeadNode] = g[n + 1]
    <2>1. next'[HeadNode] = IF k = 0 THEN x ELSE next[HeadNode]
        BY <1>2, <1>3 DEF Before
    <2>2. prev'[HeadNode] = IF k = n THEN x ELSE prev[HeadNode]
        <3>1. k # n => f[k + 1] # HeadNode
            BY <1>2
        <3> QED BY <3>1, <1>3 DEF After
    <2>3. g[1] = IF k = 0 THEN x ELSE f[1]
        BY <1>1
    <2>4. g[n + 1] = IF k = n THEN x ELSE f[n]
        BY <1>1
    <2> QED BY <2>1, <2>2, <2>3, <2>4, <1>0
<1>7. ASSUME NEW i \in 1..(n + 1)
      PROVE  next'[g[i]] = (IF i = n + 1 THEN HeadNode ELSE g[i + 1])
    <2>1. CASE i = k + 1
        <3>1. next'[g[i]] = After(f, n, k)
            BY <2>1, <1>1, <1>3
        <3>2. i # n + 1 => g[i + 1] = f[k + 1]
            BY <2>1, <1>1
        <3> QED BY <2>1, <3>1, <3>2 DEF After
    <2>2. CASE i <= k
        <3>1. i \in 1..n /\ g[i] = f[i] /\ i # n + 1 /\ k # 0 /\ k \in 1..n
            BY <2>2, <1>1
        <3>2. next'[g[i]] = IF i = k THEN x ELSE f[i + 1]
            BY <3>1, <2>2, <1>0, <1>2 DEF Before
        <3>3. g[i + 1] = IF i = k THEN x ELSE f[i + 1]
            BY <2>2, <3>1, <1>1
        <3> QED BY <3>1, <3>2, <3>3
    <2>3. CASE i > k + 1
        <3>1. i - 1 \in 1..n /\ g[i] = f[i - 1]
            BY <2>3, <1>1
        <3>2. f[i - 1] # Before(f, k)
            <4>1. k # 0 => k \in 1..n /\ i - 1 # k
                BY <2>3
            <4> QED BY <3>1, <4>1, <1>0, <1>2 DEF Before
        <3>3. next'[g[i]] = IF i - 1 = n THEN HeadNode ELSE f[i]
            <4>1. next[f[i - 1]] = IF i - 1 = n THEN HeadNode ELSE f[i - 1 + 1]
                BY <3>1, <1>0
            <4> QED BY <4>1, <3>1, <3>2, <1>2
        <3>4. i # n + 1 => g[i + 1] = f[i]
            <4>1. i # n + 1 => i + 1 \in 1..(n + 1) /\ ~(i + 1 <= k) /\ i + 1 # k + 1 /\ i + 1 - 1 = i
                BY <2>3
            <4> QED BY <4>1, <1>1
        <3> QED BY <3>3, <3>4
    <2> QED BY <2>1, <2>2, <2>3
<1>8. ASSUME NEW i \in 1..(n + 1)
      PROVE  prev'[g[i]] = (IF i = 1 THEN HeadNode ELSE g[i - 1])
    <2>1. CASE i = k + 1
        <3>1. prev'[g[i]] = Before(f, k)
            BY <2>1, <1>1, <1>3
        <3>2. i # 1 => g[i - 1] = f[k]
            BY <2>1, <1>1
        <3> QED BY <2>1, <3>1, <3>2 DEF Before
    <2>2. CASE i <= k
        <3>1. i \in 1..n /\ g[i] = f[i]
            BY <2>2, <1>1
        <3>2. f[i] # After(f, n, k)
            <4>1. k # n => k + 1 \in 1..n /\ i # k + 1
                BY <2>2
            <4> QED BY <3>1, <4>1, <1>0, <1>2 DEF After
        <3>3. prev'[g[i]] = IF i = 1 THEN HeadNode ELSE f[i - 1]
            BY <3>1, <3>2, <1>0, <1>2
        <3>4. i # 1 => g[i - 1] = f[i - 1]
            BY <2>2, <3>1, <1>1
        <3> QED BY <3>3, <3>4
    <2>3. CASE i > k + 1
        <3>1. i - 1 \in 1..n /\ g[i] = f[i - 1] /\ i # 1 /\ k # n
            BY <2>3, <1>1
        <3>2. prev'[g[i]] = IF i = k + 2 THEN x ELSE prev[f[i - 1]]
            <4>1. k + 1 \in 1..n /\ (i - 1 = k + 1 <=> i = k + 2)
                BY <3>1
            <4> QED BY <3>1, <4>1, <1>0, <1>2 DEF After
        <3>3. i # k + 2 => prev[f[i - 1]] = f[i - 2]
            <4>1. i # k + 2 => i - 1 # 1 /\ i - 1 - 1 = i - 2
                BY <2>3
            <4> QED BY <4>1, <3>1, <1>0
        <3>4. g[i - 1] = IF i = k + 2 THEN x ELSE f[i - 2]
            <4>1. i - 1 \in 1..(n + 1) /\ ~(i - 1 <= k) /\ (i - 1 = k + 1 <=> i = k + 2) /\ i - 1 - 1 = i - 2
                BY <2>3
            <4> QED BY <4>1, <1>1
        <3> QED BY <3>1, <3>2, <3>3, <3>4
    <2> QED BY <2>1, <2>2, <2>3
<1>9. IsChain(g, n + 1)'
    <2>1. n + 1 # 0
        OBVIOUS
    <2> QED BY <2>1, <1>4, <1>5, <1>6, <1>7, <1>8 DEF IsChain
<1> QED BY <1>1, <1>9 DEF g

(* del() takes a node out of the chain.                                    *)
LEMMA RemoveAt ==
    ASSUME ListTypeOK, NEW n \in Nat, NEW f \in [1..n -> Nodes], IsChain(f, n),
           NEW k \in 1..n, del(f[k]), linked' = linked \ {f[k]}
    PROVE  /\ Removed(f, n, k) \in [1..(n - 1) -> Nodes]
           /\ IsChain(Removed(f, n, k), n - 1)'
<1> DEFINE g == Removed(f, n, k)
<1>0. /\ \A i, j \in 1..n : f[i] = f[j] => i = j
      /\ \A y \in Nodes : y \in linked <=> \E i \in 1..n : f[i] = y
      /\ next[HeadNode] = f[1] /\ prev[HeadNode] = f[n]
      /\ \A i \in 1..n :
            /\ next[f[i]] = (IF i = n THEN HeadNode ELSE f[i + 1])
            /\ prev[f[i]] = (IF i = 1 THEN HeadNode ELSE f[i - 1])
    BY DEF IsChain
<1>1. /\ g \in [1..(n - 1) -> Nodes]
      /\ \A i \in 1..(n - 1) : g[i] = IF i < k THEN f[i] ELSE f[i + 1]
    BY DEF Removed
<1> HIDE DEF g
<1>2. \A i \in 1..n : f[i] \in Nodes /\ f[i] # HeadNode /\ f[i] \in Places
    BY <1>0, NodeAssumption DEF Places
<1>3. HeadNode \in Places
    BY DEF Places
<1> DEFINE a == IF k = 1 THEN HeadNode ELSE f[k - 1]
           b == IF k = n THEN HeadNode ELSE f[k + 1]
<1>4. /\ a \in Places /\ b \in Places
      /\ \A y \in Places : next'[y] = IF y = a THEN b ELSE next[y]
      /\ \A y \in Places : prev'[y] = IF y = b THEN a ELSE prev[y]
    <2>1. next[f[k]] = b /\ prev[f[k]] = a
        BY <1>0
    <2>2. a \in Places /\ b \in Places
        <3>1. (k # 1 => k - 1 \in 1..n) /\ (k # n => k + 1 \in 1..n)
            OBVIOUS
        <3> QED BY <3>1, <1>2, <1>3
    <2> HIDE DEF a, b
    <2> QED BY <2>1, <2>2 DEF del, ListTypeOK
<1>5. \A i, j \in 1..(n - 1) : g[i] = g[j] => i = j
    <2> SUFFICES ASSUME NEW i \in 1..(n - 1), NEW j \in 1..(n - 1), g[i] = g[j] PROVE i = j
        OBVIOUS
    <2> DEFINE u == IF i < k THEN i ELSE i + 1
               v == IF j < k THEN j ELSE j + 1
    <2>1. u \in 1..n /\ v \in 1..n /\ f[u] = f[v]
        BY <1>1
    <2>2. u = v
        <3> HIDE DEF u, v
        <3> QED BY <2>1, <1>0
    <2> QED BY <2>2
<1>6. \A y \in Nodes : y \in linked' <=> \E i \in 1..(n - 1) : g[i] = y
    <2> SUFFICES ASSUME NEW y \in Nodes PROVE y \in linked' <=> \E i \in 1..(n - 1) : g[i] = y
        OBVIOUS
    <2>1. ASSUME NEW i \in 1..n, i # k PROVE \E j \in 1..(n - 1) : g[j] = f[i]
        <3>1. CASE i < k
            <4>1. i \in 1..(n - 1) /\ g[i] = f[i]
                BY <3>1, <1>1
            <4> QED BY <4>1
        <3>2. CASE i > k
            <4>1. i - 1 \in 1..(n - 1) /\ g[i - 1] = f[i]
                BY <3>2, <1>1
            <4> QED BY <4>1
        <3> QED BY <2>1, <3>1, <3>2
    <2>2. ASSUME NEW i \in 1..(n - 1) PROVE \E j \in 1..n : j # k /\ g[i] = f[j]
        <3>1. CASE i < k
            <4>1. i \in 1..n /\ i # k /\ g[i] = f[i]
                BY <3>1, <1>1
            <4> QED BY <4>1
        <3>2. CASE ~(i < k)
            <4>1. i + 1 \in 1..n /\ i + 1 # k /\ g[i] = f[i + 1]
                BY <3>2, <1>1
            <4> QED BY <4>1
        <3> QED BY <3>1, <3>2
    <2>3. y \in linked' <=> \E j \in 1..n : j # k /\ f[j] = y
        BY <1>0
    <2> QED BY <2>1, <2>2, <2>3
<1>7. /\ next'[HeadNode] = (IF n - 1 = 0 THEN HeadNode ELSE g[1])
      /\ prev'[HeadNode] = (IF n - 1 = 0 THEN HeadNode ELSE g[n - 1])
    <2>1. next'[HeadNode] = IF k = 1 THEN b ELSE f[1]
        <3>1. k # 1 => a # HeadNode
            BY <1>2
        <3> QED BY <3>1, <1>0, <1>3, <1>4
    <2>2. prev'[HeadNode] = IF k = n THEN a ELSE f[n]
        <3>1. k # n => b # HeadNode
            BY <1>2
        <3> QED BY <3>1, <1>0, <1>3, <1>4
    <2>3. n # 1 => /\ g[1] = IF k = 1 THEN f[2] ELSE f[1]
                   /\ g[n - 1] = IF k = n THEN f[n - 1] ELSE f[n]
        BY <1>1
    <2> QED BY <2>1, <2>2, <2>3
<1>8. ASSUME NEW i \in 1..(n - 1)
      PROVE  /\ next'[g[i]] = (IF i = n - 1 THEN HeadNode ELSE g[i + 1])
             /\ prev'[g[i]] = (IF i = 1 THEN HeadNode ELSE g[i - 1])
    <2> DEFINE u == IF i < k THEN i ELSE i + 1
    <2>1. u \in 1..n /\ u # k /\ g[i] = f[u]
        BY <1>1
    <2>2. next'[f[u]] = IF u = k - 1 THEN b ELSE next[f[u]]
        <3>1. f[u] = a <=> u = k - 1
            <4>1. k # 1 => k - 1 \in 1..n
                OBVIOUS
            <4> HIDE DEF u
            <4> QED BY <4>1, <2>1, <1>0, <1>2
        <3> HIDE DEF u, a, b
        <3> QED BY <3>1, <2>1, <1>2, <1>4
    <2>3. prev'[f[u]] = IF u = k + 1 THEN a ELSE prev[f[u]]
        <3>1. f[u] = b <=> u = k + 1
            <4>1. k # n => k + 1 \in 1..n
                OBVIOUS
            <4> HIDE DEF u
            <4> QED BY <4>1, <2>1, <1>0, <1>2
        <3> HIDE DEF u, a, b
        <3> QED BY <3>1, <2>1, <1>2, <1>4
    <2>4. i # n - 1 => g[i + 1] = IF u = k - 1 THEN f[k + 1] ELSE f[u + 1]
        <3>1. i # n - 1 => i + 1 \in 1..(n - 1)
            OBVIOUS
        <3>2. i # n - 1 => g[i + 1] = IF i + 1 < k THEN f[i + 1] ELSE f[i + 2]
            BY <3>1, <1>1
        <3> QED BY <3>2
    <2>5. i # 1 => g[i - 1] = IF u = k + 1 THEN f[k - 1] ELSE f[u - 1]
        <3>1. i # 1 => i - 1 \in 1..(n - 1)
            OBVIOUS
        <3>2. i # 1 => g[i - 1] = IF i - 1 < k THEN f[i - 1] ELSE f[i]
            BY <3>1, <1>1
        <3> QED BY <3>2
    <2>6. /\ next[f[u]] = (IF u = n THEN HeadNode ELSE f[u + 1])
          /\ prev[f[u]] = (IF u = 1 THEN HeadNode ELSE f[u - 1])
        <3> HIDE DEF u
        <3> QED BY <2>1, <1>0
    <2>7. next'[g[i]] = (IF i = n - 1 THEN HeadNode ELSE g[i + 1])
        BY <2>1, <2>2, <2>4, <2>6
    <2>8. prev'[g[i]] = (IF i = 1 THEN HeadNode ELSE g[i - 1])
        BY <2>1, <2>3, <2>5, <2>6
    <2> QED BY <2>7, <2>8
<1>9. IsChain(g, n - 1)'
    BY <1>5, <1>6, <1>7, <1>8 DEF IsChain
<1> QED BY <1>1, <1>9 DEF g

-----------------------------------------------------------------------------
(* A chain is a sequence.                                                  *)
LEMMA ChainSeq == ASSUME NEW n \in Nat, NEW f \in [1..n -> Nodes]
                  PROVE  f \in Seq(Nodes) /\ Len(f) = n
    OBVIOUS

(* The list, as a sequence, is the chain of its nodes.                     *)
LEMMA OrderIs == \A n \in Nat : \A f \in [1..n -> Nodes] : IsChain(f, n) => Order = f
<1> SUFFICES ASSUME NEW n \in Nat, NEW f \in [1..n -> Nodes], IsChain(f, n)
             PROVE  Order = f
    OBVIOUS
<1>1. /\ \A i, j \in 1..n : f[i] = f[j] => i = j
      /\ next[HeadNode] = (IF n = 0 THEN HeadNode ELSE f[1])
      /\ \A i \in 1..n : next[f[i]] = (IF i = n THEN HeadNode ELSE f[i + 1])
    BY DEF IsChain
<1>2. Walk(next) = f
    BY <1>1, WalkIs
<1> QED BY <1>2 DEF Order

(* The same of the next state.                                             *)
LEMMA OrderPrimeIs ==
    (\A n \in Nat : \A f \in [1..n -> Nodes] : IsChain(f, n) => Order = f)'
    BY OrderIs, PTL

(* The place of a node in the chain.                                       *)
LEMMA AtIs ==
    ASSUME NEW n \in Nat, NEW f \in [1..n -> Nodes],
           \A i, j \in 1..n : f[i] = f[j] => i = j, NEW k \in 1..n
    PROVE  At(f, f[k]) = k
<1>1. Len(f) = n
    BY ChainSeq
<1>2. /\ At(f, f[k]) \in 1..n
      /\ f[At(f, f[k])] = f[k]
    <2>1. \E i \in 1..n : f[i] = f[k]
        OBVIOUS
    <2>2. At(f, f[k]) = CHOOSE i \in 1..n : f[i] = f[k]
        BY <1>1 DEF At
    <2> QED BY <2>1, <2>2
<1> QED BY <1>2

(* Inserted() is the insertion into a sequence that SequenceEffects names. *)
LEMMA InsertSeq ==
    ASSUME NEW n \in Nat, NEW f \in [1..n -> Nodes], NEW k \in 0..n, NEW x \in Nodes
    PROVE  Inserted(f, n, k, x) = InsertAfter(f, k, x)
<1> DEFINE g == Inserted(f, n, k, x)
           s == SubSeq(f, 1, k)
           t == SubSeq(f, k + 1, n)
<1>1. f \in Seq(Nodes) /\ Len(f) = n /\ <<x>> \in Seq(Nodes) /\ Len(<<x>>) = 1
    BY ChainSeq
<1>2. s \in Seq(Nodes) /\ Len(s) = k /\ \A i \in 1..k : s[i] = f[i]
    BY <1>1
<1>3. t \in Seq(Nodes) /\ Len(t) = n - k /\ \A i \in 1..(n - k) : t[i] = f[k + i]
    BY <1>1
<1>4. /\ g \in [1..(n + 1) -> Nodes]
      /\ \A i \in 1..(n + 1) : g[i] = IF i <= k THEN f[i] ELSE IF i = k + 1 THEN x ELSE f[i - 1]
    <2>1. \A i \in 1..(n + 1) : /\ i <= k => i \in 1..n
                                /\ ~(i <= k) /\ i # k + 1 => i - 1 \in 1..n
        OBVIOUS
    <2> QED BY <2>1 DEF Inserted
<1>5. g \in Seq(Nodes) /\ Len(g) = n + 1
    BY <1>4
<1> HIDE DEF g, s, t
<1>6. /\ s \o <<x>> \in Seq(Nodes) /\ Len(s \o <<x>>) = k + 1
      /\ \A i \in 1..(k + 1) : (s \o <<x>>)[i] = IF i <= k THEN f[i] ELSE x
    BY <1>1, <1>2
<1> DEFINE u == s \o <<x>>
<1> HIDE DEF u
<1>7. /\ u \o t \in Seq(Nodes) /\ Len(u \o t) = n + 1
      /\ \A i \in 1..(n + 1) : (u \o t)[i] = IF i <= k + 1 THEN u[i] ELSE t[i - (k + 1)]
    BY <1>3, <1>6 DEF u
<1>8. \A i \in 1..(n + 1) : g[i] = (u \o t)[i]
    <2> SUFFICES ASSUME NEW i \in 1..(n + 1) PROVE g[i] = (u \o t)[i]
        OBVIOUS
    <2>1. CASE i <= k + 1
        BY <2>1, <1>4, <1>6, <1>7 DEF u
    <2>2. CASE ~(i <= k + 1)
        <3>1. i - (k + 1) \in 1..(n - k) /\ k + (i - (k + 1)) = i - 1
            BY <2>2
        <3>2. t[i - (k + 1)] = f[i - 1]
            BY <3>1, <1>3
        <3> QED BY <3>2, <2>2, <1>4, <1>7
    <2> QED BY <2>1, <2>2
<1>9. g = u \o t
    BY <1>5, <1>7, <1>8, SeqEqual
<1> QED BY <1>1, <1>9 DEF g, u, s, t, InsertAfter

(* Removed() is the removal from a sequence that SequenceEffects names.    *)
LEMMA RemoveSeq ==
    ASSUME NEW n \in Nat, NEW f \in [1..n -> Nodes], NEW k \in 1..n
    PROVE  Removed(f, n, k) = Without(f, k)
<1> DEFINE g == Removed(f, n, k)
           s == SubSeq(f, 1, k - 1)
           t == SubSeq(f, k + 1, n)
<1>1. f \in Seq(Nodes) /\ Len(f) = n
    BY ChainSeq
<1>2. s \in Seq(Nodes) /\ Len(s) = k - 1 /\ \A i \in 1..(k - 1) : s[i] = f[i]
    BY <1>1
<1>3. t \in Seq(Nodes) /\ Len(t) = n - k /\ \A i \in 1..(n - k) : t[i] = f[k + i]
    BY <1>1
<1>4. /\ g \in [1..(n - 1) -> Nodes]
      /\ \A i \in 1..(n - 1) : g[i] = IF i < k THEN f[i] ELSE f[i + 1]
    BY DEF Removed
<1>5. g \in Seq(Nodes) /\ Len(g) = n - 1
    <2>1. n - 1 \in Nat
        OBVIOUS
    <2> HIDE DEF g
    <2> QED BY <2>1, <1>4, ChainSeq
<1> HIDE DEF g, s, t
<1>6. /\ s \o t \in Seq(Nodes) /\ Len(s \o t) = n - 1
      /\ \A i \in 1..(n - 1) : (s \o t)[i] = IF i <= k - 1 THEN s[i] ELSE t[i - (k - 1)]
    <2>1. /\ s \o t \in Seq(Nodes) /\ Len(s \o t) = Len(s) + Len(t)
          /\ \A i \in 1..(Len(s) + Len(t)) :
                (s \o t)[i] = IF i <= Len(s) THEN s[i] ELSE t[i - Len(s)]
        BY <1>2, <1>3, ConcatProperties
    <2>2. Len(s) + Len(t) = n - 1 /\ Len(s) = k - 1
        BY <1>2, <1>3
    <2> QED BY <2>1, <2>2
<1>7. \A i \in 1..(n - 1) : g[i] = (s \o t)[i]
    <2> SUFFICES ASSUME NEW i \in 1..(n - 1) PROVE g[i] = (s \o t)[i]
        OBVIOUS
    <2>1. CASE i <= k - 1
        BY <2>1, <1>2, <1>4, <1>6
    <2>2. CASE ~(i <= k - 1)
        <3>1. i - (k - 1) \in 1..(n - k) /\ k + (i - (k - 1)) = i + 1
            BY <2>2
        <3>2. t[i - (k - 1)] = f[i + 1]
            BY <3>1, <1>3
        <3> QED BY <3>2, <2>2, <1>4, <1>6
    <2> QED BY <2>1, <2>2
<1>8. g = s \o t
    BY <1>5, <1>6, <1>7, SeqEqual
<1> QED BY <1>1, <1>8 DEF g, s, t, Without

-----------------------------------------------------------------------------
\* The nodes that were added and not deleted form one ring.
Chained == \E n \in Nat : \E f \in [1..n -> Nodes] : IsChain(f, n)

\* The promises of SequenceEffects for one step.
Effects ==
    /\ \A x \in Nodes :
         /\ Add(x) => Order' = <<x>> \o Order
         /\ Del(x) => Order' = Without(Order, At(Order, x))
    /\ \A x, cur \in Nodes :
         /\ AddPrev(x, cur) => Order' = InsertAfter(Order, At(Order, cur) - 1, x)
         /\ AddNext(x, cur) => Order' = InsertAfter(Order, At(Order, cur), x)
    /\ Empty => Order' = <<>>

(* A node that is in the list has a place in its chain.                    *)
LEMMA PlaceOf ==
    ASSUME NEW n \in Nat, NEW f \in [1..n -> Nodes], IsChain(f, n),
           NEW x \in Nodes, x \in linked
    PROVE  \E k \in 1..n : f[k] = x /\ At(f, x) = k
<1>1. PICK k \in 1..n : f[k] = x
    BY DEF IsChain
<1>2. At(f, f[k]) = k
    BY AtIs DEF IsChain
<1> QED BY <1>1, <1>2

(* add() links its node between _head and the first node.                  *)
LEMMA AddChain ==
    ASSUME ListTypeOK, NEW n \in Nat, NEW f \in [1..n -> Nodes], IsChain(f, n),
           NEW x \in Nodes, Add(x)
    PROVE  /\ Inserted(f, n, 0, x) \in [1..(n + 1) -> Nodes]
           /\ IsChain(Inserted(f, n, 0, x), n + 1)'
<1>1. 0 \in 0..n /\ Before(f, 0) = HeadNode /\ After(f, n, 0) = next[HeadNode]
    BY DEF Before, After, IsChain
<1>2. x # HeadNode /\ x # next[HeadNode] /\ next[HeadNode] \in Places
    BY NodeAssumption DEF Add, IsChain, Places
<1>3. /\ next' = [y \in Places |-> IF y = x THEN After(f, n, 0)
                                    ELSE IF y = Before(f, 0) THEN x ELSE next[y]]
      /\ prev' = [y \in Places |-> IF y = x THEN Before(f, 0)
                                    ELSE IF y = After(f, n, 0) THEN x ELSE prev[y]]
    <2>1. /\ prev' = [prev EXCEPT ![next[HeadNode]] = x, ![x] = HeadNode]
          /\ next' = [next EXCEPT ![x] = next[HeadNode], ![HeadNode] = x]
        BY DEF Add, add
    <2> QED BY <2>1, <1>1, <1>2 DEF ListTypeOK
<1> QED BY <1>1, <1>3, InsertAt DEF Add

(* After add() the node is the first of the sequence.                      *)
LEMMA AddEffect ==
    ASSUME ListTypeOK, Chained, NEW x \in Nodes, Add(x)
    PROVE  Chained' /\ Order' = <<x>> \o Order
<1>1. PICK n \in Nat : \E f \in [1..n -> Nodes] : IsChain(f, n)
    BY DEF Chained
<1>2. PICK f \in [1..n -> Nodes] : IsChain(f, n)
    BY <1>1
<1>3. /\ Inserted(f, n, 0, x) \in [1..(n + 1) -> Nodes]
      /\ IsChain(Inserted(f, n, 0, x), n + 1)'
    BY <1>2, AddChain
<1>4. Order = f /\ Order' = InsertAfter(f, 0, x)
    BY <1>2, <1>3, OrderIs, OrderPrimeIs, InsertSeq
<1>5. InsertAfter(f, 0, x) = <<x>> \o f
    <2>1. f \in Seq(Nodes) /\ Len(f) = n
        BY ChainSeq
    <2>2. SubSeq(f, 1, 0) = <<>> /\ SubSeq(f, 1, n) = f
        BY <2>1, SubSeqEmpty, SubSeqFull
    <2>3. <<>> \o <<x>> = <<x>>
        OBVIOUS
    <2> QED BY <2>1, <2>2, <2>3 DEF InsertAfter
<1> QED BY <1>3, <1>4, <1>5 DEF Chained

(* After add_next() the node stands behind cur.                            *)
LEMMA AddNextEffect ==
    ASSUME ListTypeOK, Chained, NEW x \in Nodes, NEW cur \in Nodes, AddNext(x, cur)
    PROVE  Chained' /\ Order' = InsertAfter(Order, At(Order, cur), x)
<1>1. PICK n \in Nat : \E f \in [1..n -> Nodes] : IsChain(f, n)
    BY DEF Chained
<1>2. PICK f \in [1..n -> Nodes] : IsChain(f, n)
    BY <1>1
<1>3. PICK k \in 1..n : f[k] = cur /\ At(f, cur) = k
    BY <1>2, PlaceOf DEF AddNext
<1>4. k \in 0..n /\ Before(f, k) = cur /\ After(f, n, k) = next[cur]
    BY <1>2, <1>3 DEF Before, After, IsChain
<1>5. x # cur /\ x # next[cur] /\ next[cur] \in Places
    BY <1>2, <1>3, NodeAssumption DEF AddNext, IsChain, Places
<1>6. /\ next' = [y \in Places |-> IF y = x THEN After(f, n, k)
                                    ELSE IF y = Before(f, k) THEN x ELSE next[y]]
      /\ prev' = [y \in Places |-> IF y = x THEN Before(f, k)
                                    ELSE IF y = After(f, n, k) THEN x ELSE prev[y]]
    <2>1. /\ prev' = [prev EXCEPT ![next[cur]] = x, ![x] = cur]
          /\ next' = [next EXCEPT ![x] = next[cur], ![cur] = x]
        BY DEF AddNext, add_next
    <2> QED BY <2>1, <1>4, <1>5 DEF ListTypeOK
<1>7. /\ Inserted(f, n, k, x) \in [1..(n + 1) -> Nodes]
      /\ IsChain(Inserted(f, n, k, x), n + 1)'
    BY <1>2, <1>4, <1>6, InsertAt DEF AddNext
<1>8. Order = f /\ Order' = InsertAfter(f, k, x)
    BY <1>2, <1>4, <1>7, OrderIs, OrderPrimeIs, InsertSeq
<1> QED BY <1>3, <1>7, <1>8 DEF Chained

(* After add_prev() the node stands before cur.                            *)
LEMMA AddPrevEffect ==
    ASSUME ListTypeOK, Chained, NEW x \in Nodes, NEW cur \in Nodes, AddPrev(x, cur)
    PROVE  Chained' /\ Order' = InsertAfter(Order, At(Order, cur) - 1, x)
<1>1. PICK n \in Nat : \E f \in [1..n -> Nodes] : IsChain(f, n)
    BY DEF Chained
<1>2. PICK f \in [1..n -> Nodes] : IsChain(f, n)
    BY <1>1
<1>3. PICK k \in 1..n : f[k] = cur /\ At(f, cur) = k
    BY <1>2, PlaceOf DEF AddPrev
<1>4. k - 1 \in 0..n /\ Before(f, k - 1) = prev[cur] /\ After(f, n, k - 1) = cur
    BY <1>2, <1>3 DEF Before, After, IsChain
<1>5. x # cur /\ x # prev[cur] /\ prev[cur] \in Places
    <2>1. k # 1 => k - 1 \in 1..n
        OBVIOUS
    <2> QED BY <2>1, <1>2, <1>3, NodeAssumption DEF AddPrev, IsChain, Places
<1>6. /\ next' = [y \in Places |-> IF y = x THEN After(f, n, k - 1)
                                    ELSE IF y = Before(f, k - 1) THEN x ELSE next[y]]
      /\ prev' = [y \in Places |-> IF y = x THEN Before(f, k - 1)
                                    ELSE IF y = After(f, n, k - 1) THEN x ELSE prev[y]]
    <2>1. /\ next' = [next EXCEPT ![prev[cur]] = x, ![x] = cur]
          /\ prev' = [prev EXCEPT ![x] = prev[cur], ![cur] = x]
        BY DEF AddPrev, add_prev
    <2> QED BY <2>1, <1>4, <1>5 DEF ListTypeOK
<1>7. /\ Inserted(f, n, k - 1, x) \in [1..(n + 1) -> Nodes]
      /\ IsChain(Inserted(f, n, k - 1, x), n + 1)'
    BY <1>2, <1>4, <1>6, InsertAt DEF AddPrev
<1>8. Order = f /\ Order' = InsertAfter(f, k - 1, x)
    BY <1>2, <1>4, <1>7, OrderIs, OrderPrimeIs, InsertSeq
<1> QED BY <1>3, <1>7, <1>8 DEF Chained

(* After del() the node is gone from its place and nothing else has moved. *)
LEMMA DelEffect ==
    ASSUME ListTypeOK, Chained, NEW x \in Nodes, Del(x)
    PROVE  Chained' /\ Order' = Without(Order, At(Order, x))
<1>1. PICK n \in Nat : \E f \in [1..n -> Nodes] : IsChain(f, n)
    BY DEF Chained
<1>2. PICK f \in [1..n -> Nodes] : IsChain(f, n)
    BY <1>1
<1>3. PICK k \in 1..n : f[k] = x /\ At(f, x) = k
    BY <1>2, PlaceOf DEF Del
<1>4. /\ Removed(f, n, k) \in [1..(n - 1) -> Nodes]
      /\ IsChain(Removed(f, n, k), n - 1)'
    BY <1>2, <1>3, RemoveAt DEF Del
<1>5. n - 1 \in Nat
    BY <1>3
<1>6. Order = f /\ Order' = Without(f, k)
    BY <1>2, <1>4, <1>5, OrderIs, OrderPrimeIs, RemoveSeq
<1> QED BY <1>3, <1>4, <1>5, <1>6 DEF Chained

(* A ring of _head alone is the empty list.                                *)
LEMMA EmptyRing ==
    linked = {} /\ next[HeadNode] = HeadNode /\ prev[HeadNode] = HeadNode
        => Chained /\ Order = <<>>
<1> SUFFICES ASSUME linked = {}, next[HeadNode] = HeadNode, prev[HeadNode] = HeadNode
             PROVE  Chained /\ Order = <<>>
    OBVIOUS
<1>1. <<>> \in [1..0 -> Nodes] /\ 0 \in Nat
    OBVIOUS
<1>2. IsChain(<<>>, 0)
    BY DEF IsChain
<1> QED BY <1>1, <1>2, OrderIs DEF Chained

(* empty() leaves the empty sequence.                                      *)
LEMMA EmptyEffect ==
    ASSUME ListTypeOK, Empty PROVE Chained' /\ Order' = <<>>
<1>1. (linked = {} /\ next[HeadNode] = HeadNode /\ prev[HeadNode] = HeadNode)'
    BY DEF Empty, empty, ListTypeOK, Places
<1>2. (Chained /\ Order = <<>>)'
    BY <1>1, EmptyRing, PTL
<1> QED BY <1>2

(* Seen as a sequence, the list changes as its callers expect, for any     *)
(* number of nodes.                                                        *)
THEOREM ListIsSequence == ListSpec => SequenceEffects
<1>1. ListInit => Chained
    BY EmptyRing DEF ListInit, Places
<1>2. ListTypeOK /\ Chained /\ [ListNext]_listVars => Chained'
    <2> SUFFICES ASSUME ListTypeOK, Chained, [ListNext]_listVars PROVE Chained'
        OBVIOUS
    <2>1. CASE ListNext
        BY <2>1, AddEffect, AddNextEffect, AddPrevEffect, DelEffect, EmptyEffect
           DEF ListNext
    <2>2. CASE UNCHANGED listVars
        BY <2>2 DEF listVars, Chained, IsChain
    <2> QED BY <2>1, <2>2
<1>3. ListTypeOK /\ Chained => Effects
    BY AddEffect, AddNextEffect, AddPrevEffect, DelEffect, EmptyEffect DEF Effects
<1>4. ListTypeOK /\ RingInv => ListTypeOK
    OBVIOUS
<1> QED BY <1>1, <1>2, <1>3, RingKept, PTL DEF ListSpec, SequenceEffects, Effects

-----------------------------------------------------------------------------
USE DEF listVars, Calls, States, Testing, Return, is_empty, entry

(* The ring that IsChain() describes gives the list its type, and is empty *)
(* exactly when _num is 0.                                                 *)
LEMMA ChainEnds ==
    ASSUME TypeOK, NEW f \in [1..num -> Nodes], IsChain(f, num)
    PROVE  /\ is_empty <=> num = 0
           /\ num # 0 => /\ next[HeadNode] = f[1] /\ prev[HeadNode] = f[num]
                         /\ f[1] \in Nodes /\ f[num] \in Nodes
    BY NodeAssumption, WaitAssumption DEF TypeOK, IsChain

-----------------------------------------------------------------------------
(* put() puts the new node in front of the chain.                          *)
LEMMA PutChain ==
    ASSUME TypeOK, CountsList, NEW x \in Nodes, put(x)
    PROVE  CountsList' /\ num' \in Nat /\ ListTypeOK'
<1>1. PICK n \in Nat : n = num
    BY DEF TypeOK
<1>2. PICK f \in [1..n -> Nodes] : IsChain(f, n)
    BY <1>1 DEF CountsList
<1>3. CASE ~alive
    <2>1. UNCHANGED <<next, prev, linked, num>>
        BY <1>3 DEF put
    <2>2. IsChain(f, n)'
        BY <2>1, <1>2 DEF IsChain
    <2> QED BY <2>1, <2>2, <1>1 DEF CountsList, TypeOK, ListTypeOK
<1>4. CASE alive
    <2>1. Add(x) /\ num' = n + 1
        BY <1>1, <1>4 DEF put, Add
    <2>2. /\ Inserted(f, n, 0, x) \in [1..(n + 1) -> Nodes]
          /\ IsChain(Inserted(f, n, 0, x), n + 1)'
        BY <1>2, <2>1, AddChain DEF TypeOK
    <2>3. CountsList'
        BY <2>1, <2>2 DEF CountsList
    <2>4. ListTypeOK'
        BY <2>1 DEF TypeOK, ListTypeOK, Add, add, Places
    <2> QED BY <2>1, <2>3, <2>4
<1> QED BY <1>3, <1>4

(* get(), get(abstime) and get_from_head() take the last or the first node *)
(* of the chain.                                                           *)
LEMMA TakePlace ==
    ASSUME TypeOK, NEW n \in Nat, n = num, NEW f \in [1..n -> Nodes], IsChain(f, n),
           NEW t \in Threads, Take(t)
    PROVE  \E k \in 1..n : /\ k = (IF call[t] = "newest" THEN 1 ELSE n)
                           /\ Chosen(t) = f[k] /\ got' = [got EXCEPT ![t] = f[k]]
                           /\ Removed(f, n, k) \in [1..(n - 1) -> Nodes]
                           /\ IsChain(Removed(f, n, k), n - 1)'
<1>1. n # 0 /\ next[HeadNode] = f[1] /\ prev[HeadNode] = f[n]
    BY ChainEnds DEF Take
<1>2. PICK k \in 1..n : k = (IF call[t] = "newest" THEN 1 ELSE n) /\ Chosen(t) = f[k]
    BY <1>1 DEF Chosen
<1>3. del(f[k]) /\ linked' = linked \ {f[k]} /\ got' = [got EXCEPT ![t] = f[k]]
    BY <1>2, NodeAssumption DEF Take
<1>4. /\ Removed(f, n, k) \in [1..(n - 1) -> Nodes]
      /\ IsChain(Removed(f, n, k), n - 1)'
    BY <1>2, <1>3, RemoveAt DEF TypeOK
<1> QED BY <1>2, <1>3, <1>4

(* A get() that takes a node leaves the rest of the list in order.         *)
LEMMA TakeChain ==
    ASSUME TypeOK, CountsList, NEW t \in Threads, Take(t)
    PROVE  /\ CountsList' /\ ListTypeOK'
           /\ num # 0 /\ num' = num - 1 /\ got'[t] \in Nodes
           /\ got' \in [Threads -> Nodes \cup {Null}]
<1>1. PICK n \in Nat : n = num
    BY DEF TypeOK
<1>2. PICK f \in [1..n -> Nodes] : IsChain(f, n)
    BY <1>1 DEF CountsList
<1>3. PICK k \in 1..n :
          /\ Chosen(t) = f[k] /\ got' = [got EXCEPT ![t] = f[k]]
          /\ Removed(f, n, k) \in [1..(n - 1) -> Nodes]
          /\ IsChain(Removed(f, n, k), n - 1)'
    BY <1>1, <1>2, TakePlace
<1>4. num # 0 /\ num' = n - 1
    BY <1>1, <1>3 DEF Take
<1>5. CountsList'
    BY <1>3, <1>4 DEF CountsList
<1>6. ListTypeOK'
    <2>1. next[f[k]] \in Places \cup {Null} /\ prev[f[k]] \in Places \cup {Null} /\ del(f[k])
        BY <1>3 DEF Take, TypeOK, ListTypeOK, Places
    <2> QED BY <2>1, <1>3 DEF del, Take, TypeOK, ListTypeOK
<1>7. got'[t] \in Nodes /\ got' \in [Threads -> Nodes \cup {Null}]
    BY <1>3 DEF TypeOK
<1> QED BY <1>1, <1>4, <1>5, <1>6, <1>7


-----------------------------------------------------------------------------
(***************************************************************************)
(* The inductive invariant.  NoLostWakeup needs the length of the list to  *)
(* be _num (a thread sleeps only when _num is 0) and needs to know that    *)
(* nobody sleeps on a dead list (put() adds nothing to it, but signals).   *)
(***************************************************************************)
WaitInv == TypeOK /\ CountsList /\ NoLostWakeup /\ FlushWakesAll

(* The threads in one state are finitely many.                             *)
LEMMA InFinite == ASSUME NEW s
                  PROVE  IsFiniteSet(In(s)) /\ Cardinality(In(s)) \in Nat
<1>1. In(s) \in SUBSET Threads
    BY DEF In
<1>2. IsFiniteSet(In(s))
    BY <1>1, FS_Subset, NodeAssumption, WaitAssumption
<1> QED BY <1>2, FS_CardinalityType

(* Waking t adds it to the woken threads and takes it from the sleepers.   *)
LEMMA Wakes ==
    ASSUME TypeOK, NEW t \in Threads, st[t] = "wait",
           st' = [st EXCEPT ![t] = "woken"]
    PROVE  /\ Cardinality(In("woken")') = Cardinality(In("woken")) + 1
           /\ In("wait")' \subseteq In("wait")
<1>1. In("woken")' = In("woken") \cup {t} /\ t \notin In("woken")
    BY DEF In, TypeOK
<1>2. In("wait")' \subseteq In("wait")
    BY DEF In, TypeOK
<1>3. Cardinality(In("woken") \cup {t}) = Cardinality(In("woken")) + 1
    BY <1>1, InFinite, FS_AddElement
<1> QED BY <1>1, <1>2, <1>3

(* A thread that leaves "woken" for s lowers their number by one, and a    *)
(* thread that leaves another state leaves it alone.                       *)
LEMMA Leaves ==
    ASSUME TypeOK, NEW t \in Threads, NEW s, s # "woken", s # "wait",
           st' = [st EXCEPT ![t] = s]
    PROVE  /\ Cardinality(In("woken")') =
                IF st[t] = "woken" THEN Cardinality(In("woken")) - 1
                ELSE Cardinality(In("woken"))
           /\ In("wait")' \subseteq In("wait")
<1>1. In("woken")' = In("woken") \ {t}
    BY DEF In, TypeOK
<1>2. In("wait")' \subseteq In("wait")
    BY DEF In, TypeOK
<1>3. Cardinality(In("woken") \ {t}) =
          IF t \in In("woken") THEN Cardinality(In("woken")) - 1
          ELSE Cardinality(In("woken"))
    BY InFinite, FS_RemoveElement
<1>4. t \in In("woken") <=> st[t] = "woken"
    BY DEF In
<1> QED BY <1>1, <1>2, <1>3, <1>4

(* put() adds a node and wakes a sleeper for it.                           *)
LEMMA PutKeeps ==
    ASSUME WaitInv, NEW x \in Nodes, put(x) PROVE WaitInv'
<1>0. TypeOK /\ CountsList /\ NoLostWakeup /\ FlushWakesAll
    BY DEF WaitInv
<1>1. CountsList' /\ num' \in Nat /\ ListTypeOK'
    BY <1>0, PutChain
<1>2. num' \in {num, num + 1} /\ alive' = alive /\ UNCHANGED <<call, got>>
    BY DEF put
<1>3. CASE In("wait") = {}
    <2>1. st' = st
        BY <1>3 DEF put, Signal
    <2>2. In("wait")' = {}
        BY <2>1, <1>3 DEF In
    <2>3. TypeOK'
        BY <2>1, <1>0, <1>1, <1>2 DEF TypeOK
    <2> QED BY <2>2, <2>3, <1>1 DEF WaitInv, NoLostWakeup, FlushWakesAll
<1>4. CASE In("wait") # {}
    <2>1. PICK t \in In("wait") : st' = [st EXCEPT ![t] = "woken"]
        BY <1>4 DEF put, Signal
    <2>2. t \in Threads /\ st[t] = "wait"
        BY <2>1 DEF In
    <2>3. /\ Cardinality(In("woken")') = Cardinality(In("woken")) + 1
          /\ In("wait")' \subseteq In("wait")
        BY <2>1, <2>2, <1>0, Wakes
    <2>4. num <= Cardinality(In("woken")) /\ num \in Nat
        BY <1>0, <1>4 DEF NoLostWakeup, TypeOK
    <2>5. NoLostWakeup'
        BY <2>3, <2>4, <1>2, InFinite DEF NoLostWakeup
    <2>6. FlushWakesAll'
        BY <1>0, <1>2, <1>4 DEF FlushWakesAll
    <2>7. TypeOK'
        BY <2>1, <2>2, <1>0, <1>1, <1>2 DEF TypeOK
    <2> QED BY <2>5, <2>6, <2>7, <1>1 DEF WaitInv
<1> QED BY <1>3, <1>4

(* A get() that takes a node uses up at most one wakeup.                   *)
LEMMA TakeKeeps ==
    ASSUME WaitInv, NEW t \in Threads, Take(t) PROVE WaitInv'
<1>0. TypeOK /\ NoLostWakeup /\ FlushWakesAll
    BY DEF WaitInv
<1>1. /\ CountsList' /\ ListTypeOK' /\ num # 0 /\ num' = num - 1
      /\ got' \in [Threads -> Nodes \cup {Null}]
    BY TakeChain DEF WaitInv
<1>2. /\ st' = [st EXCEPT ![t] = "idle"] /\ alive' = alive
      /\ call' = [call EXCEPT ![t] = "none"]
    BY DEF Take
<1>3. TypeOK'
    BY <1>0, <1>1, <1>2 DEF TypeOK
<1>4. /\ Cardinality(In("woken")') =
            IF st[t] = "woken" THEN Cardinality(In("woken")) - 1
            ELSE Cardinality(In("woken"))
      /\ In("wait")' \subseteq In("wait")
    BY <1>0, <1>2, Leaves
<1>5. NoLostWakeup'
    BY <1>0, <1>1, <1>4, InFinite DEF NoLostWakeup, TypeOK
<1>6. FlushWakesAll'
    BY <1>0, <1>2, <1>4 DEF FlushWakesAll
<1> QED BY <1>1, <1>3, <1>5, <1>6 DEF WaitInv

(* A get() goes to sleep only on an empty list that is alive.              *)
LEMMA SleepKeeps ==
    ASSUME WaitInv, NEW t \in Threads, Sleep(t) PROVE WaitInv'
<1>0. TypeOK /\ CountsList
    BY DEF WaitInv
<1>1. PICK f \in [1..num -> Nodes] : IsChain(f, num)
    BY <1>0 DEF CountsList
<1>2. num = 0 /\ alive
    BY <1>0, <1>1, ChainEnds DEF Sleep
<1>3. UNCHANGED <<next, prev, linked, alive, num, call, got>>
    BY DEF Sleep
<1>4. IsChain(f, num)'
    BY <1>1, <1>3 DEF IsChain
<1>5. CountsList'
    BY <1>3, <1>4 DEF CountsList
<1>6. TypeOK'
    BY <1>0, <1>3 DEF Sleep, TypeOK, ListTypeOK
<1>7. NoLostWakeup'
    <2>1. In("woken")' \in SUBSET Threads
        BY DEF In
    <2>2. Cardinality(In("woken")') \in Nat
        BY <2>1, FS_Subset, FS_CardinalityType, NodeAssumption, WaitAssumption
    <2>3. num' = 0
        BY <1>2, <1>3
    <2> QED BY <2>2, <2>3 DEF NoLostWakeup
<1> QED BY <1>2, <1>3, <1>5, <1>6, <1>7 DEF WaitInv, FlushWakesAll

(* The steps that touch neither the list nor the sleepers' wakeups.        *)
LEMMA OtherKeeps ==
    ASSUME WaitInv, NEW t \in Threads,
           \/ Dead(t) \/ TimedOut(t) \/ Spurious(t) \/ Expire(t)
           \/ \E k \in Calls : Invoke(t, k)
    PROVE  WaitInv'
<1>0. TypeOK /\ CountsList /\ NoLostWakeup /\ FlushWakesAll
    BY DEF WaitInv
<1>1. UNCHANGED <<next, prev, linked, alive, num>>
    BY DEF Dead, TimedOut, Spurious, Expire, Invoke
<1>2. CountsList'
    <2>1. PICK f \in [1..num -> Nodes] : IsChain(f, num)
        BY <1>0 DEF CountsList
    <2>2. IsChain(f, num)'
        BY <2>1, <1>1 DEF IsChain
    <2> QED BY <2>2, <1>1 DEF CountsList
<1>3. TypeOK'
    BY <1>0, <1>1 DEF TypeOK, ListTypeOK, Dead, TimedOut, Spurious, Expire,
       Invoke
<1>4. In("wait")' \subseteq In("wait")
    BY <1>0 DEF In, TypeOK, Dead, TimedOut, Spurious, Expire, Invoke
<1>5. FlushWakesAll'
    BY <1>0, <1>1, <1>4 DEF FlushWakesAll
<1>6. NoLostWakeup'
    <2>1. CASE Dead(t)
        BY <2>1, <1>0, <1>4 DEF Dead, FlushWakesAll, NoLostWakeup
    <2>2. CASE Spurious(t)
        <3>1. st[t] = "wait" /\ st' = [st EXCEPT ![t] = "woken"]
            BY <2>2 DEF Spurious
        <3>2. Cardinality(In("woken")') = Cardinality(In("woken")) + 1
            BY <3>1, <1>0, Wakes
        <3>3. Cardinality(In("woken")) \in Nat
            BY InFinite
        <3> QED BY <3>2, <3>3, <1>0, <1>1, <1>4 DEF NoLostWakeup, TypeOK
    <2>3. ASSUME NEW s, s # "woken", s # "wait", st[t] # "woken",
                 st' = [st EXCEPT ![t] = s]
          PROVE  NoLostWakeup'
        BY <2>3, <1>0, <1>1, <1>4, Leaves DEF NoLostWakeup
    <2>4. CASE TimedOut(t)
        BY <2>3, <2>4 DEF TimedOut
    <2>5. CASE Expire(t)
        BY <2>3, <2>5 DEF Expire
    <2>6. CASE \E k \in Calls : Invoke(t, k)
        BY <2>3, <2>6 DEF Invoke
    <2> QED BY <2>1, <2>2, <2>4, <2>5, <2>6
<1> QED BY <1>2, <1>3, <1>5, <1>6 DEF WaitInv

(* flush() leaves nobody asleep.                                           *)
LEMMA FlushKeeps == ASSUME WaitInv, flush PROVE WaitInv'
<1>0. TypeOK /\ CountsList
    BY DEF WaitInv
<1>1. UNCHANGED <<next, prev, linked, num, call, got>> /\ alive' = FALSE
    BY DEF flush
<1>2. CountsList'
    <2>1. PICK f \in [1..num -> Nodes] : IsChain(f, num)
        BY <1>0 DEF CountsList
    <2>2. IsChain(f, num)'
        BY <2>1, <1>1 DEF IsChain
    <2> QED BY <2>2, <1>1 DEF CountsList
<1>3. TypeOK'
    BY <1>0, <1>1 DEF flush, TypeOK, ListTypeOK
<1>4. In("wait")' = {}
    BY DEF flush, In
<1> QED BY <1>2, <1>3, <1>4 DEF WaitInv, NoLostWakeup, FlushWakesAll

(* wait_list_t, for any number of callers and nodes: the list is one ring  *)
(* of _num nodes, no wakeup is lost and flush() leaves nobody asleep.      *)
THEOREM WaitListCorrect == Spec => []WaitInv
<1>1. Init => WaitInv
    <2> SUFFICES ASSUME Init PROVE WaitInv
        OBVIOUS
    <2>1. TypeOK
        BY NodeAssumption, WaitAssumption DEF Init, TypeOK, ListInit, ListTypeOK, Places
    <2>2. CountsList
        <3>1. PICK f \in [1..0 -> Nodes] : TRUE
            <4>1. [n \in 1..0 |-> CHOOSE x \in Nodes : TRUE] \in [1..0 -> Nodes]
                OBVIOUS
            <4> QED BY <4>1
        <3>2. IsChain(f, num)
            BY NodeAssumption, WaitAssumption DEF Init, ListInit, Places, IsChain
        <3> QED BY <3>2 DEF CountsList, Init
    <2>3. NoLostWakeup /\ FlushWakesAll
        BY DEF Init, NoLostWakeup, FlushWakesAll, In
    <2> QED BY <2>1, <2>2, <2>3 DEF WaitInv
<1>2. WaitInv /\ [Next]_vars => WaitInv'
    <2> SUFFICES ASSUME WaitInv, [Next]_vars PROVE WaitInv'
        OBVIOUS
    <2>1. CASE Next
        BY <2>1, PutKeeps, TakeKeeps, SleepKeeps, OtherKeeps, FlushKeeps
           DEF Next, get
    <2>2. CASE UNCHANGED vars
        <3>0. UNCHANGED <<next, prev, linked, alive, num, call, st, got>>
            BY <2>2 DEF vars, listVars
        <3>1. TypeOK'
            BY <3>0 DEF WaitInv, TypeOK, ListTypeOK
        <3>2. CountsList'
            <4>1. PICK f \in [1..num -> Nodes] : IsChain(f, num)
                BY DEF WaitInv, CountsList
            <4>2. IsChain(f, num)'
                BY <3>0, <4>1 DEF IsChain
            <4> QED BY <3>0, <4>1, <4>2 DEF CountsList
        <3>3. In("wait")' = In("wait") /\ In("woken")' = In("woken")
            BY <3>0 DEF In
        <3>4. NoLostWakeup' /\ FlushWakesAll'
            BY <3>0, <3>3 DEF WaitInv, NoLostWakeup, FlushWakesAll
        <3> QED BY <3>1, <3>2, <3>4 DEF WaitInv
    <2> QED BY <2>1, <2>2
<1> QED BY <1>1, <1>2, PTL DEF Spec

(* Type correctness: the pointers of the ring stay within the list.        *)
THEOREM WaitTypeCorrect == Spec => []TypeOK
<1>1. WaitInv => TypeOK
    BY DEF WaitInv
<1> QED BY <1>1, WaitListCorrect, PTL

(* put() and get() lose no wakeup.                                         *)
THEOREM WakeupsKept == Spec => []NoLostWakeup
<1>1. WaitInv => NoLostWakeup
    BY DEF WaitInv
<1> QED BY <1>1, WaitListCorrect, PTL

(* _num is the length of the list.                                         *)
THEOREM ListCounted == Spec => []CountsList
<1>1. WaitInv => CountsList
    BY DEF WaitInv
<1> QED BY <1>1, WaitListCorrect, PTL

(* After flush() no thread sleeps on the condition.                        *)
THEOREM FlushedAwake == Spec => []FlushWakesAll
<1>1. WaitInv => FlushWakesAll
    BY DEF WaitInv
<1> QED BY <1>1, WaitListCorrect, PTL

-----------------------------------------------------------------------------
(***************************************************************************)
(* wait_list_t is the queue of WorkQueue.  The refinement needs to know    *)
(* where a thread is in its call: a thread outside of a call is in none,   *)
(* and only get(abstime) times out.                                        *)
(***************************************************************************)
CallInv == \A t \in Threads : /\ st[t] = "idle" <=> call[t] = "none"
                              /\ st[t] = "expired" => call[t] = "timed"

QueueInv == WaitInv /\ CallInv

(* Every step keeps the state of a call and its kind together.             *)
LEMMA CallKept == ASSUME TypeOK, CallInv, [Next]_vars PROVE CallInv'
<1> USE DEF TypeOK, CallInv
<1>1. CASE flush
    BY <1>1 DEF flush
<1>2. ASSUME NEW x \in Nodes, put(x) PROVE CallInv'
    <2>1. call' = call
        BY <1>2 DEF put
    <2>2. CASE In("wait") = {}
        BY <1>2, <2>1, <2>2 DEF put, Signal
    <2>3. CASE In("wait") # {}
        <3>1. PICK t \in In("wait") : st' = [st EXCEPT ![t] = "woken"]
            BY <1>2, <2>3 DEF put, Signal
        <3>2. t \in Threads /\ st[t] = "wait"
            BY <3>1 DEF In
        <3> QED BY <2>1, <3>1, <3>2
    <2> QED BY <2>2, <2>3
<1>3. ASSUME NEW t \in Threads, Sleep(t) PROVE CallInv'
    BY <1>3 DEF Sleep
<1>4. ASSUME NEW t \in Threads, Take(t) \/ Dead(t) \/ TimedOut(t) PROVE CallInv'
    BY <1>4 DEF Take, Dead, TimedOut
<1>5. ASSUME NEW t \in Threads, Spurious(t) \/ Expire(t) PROVE CallInv'
    BY <1>5 DEF Spurious, Expire
<1>6. ASSUME NEW t \in Threads, NEW k \in Calls, Invoke(t, k) PROVE CallInv'
    BY <1>6 DEF Invoke
<1>7. CASE UNCHANGED vars
    BY <1>7 DEF vars
<1> QED BY <1>1, <1>2, <1>3, <1>4, <1>5, <1>6, <1>7 DEF Next, get

\* The chain from its last node to its first.
Reversed(f, n) == [i \in 1..n |-> f[n + 1 - i]]

(* The reversed chain is a sequence of the same length.                    *)
LEMMA ReversedSeq ==
    ASSUME NEW n \in Nat, NEW f \in [1..n -> Nodes]
    PROVE  /\ Reversed(f, n) \in [1..n -> Nodes]
           /\ Reversed(f, n) \in Seq(Nodes) /\ Len(Reversed(f, n)) = n
           /\ \A i \in 1..n : Reversed(f, n)[i] = f[n + 1 - i]
<1>1. \A i \in 1..n : n + 1 - i \in 1..n
    OBVIOUS
<1>2. /\ Reversed(f, n) \in [1..n -> Nodes]
      /\ \A i \in 1..n : Reversed(f, n)[i] = f[n + 1 - i]
    BY <1>1 DEF Reversed
<1> QED BY <1>2, ChainSeq

(* The queue runs through the chain from the oldest node to the newest.    *)
LEMMA QueueIs ==
    \A n \in Nat : \A f \in [1..n -> Nodes] : IsChain(f, n) => Queue = Reversed(f, n)
<1> SUFFICES ASSUME NEW n \in Nat, NEW f \in [1..n -> Nodes], IsChain(f, n)
             PROVE  Queue = Reversed(f, n)
    OBVIOUS
<1> DEFINE r == Reversed(f, n)
<1>0. /\ r \in [1..n -> Nodes]
      /\ \A i \in 1..n : r[i] = f[n + 1 - i] /\ n + 1 - i \in 1..n
    BY ReversedSeq
<1> HIDE DEF r
<1>1. \A i, j \in 1..n : r[i] = r[j] => i = j
    <2> SUFFICES ASSUME NEW i \in 1..n, NEW j \in 1..n, r[i] = r[j] PROVE i = j
        OBVIOUS
    <2>1. n + 1 - i = n + 1 - j
        BY <1>0 DEF IsChain
    <2> QED BY <2>1
<1>2. prev[HeadNode] = (IF n = 0 THEN HeadNode ELSE r[1])
    BY <1>0 DEF IsChain
<1>3. ASSUME NEW i \in 1..n
      PROVE  prev[r[i]] = (IF i = n THEN HeadNode ELSE r[i + 1])
    <2>1. prev[f[n + 1 - i]] = IF n + 1 - i = 1 THEN HeadNode ELSE f[n + 1 - i - 1]
        BY <1>0 DEF IsChain
    <2>2. i # n => i + 1 \in 1..n /\ r[i + 1] = f[n + 1 - (i + 1)]
        BY <1>0
    <2>3. n + 1 - (i + 1) = n + 1 - i - 1 /\ (n + 1 - i = 1 <=> i = n)
        OBVIOUS
    <2> QED BY <1>0, <2>1, <2>2, <2>3
<1>4. Walk(prev) = r
    <2>1. r \in [1..n -> Nodes]
        BY <1>0
    <2>2. \A i \in 1..n : prev[r[i]] = (IF i = n THEN HeadNode ELSE r[i + 1])
        BY <1>3
    <2> QED BY <2>1, <2>2, <1>1, <1>2, WalkIs
<1> QED BY <1>4 DEF Queue, r

(* The same of the next state.                                             *)
LEMMA QueuePrimeIs ==
    (\A n \in Nat : \A f \in [1..n -> Nodes] : IsChain(f, n) => Queue = Reversed(f, n))'
    BY QueueIs, PTL

(* A node put in front of the chain comes last in the queue.               *)
LEMMA ReversedInsert ==
    ASSUME NEW n \in Nat, NEW f \in [1..n -> Nodes], NEW x \in Nodes
    PROVE  Reversed(Inserted(f, n, 0, x), n + 1) = Append(Reversed(f, n), x)
<1> DEFINE g == Inserted(f, n, 0, x)
           r == Reversed(f, n)
<1>1. /\ g \in [1..(n + 1) -> Nodes]
      /\ g[1] = x /\ \A i \in 1..(n + 1) : i # 1 => g[i] = f[i - 1]
    <2>1. \A i \in 1..(n + 1) : ~(i <= 0) /\ (i # 1 => i - 1 \in 1..n)
        OBVIOUS
    <2> QED BY <2>1 DEF Inserted
<1>2. r \in Seq(Nodes) /\ Len(r) = n /\ \A i \in 1..n : r[i] = f[n + 1 - i]
    BY ReversedSeq
<1> HIDE DEF g, r
<1>3. /\ Reversed(g, n + 1) \in Seq(Nodes) /\ Len(Reversed(g, n + 1)) = n + 1
      /\ \A i \in 1..(n + 1) : Reversed(g, n + 1)[i] = g[n + 1 + 1 - i]
    BY <1>1, ReversedSeq
<1>4. /\ Append(r, x) \in Seq(Nodes) /\ Len(Append(r, x)) = n + 1
      /\ \A i \in 1..n : Append(r, x)[i] = r[i]
      /\ Append(r, x)[n + 1] = x
    BY <1>2, AppendProperties
<1>5. ASSUME NEW i \in 1..(n + 1) PROVE Reversed(g, n + 1)[i] = Append(r, x)[i]
    <2>1. CASE i = n + 1
        <3>1. n + 1 + 1 - i = 1
            BY <2>1
        <3> QED BY <2>1, <3>1, <1>1, <1>3, <1>4
    <2>2. CASE i # n + 1
        <3>1. /\ i \in 1..n /\ n + 1 + 1 - i \in 1..(n + 1) /\ n + 1 + 1 - i # 1
              /\ n + 1 + 1 - i - 1 = n + 1 - i
            BY <2>2
        <3> QED BY <3>1, <1>1, <1>2, <1>3, <1>4
    <2> QED BY <2>1, <2>2
<1>6. Reversed(g, n + 1) = Append(r, x)
    BY <1>3, <1>4, <1>5, SeqEqual
<1> QED BY <1>6 DEF g, r

(* Without its last node the chain is the tail of the queue, without its   *)
(* first node it is the queue up to the newest.                            *)
LEMMA ReversedRemove ==
    ASSUME NEW n \in Nat, n # 0, NEW f \in [1..n -> Nodes]
    PROVE  /\ Reversed(f, n) # <<>>
           /\ Head(Reversed(f, n)) = f[n] /\ Reversed(f, n)[n] = f[1]
           /\ Reversed(Removed(f, n, n), n - 1) = Tail(Reversed(f, n))
           /\ Reversed(Removed(f, n, 1), n - 1) = SubSeq(Reversed(f, n), 1, n - 1)
<1> DEFINE r == Reversed(f, n)
           p == Removed(f, n, n)
           q == Removed(f, n, 1)
<1>1. r \in Seq(Nodes) /\ Len(r) = n /\ \A i \in 1..n : r[i] = f[n + 1 - i]
    BY ReversedSeq
<1>2. p \in [1..(n - 1) -> Nodes] /\ \A i \in 1..(n - 1) : p[i] = f[i]
    BY DEF Removed
<1>3. q \in [1..(n - 1) -> Nodes] /\ \A i \in 1..(n - 1) : q[i] = f[i + 1]
    BY DEF Removed
<1>4. n - 1 \in Nat
    OBVIOUS
<1> HIDE DEF r, p, q
<1>5. /\ Reversed(p, n - 1) \in Seq(Nodes) /\ Len(Reversed(p, n - 1)) = n - 1
      /\ \A i \in 1..(n - 1) : Reversed(p, n - 1)[i] = p[n - 1 + 1 - i]
    BY <1>2, <1>4, ReversedSeq
<1>6. /\ Reversed(q, n - 1) \in Seq(Nodes) /\ Len(Reversed(q, n - 1)) = n - 1
      /\ \A i \in 1..(n - 1) : Reversed(q, n - 1)[i] = q[n - 1 + 1 - i]
    BY <1>3, <1>4, ReversedSeq
<1>7. /\ r # <<>> /\ Head(r) = f[n] /\ r[n] = f[1]
    <2>1. r # <<>>
        BY <1>1, EmptySeq
    <2>2. Head(r) = r[1]
        BY <2>1, <1>1
    <2>3. 1 \in 1..n /\ n \in 1..n /\ n + 1 - 1 = n /\ n + 1 - n = 1
        OBVIOUS
    <2> QED BY <2>1, <2>2, <2>3, <1>1
<1>8. /\ Tail(r) \in Seq(Nodes) /\ Len(Tail(r)) = n - 1
      /\ \A i \in 1..(n - 1) : Tail(r)[i] = r[i + 1]
    BY <1>1, <1>7, HeadTailProperties
<1>9. /\ SubSeq(r, 1, n - 1) \in Seq(Nodes) /\ Len(SubSeq(r, 1, n - 1)) = n - 1
      /\ \A i \in 1..(n - 1) : SubSeq(r, 1, n - 1)[i] = r[i]
    BY <1>1, <1>4
<1>10. Reversed(p, n - 1) = Tail(r)
    <2>1. ASSUME NEW i \in 1..(n - 1) PROVE Reversed(p, n - 1)[i] = Tail(r)[i]
        <3>1. /\ n - 1 + 1 - i \in 1..(n - 1) /\ i + 1 \in 1..n
              /\ n - 1 + 1 - i = n + 1 - (i + 1)
            OBVIOUS
        <3> QED BY <3>1, <1>1, <1>2, <1>5, <1>8
    <2> QED BY <2>1, <1>5, <1>8, SeqEqual
<1>11. Reversed(q, n - 1) = SubSeq(r, 1, n - 1)
    <2>1. ASSUME NEW i \in 1..(n - 1) PROVE Reversed(q, n - 1)[i] = SubSeq(r, 1, n - 1)[i]
        <3>1. /\ n - 1 + 1 - i \in 1..(n - 1) /\ i \in 1..n
              /\ n - 1 + 1 - i + 1 = n + 1 - i
            OBVIOUS
        <3> QED BY <3>1, <1>1, <1>3, <1>6, <1>9
    <2> QED BY <2>1, <1>6, <1>9, SeqEqual
<1> QED BY <1>7, <1>10, <1>11 DEF r, p, q

(* put() appends to the queue.                                             *)
LEMMA PutMapped ==
    ASSUME TypeOK, CountsList, NEW x \in Nodes, put(x)
    PROVE  Abstract!Put(x)
<1>1. PICK n \in Nat : n = num
    BY DEF TypeOK
<1>2. PICK f \in [1..n -> Nodes] : IsChain(f, n)
    BY <1>1 DEF CountsList
<1>3. Queue = Reversed(f, n)
    BY <1>2, QueueIs
<1>4. ~Abstract!Queued(x)
    <2> SUFFICES ASSUME NEW i \in 1..n, Reversed(f, n)[i] = x PROVE FALSE
        BY <1>3, ReversedSeq DEF Abstract!Queued
    <2>1. n + 1 - i \in 1..n /\ f[n + 1 - i] = x
        BY ReversedSeq
    <2> QED BY <2>1, <1>2 DEF IsChain, put
<1>5. Queue' = IF alive THEN Append(Queue, x) ELSE Queue
    <2>1. CASE ~alive
        <3>1. prev' = prev
            BY <2>1 DEF put
        <3> QED BY <2>1, <3>1 DEF Queue
    <2>2. CASE alive
        <3>1. Add(x)
            BY <2>2 DEF put, Add
        <3>2. /\ Inserted(f, n, 0, x) \in [1..(n + 1) -> Nodes]
              /\ IsChain(Inserted(f, n, 0, x), n + 1)'
            BY <1>2, <3>1, AddChain DEF TypeOK
        <3>3. Queue' = Reversed(Inserted(f, n, 0, x), n + 1)
            BY <3>2, QueuePrimeIs
        <3> QED BY <2>2, <3>3, <1>3, ReversedInsert
    <2> QED BY <2>1, <2>2
<1> QED BY <1>4, <1>5 DEF Abstract!Put, put

(* get() takes the oldest node of the queue, get_from_head() the newest.   *)
LEMMA TakeMapped ==
    ASSUME TypeOK, CountsList, CallInv, NEW t \in Threads, Take(t)
    PROVE  Abstract!TakeOldest(t) \/ Abstract!TakeNewest(t)
<1>1. PICK n \in Nat : n = num
    BY DEF TypeOK
<1>2. PICK f \in [1..n -> Nodes] : IsChain(f, n)
    BY <1>1 DEF CountsList
<1>3. Queue = Reversed(f, n) /\ Len(Reversed(f, n)) = n
    BY <1>2, QueueIs, ReversedSeq
<1>4. PICK k \in 1..n :
          /\ k = (IF call[t] = "newest" THEN 1 ELSE n)
          /\ got' = [got EXCEPT ![t] = f[k]]
          /\ Removed(f, n, k) \in [1..(n - 1) -> Nodes]
          /\ IsChain(Removed(f, n, k), n - 1)'
    BY <1>1, <1>2, TakePlace
<1>5. n - 1 \in Nat /\ n # 0
    BY <1>4
<1>6. Queue' = Reversed(Removed(f, n, k), n - 1)
    BY <1>4, <1>5, QueuePrimeIs
<1>7. call[t] \in Calls /\ call' = [call EXCEPT ![t] = "none"] /\ alive' = alive /\ alive
    BY DEF TypeOK, CallInv, Take
<1>8. CASE call[t] = "newest"
    <2>1. k = 1
        BY <1>4, <1>8
    <2>2. /\ Queue # <<>> /\ Queue' = SubSeq(Queue, 1, Len(Queue) - 1)
          /\ Queue[Len(Queue)] = f[1]
        BY <1>3, <1>5, <1>6, <2>1, ReversedRemove
    <2> QED BY <1>4, <1>7, <1>8, <2>1, <2>2 DEF Abstract!TakeNewest, Abstract!Answer
<1>9. CASE call[t] # "newest"
    <2>1. k = n
        BY <1>4, <1>9
    <2>2. Queue # <<>> /\ Queue' = Tail(Queue) /\ Head(Queue) = f[n]
        BY <1>3, <1>5, <1>6, <2>1, ReversedRemove
    <2> QED BY <1>4, <1>7, <1>9, <2>1, <2>2 DEF Abstract!TakeOldest, Abstract!Answer
<1> QED BY <1>8, <1>9

(* A step of wait_list_t is a step of the queue or changes nothing of it.  *)
LEMMA StepMapped ==
    ASSUME QueueInv, [Next]_vars PROVE [Abstract!Next]_(Abstract!vars)
<1>0. TypeOK /\ CountsList /\ CallInv
    BY DEF QueueInv, WaitInv
<1>1. UNCHANGED <<prev, alive, call, got>> => UNCHANGED Abstract!vars
    BY DEF Abstract!vars, Queue
<1>2. prev' = prev => Queue' = Queue
    BY DEF Queue
<1>3. CASE flush
    BY <1>2, <1>3 DEF flush, Abstract!Next, Abstract!Close
<1>4. ASSUME NEW x \in Nodes, put(x) PROVE Abstract!Next
    BY <1>0, <1>4, PutMapped DEF Abstract!Next
<1>5. ASSUME NEW t \in Threads, Take(t) PROVE Abstract!Next
    BY <1>0, <1>5, TakeMapped DEF Abstract!Next
<1>6. ASSUME NEW t \in Threads, Dead(t) \/ TimedOut(t) PROVE Abstract!Next
    <2>1. Abstract!Nothing(t)
        BY <1>0, <1>2, <1>6 DEF CallInv, TypeOK, Dead, TimedOut, Abstract!Nothing,
           Abstract!Answer
    <2> QED BY <2>1 DEF Abstract!Next
<1>7. ASSUME NEW t \in Threads, NEW k \in Calls, Invoke(t, k) PROVE Abstract!Next
    <2>1. Abstract!Invoke(t, k)
        BY <1>0, <1>2, <1>7 DEF CallInv, Invoke, Abstract!Invoke
    <2> QED BY <2>1 DEF Abstract!Next, Abstract!Calls
<1>8. ASSUME NEW t \in Threads, Sleep(t) \/ Spurious(t) \/ Expire(t)
      PROVE  UNCHANGED Abstract!vars
    BY <1>1, <1>8 DEF Sleep, Spurious, Expire
<1>9. CASE UNCHANGED vars
    BY <1>1, <1>9 DEF vars
<1> QED BY <1>3, <1>4, <1>5, <1>6, <1>7, <1>8, <1>9 DEF Next, get

(* wait_list_t implements the blocking queue, for any number of callers    *)
(* and nodes: what put() put in comes out in order and once, and get()     *)
(* returns NULL only after a timeout or flush().                           *)
THEOREM QueueRefined == Spec => ImplementsQueue
<1>1. Init => Abstract!Init
    <2> SUFFICES ASSUME Init PROVE Abstract!Init
        OBVIOUS
    <2>1. linked = {} /\ next[HeadNode] = HeadNode /\ prev[HeadNode] = HeadNode
        BY DEF Init, ListInit, Places
    <2>2. <<>> \in [1..0 -> Nodes] /\ IsChain(<<>>, 0)
        BY <2>1 DEF IsChain
    <2>3. Queue = Reversed(<<>>, 0)
        BY <2>2, QueueIs
    <2>4. Reversed(<<>>, 0) = <<>>
        BY <2>2, ReversedSeq, EmptySeq
    <2> QED BY <2>3, <2>4 DEF Init, Abstract!Init
<1>2. Init => CallInv
    BY DEF Init, CallInv
<1>3. WaitInv /\ CallInv /\ [Next]_vars => CallInv'
    BY CallKept DEF WaitInv
<1>4. WaitInv /\ CallInv /\ [Next]_vars => [Abstract!Next]_(Abstract!vars)
    BY StepMapped DEF QueueInv
<1> QED BY <1>1, <1>2, <1>3, <1>4, WaitListCorrect, PTL DEF Spec, ImplementsQueue, Abstract!Spec
=============================================================================
