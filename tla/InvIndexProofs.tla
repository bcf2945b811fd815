---------------------------- MODULE InvIndexProofs ----------------------------
(***************************************************************************)
(* For any words, documents and queries: the inverted lists stay in the    *)
(* order of their documents, BinarySearch() stays inside its list and      *)
(* never cuts off the document it looks for, edit() is the distance by     *)
(* words in common, and a search finds exactly the documents wanted.       *)
(***************************************************************************)
EXTENDS InvIndex, FiniteSetTheorems, SequenceTheorems, WellFoundedInduction, TLAPS

\* The documents and their lists.
ListType ==
    /\ text \in Seq(Texts) /\ Len(text) <= MaxDocs
    /\ weight \in Seq(Nat \cup {NoCity}) /\ Len(weight) = Len(text)
    /\ inv \in [Words -> Seq(1..MaxDocs)]

\* No entry is of a document yet to come.
EntryInv == \A w \in Words : \A k \in DOMAIN inv[w] : inv[w][k] <= Len(text)

\* A search in hand: its words, and where each list is to be searched from.
SearchInv ==
    /\ parts \in Seq(Words) /\ term \in Nat /\ left \in Int /\ right \in Int
    /\ index_begins \in [DOMAIN parts -> Nat \ {0}]
    /\ pc = "search" => term >= 1
    /\ pc = "binary" => term \in DOMAIN parts

IndexInv == ListType /\ EntryInv /\ ListsOrdered /\ SearchInv /\ BinarySafe

\* A text is a sequence of words.
LEMMA TextSeq == ASSUME NEW t \in Texts PROVE t \in Seq(Words)
  <1>1. PICK n \in 0..MaxLen : t \in [1..n -> Words]
    BY DEF Texts
  <1>2. QED
    BY <1>1, IndexAssumption

(* The entries of a word in a document can be counted.                     *)
LEMMA CopiesNat == ASSUME NEW t \in Texts, NEW w \in Words PROVE Copies(w, t) \in Nat
  <1>1. t \in Seq(Words) /\ Len(t) \in Nat /\ DOMAIN t = 1..Len(t)
    BY TextSeq
  <1>2. IsFiniteSet(1..Len(t))
    BY <1>1, FS_Interval
  <1>3. IsFiniteSet({k \in DOMAIN t : t[k] = w})
    BY <1>1, <1>2, FS_Subset
  <1>4. QED
    BY <1>3, FS_CardinalityType DEF Copies

\* What appending entries x to a list in order does.
LEMMA Appended ==
    ASSUME NEW m \in Nat, NEW s \in Seq(1..m), NEW e \in Seq(1..m), NEW x \in 1..m,
           \A k \in DOMAIN e : e[k] = x,
           \A j \in DOMAIN s : s[j] <= x,
           \A j, k \in DOMAIN s : j < k => s[j] <= s[k]
    PROVE  /\ s \o e \in Seq(1..m)
           /\ \A j \in DOMAIN (s \o e) : (s \o e)[j] <= x
           /\ \A j, k \in DOMAIN (s \o e) : j < k => (s \o e)[j] <= (s \o e)[k]
  <1> DEFINE r == s \o e
  <1> DEFINE n == Len(e)
  <1>1. n \in Nat /\ DOMAIN e = 1..n /\ \A k \in 1..n : e[k] = x
    BY LenProperties
  <1>2. /\ r \in Seq(1..m) /\ Len(r) = Len(s) + n
        /\ \A j \in 1..(Len(s) + n) : r[j] = IF j <= Len(s) THEN s[j] ELSE e[j - Len(s)]
    BY <1>1, ConcatProperties
  <1>3. DOMAIN r = 1..(Len(s) + n) /\ Len(s) \in Nat /\ DOMAIN s = 1..Len(s)
    BY <1>2, LenProperties
  <1> HIDE DEF r
  <1>4. ASSUME NEW j \in DOMAIN r
        PROVE  r[j] \in 1..m /\ r[j] <= x /\ (IF j <= Len(s) THEN r[j] = s[j] ELSE r[j] = x)
    <2>1. CASE j <= Len(s)
      <3>1. j \in DOMAIN s /\ r[j] = s[j]
        BY <1>2, <1>3, <2>1
      <3>2. s[j] \in 1..m
        BY <3>1, ElementOfSeq, <1>3
      <3>3. QED
        BY <3>1, <3>2, <2>1
    <2>2. CASE ~(j <= Len(s))
      <3>1. j \in Int /\ j - Len(s) \in 1..n /\ r[j] = e[j - Len(s)]
        BY <1>2, <1>3, <2>2
      <3>2. QED
        BY <3>1, <1>1, <2>2
    <2>3. QED
      BY <2>1, <2>2
  <1>5. ASSUME NEW j \in DOMAIN r, NEW k \in DOMAIN r, j < k PROVE r[j] <= r[k]
    <2>1. j \in Int /\ k \in Int /\ Len(s) \in Nat
      BY <1>3
    <2>2. CASE k <= Len(s)
      <3>1. j <= Len(s) /\ j \in DOMAIN s /\ k \in DOMAIN s
        BY <2>1, <2>2, <1>3, <1>5
      <3>2. r[j] = s[j] /\ r[k] = s[k]
        BY <1>4, <2>2, <3>1
      <3>3. QED
        BY <3>1, <3>2, <1>5
    <2>3. CASE ~(k <= Len(s))
      BY <1>4, <2>3
    <2>4. QED
      BY <2>2, <2>3
  <1>6. QED
    BY <1>2, <1>4, <1>5 DEF r

(* The empty index.                                                        *)
LEMMA InitIndex == Init => IndexInv
  <1> SUFFICES ASSUME Init PROVE IndexInv
    OBVIOUS
  <1>1. ListType /\ EntryInv /\ ListsOrdered /\ BinarySafe
    BY IndexAssumption DEF Init, ListType, EntryInv, ListsOrdered, BinarySafe
  <1>2. SearchInv
    BY DEF Init, SearchInv
  <1>3. QED
    BY <1>1, <1>2 DEF IndexInv

\* CommonIndex::Add() keeps the lists in order.
LEMMA AddKept ==
    ASSUME IndexInv, NEW t \in Texts, NEW c \in Weights \cup {0, NoCity}, Add(t, c) PROVE IndexInv'
  <1> DEFINE x == Len(text) + 1
  <1>1. /\ text \in Seq(Texts) /\ Len(text) \in Nat /\ x \in 1..MaxDocs
        /\ inv \in [Words -> Seq(1..MaxDocs)]
    BY IndexAssumption DEF IndexInv, ListType, Add
  <1>2. text' \in Seq(Texts) /\ Len(text') = x
    BY <1>1 DEF Add
  <1>3. inv' = [w \in Words |-> inv[w] \o [k \in 1..Copies(w, t) |-> x]]
    BY DEF Add
  <1> HIDE DEF x
  <1>4. ASSUME NEW w \in Words
        PROVE  /\ inv'[w] \in Seq(1..MaxDocs)
               /\ \A j \in DOMAIN inv'[w] : inv'[w][j] <= x
               /\ \A j, k \in DOMAIN inv'[w] : j < k => inv'[w][j] <= inv'[w][k]
    <2>1. inv[w] \in Seq(1..MaxDocs) /\ Copies(w, t) \in Nat
      BY <1>1, CopiesNat
    <2>2. \A j \in DOMAIN inv[w] : inv[w][j] <= x
      <3>1. ASSUME NEW j \in DOMAIN inv[w] PROVE inv[w][j] <= x
        <4>1. inv[w][j] \in 1..MaxDocs
          BY <2>1, ElementOfSeq, LenProperties
        <4>2. inv[w][j] <= Len(text)
          BY DEF IndexInv, EntryInv
        <4>3. QED
          BY <4>1, <4>2, <1>1 DEF x
      <3>2. QED
        BY <3>1
    <2>3. \A j, k \in DOMAIN inv[w] : j < k => inv[w][j] <= inv[w][k]
      BY DEF IndexInv, ListsOrdered
    <2>4. inv'[w] = inv[w] \o [k \in 1..Copies(w, t) |-> x]
      BY <1>3
    <2> DEFINE n == Copies(w, t)
    <2> DEFINE e == [k \in 1..n |-> x]
    <2> DEFINE s == inv[w]
    <2>5. n \in Nat /\ s \in Seq(1..MaxDocs) /\ inv'[w] = s \o e
      BY <2>1, <2>4
    <2>6. (\A j \in DOMAIN s : s[j] <= x) /\ (\A j, k \in DOMAIN s : j < k => s[j] <= s[k])
      BY <2>2, <2>3
    <2>7. x \in 1..MaxDocs /\ MaxDocs \in Nat
      BY <1>1, IndexAssumption
    <2> HIDE DEF n, s
    <2>8. e \in Seq(1..MaxDocs) /\ \A k \in DOMAIN e : e[k] = x
      BY <2>5, <2>7
    <2> HIDE DEF e
    <2>9. /\ s \o e \in Seq(1..MaxDocs) /\ (\A j \in DOMAIN (s \o e) : (s \o e)[j] <= x)
          /\ \A j, k \in DOMAIN (s \o e) : j < k => (s \o e)[j] <= (s \o e)[k]
      BY <2>5, <2>6, <2>7, <2>8, Appended
    <2>10. QED
      BY <2>5, <2>9
  <1>5. ListType'
    <2>1. inv' \in [Words -> Seq(1..MaxDocs)]
      BY <1>3, <1>4
    <2>2. Len(text') <= MaxDocs
      BY <1>1, <1>2, IndexAssumption
    <2>3. weight' \in Seq(Nat \cup {NoCity}) /\ Len(weight') = Len(text')
      <3>1. weight \in Seq(Nat \cup {NoCity}) /\ Len(weight) = Len(text)
        BY DEF IndexInv, ListType
      <3>2. c \in Nat \cup {NoCity} /\ weight' = Append(weight, c)
        BY IndexAssumption DEF Add
      <3>3. weight' \in Seq(Nat \cup {NoCity}) /\ Len(weight') = Len(weight) + 1
        BY <3>1, <3>2, AppendProperties
      <3> QED BY <1>2, <3>1, <3>3 DEF x
    <2>4. QED
      BY <1>2, <2>1, <2>2, <2>3 DEF ListType
  <1>6. EntryInv' /\ ListsOrdered'
    BY <1>2, <1>4 DEF EntryInv, ListsOrdered
  <1>7. pc' = "ready" /\ UNCHANGED <<parts, term, left, right, index_begins>>
    BY DEF Add, searchVars
  <1>8. SearchInv' /\ BinarySafe'
    BY <1>7 DEF IndexInv, SearchInv, BinarySafe
  <1>9. QED
    BY <1>5, <1>6, <1>8 DEF IndexInv

\* Every step of a search leaves the index alone.
LEMMA IndexSame ==
    ASSUME IndexInv, UNCHANGED indexVars PROVE ListType' /\ EntryInv' /\ ListsOrdered'
  BY DEF IndexInv, ListType, EntryInv, ListsOrdered, indexVars

(* GetUnionResults() starts every list at its first entry.                 *)
LEMMA QueryKept ==
    ASSUME IndexInv, NEW q \in Texts, GetUnionResults(q) PROVE IndexInv'
  <1>1. ListType' /\ EntryInv' /\ ListsOrdered'
    BY IndexSame DEF GetUnionResults
  <1>2. q \in Seq(Words)
    BY TextSeq
  <1>3. SearchInv'
    BY <1>2 DEF GetUnionResults, IndexInv, SearchInv
  <1>4. BinarySafe'
    BY DEF GetUnionResults, BinarySafe
  <1>5. QED
    BY <1>1, <1>3, <1>4 DEF IndexInv

\* What BinarySearch() looks at.
LEMMA MidRange ==
    ASSUME IndexInv, pc = "binary", left <= right
    PROVE  /\ left \in Int /\ right \in Int /\ mid \in Int
           /\ 1 <= left /\ left <= mid /\ mid <= right
           /\ List(term) \in Seq(1..MaxDocs) /\ mid \in DOMAIN List(term) /\ probe \in 1..MaxDocs
           /\ term \in DOMAIN parts
  <1>1. left \in Int /\ right \in Int /\ term \in DOMAIN parts /\ parts \in Seq(Words)
    BY DEF IndexInv, SearchInv
  <1>2. List(term) \in Seq(1..MaxDocs)
    BY <1>1 DEF IndexInv, ListType, List
  <1>3. 1 <= left /\ right <= Len(List(term)) /\ Len(List(term)) \in Nat
    BY <1>2 DEF IndexInv, BinarySafe
  <1>4. mid \in Int /\ left <= mid /\ mid <= right
    BY <1>1 DEF mid
  <1>5. mid \in 1..Len(List(term))
    BY <1>1, <1>3, <1>4
  <1>6. List(term)[mid] \in 1..MaxDocs /\ DOMAIN List(term) = 1..Len(List(term))
    BY <1>2, <1>5, ElementOfSeq, LenProperties
  <1>7. QED
    BY <1>1, <1>2, <1>3, <1>4, <1>5, <1>6 DEF probe

(* SearchDoc() gives BinarySearch() all of the list from index_begins on.  *)
LEMMA SearchDocKept == ASSUME IndexInv, SearchDoc PROVE IndexInv'
  <1>1. ListType' /\ EntryInv' /\ ListsOrdered'
    BY IndexSame DEF SearchDoc
  <1>2. parts \in Seq(Words) /\ term \in Nat /\ term >= 1 /\ index_begins \in [DOMAIN parts -> Nat \ {0}]
        /\ DOMAIN parts = 1..Len(parts) /\ Len(parts) \in Nat /\ left \in Int /\ right \in Int
    BY DEF SearchDoc, IndexInv, SearchInv
  <1>3. parts' = parts /\ index_begins' = index_begins /\ inv' = inv
    BY DEF SearchDoc, indexVars
  <1>4. CASE pc' # "binary"
    <2>1. term' \in Nat /\ term' >= 1 /\ left' = left /\ right' = right
      BY <1>2, <1>4 DEF SearchDoc
    <2>2. QED
      BY <1>1, <1>2, <1>3, <1>4, <2>1 DEF IndexInv, SearchInv, BinarySafe
  <1>5. CASE pc' = "binary"
    <2>1. /\ term <= Len(parts) /\ term' = term
          /\ left' = index_begins[term] /\ right' = Len(List(term))
      BY <1>5 DEF SearchDoc
    <2>2. term \in DOMAIN parts /\ parts[term] \in Words
      BY <1>2, <2>1
    <2>3. inv[parts[term]] \in Seq(1..MaxDocs)
      BY <2>2 DEF IndexInv, ListType
    <2>4. Len(inv[parts[term]]) \in Nat /\ DOMAIN inv[parts[term]] = 1..Len(inv[parts[term]])
      BY <2>3, LenProperties
    <2>5. index_begins[term] \in Nat \ {0}
      BY <1>2, <2>2
    <2>6. SearchInv'
      BY <1>2, <1>3, <1>5, <2>1, <2>2, <2>4, <2>5 DEF SearchInv, List
    <2>7. List(term)' = inv[parts[term]]
      BY <1>3, <2>1 DEF List
    <2>8. BinarySafe'
      BY <1>3, <2>1, <2>4, <2>5, <2>7 DEF BinarySafe, List
    <2>9. QED
      BY <1>1, <2>6, <2>8 DEF IndexInv
  <1>6. QED
    BY <1>4, <1>5

\* The half that is cut off does not hold the document.
LEMMA HalveKept == ASSUME IndexInv, Halve PROVE IndexInv'
  <1>1. ListType' /\ EntryInv' /\ ListsOrdered'
    BY IndexSame DEF Halve
  <1>2. /\ left \in Int /\ right \in Int /\ mid \in Int /\ 1 <= left /\ left <= mid /\ mid <= right
        /\ List(term) \in Seq(1..MaxDocs) /\ mid \in DOMAIN List(term) /\ probe \in 1..MaxDocs
        /\ term \in DOMAIN parts
    BY MidRange DEF Halve
  <1>3. /\ pc' = "binary" /\ pc = "binary" /\ parts' = parts /\ index_begins' = index_begins
        /\ inv' = inv /\ term' = term /\ i' = i
    BY DEF Halve, indexVars
  <1>4. /\ (doc_id)' = doc_id /\ (List(term))' = List(term)
    BY <1>3 DEF doc_id, min_index, List
  <1>5. \/ probe < doc_id /\ left' = mid + 1 /\ right' = right
        \/ probe > doc_id /\ right' = mid - 1 /\ left' = left
    BY DEF Halve
  <1>6. right <= Len(List(term)) /\ Len(List(term)) \in Nat /\ DOMAIN List(term) = 1..Len(List(term))
    BY <1>2, <1>3, LenProperties DEF IndexInv, BinarySafe
  <1>7. left' \in Int /\ right' \in Int /\ left' >= 1 /\ right' <= Len(List(term))
    BY <1>2, <1>5, <1>6
  <1>8. ASSUME NEW k \in DOMAIN List(term), List(term)[k] = doc_id, k >= index_begins[term]
        PROVE  left' <= k /\ k <= right'
    <2>1. left <= k /\ k <= right /\ k \in Int
      BY <1>3, <1>6, <1>8 DEF IndexInv, BinarySafe
    <2>2. doc_id \in 1..MaxDocs
      BY <1>2, <1>6, <1>8, ElementOfSeq
    <2>3. parts[term] \in Words
      BY <1>2 DEF IndexInv, SearchInv
    <2>4. \A j, m \in DOMAIN List(term) : j < m => List(term)[j] <= List(term)[m]
      BY <2>3 DEF IndexInv, ListsOrdered, List
    <2>5. CASE probe < doc_id /\ left' = mid + 1 /\ right' = right
      <3>1. ~(k < mid)
        BY <2>2, <2>4, <2>5, <1>2, <1>8 DEF probe
      <3>2. k # mid
        BY <2>2, <2>5, <1>2, <1>8 DEF probe
      <3>3. QED
        BY <3>1, <3>2, <2>1, <2>5, <1>2
    <2>6. CASE probe > doc_id /\ right' = mid - 1 /\ left' = left
      <3>1. ~(mid < k)
        BY <2>2, <2>4, <2>6, <1>2, <1>8 DEF probe
      <3>2. k # mid
        BY <2>2, <2>6, <1>2, <1>8 DEF probe
      <3>3. QED
        BY <3>1, <3>2, <2>1, <2>6, <1>2
    <2>7. QED
      BY <1>5, <2>5, <2>6
  <1>9. BinarySafe'
    BY <1>3, <1>4, <1>7, <1>8 DEF BinarySafe
  <1>10. SearchInv'
    BY <1>2, <1>3, <1>7 DEF IndexInv, SearchInv
  <1>11. QED
    BY <1>1, <1>9, <1>10 DEF IndexInv

(* A document found: the next search starts at an entry number again.      *)
LEMMA FoundKept == ASSUME IndexInv, Found PROVE IndexInv'
  <1>1. ListType' /\ EntryInv' /\ ListsOrdered'
    BY IndexSame DEF Found
  <1>2. mid \in Int /\ mid >= 1 /\ term \in DOMAIN parts
    BY MidRange DEF Found
  <1>3. SearchInv'
    BY <1>2 DEF Found, IndexInv, SearchInv
  <1>4. BinarySafe'
    BY DEF Found, BinarySafe
  <1>5. QED
    BY <1>1, <1>3, <1>4 DEF IndexInv

\* The steps that neither begin nor narrow a binary search.
LEMMA OtherKept ==
    ASSUME IndexInv,
           UnionInvResult \/ NotFound \/ EditSort \/ LogSort \/ Sorted \/ Clear
             \/ \E q \in Texts : Segment_(q)
    PROVE  IndexInv'
  <1>1. ListType' /\ EntryInv' /\ ListsOrdered'
    BY IndexSame DEF UnionInvResult, NotFound, EditSort, LogSort, Sorted, Clear, Segment_
  <1>2. CASE Clear
    BY <1>1, <1>2 DEF Clear, IndexInv, SearchInv, BinarySafe
  <1>3. CASE UnionInvResult
    BY <1>1, <1>3 DEF UnionInvResult, IndexInv, SearchInv, BinarySafe
  <1>4. CASE NotFound
    BY <1>1, <1>4 DEF NotFound, IndexInv, SearchInv, BinarySafe
  <1>5. CASE EditSort
    BY <1>1, <1>5 DEF EditSort, searchVars, IndexInv, SearchInv, BinarySafe
  <1>6. CASE LogSort
    BY <1>1, <1>6 DEF LogSort, searchVars, IndexInv, SearchInv, BinarySafe
  <1>7. CASE Sorted
    BY <1>1, <1>7 DEF Sorted, searchVars, IndexInv, SearchInv, BinarySafe
  <1>8. CASE \E q \in Texts : Segment_(q)
    <2>1. pc' = "sort" /\ UNCHANGED <<parts, searchVars>>
      BY <1>8 DEF Segment_
    <2> QED BY <1>1, <2>1 DEF searchVars, IndexInv, SearchInv, BinarySafe
  <1>9. QED
    BY <1>2, <1>3, <1>4, <1>5, <1>6, <1>7, <1>8

(* The inductive invariant holds in every reachable state.                 *)
THEOREM IndexInvariant == Spec => []IndexInv
  <1>1. IndexInv /\ [Next]_vars => IndexInv'
    <2> SUFFICES ASSUME IndexInv, [Next]_vars PROVE IndexInv'
      OBVIOUS
    <2>1. CASE UNCHANGED vars
      <3>1. ListType' /\ EntryInv' /\ ListsOrdered'
        BY <2>1, IndexSame DEF vars
      <3>2. (doc_id)' = doc_id /\ (List(term))' = List(term)
        BY <2>1 DEF doc_id, min_index, List, vars, indexVars, searchVars
      <3>3. SearchInv' /\ BinarySafe'
        BY <2>1, <3>2 DEF vars, searchVars, IndexInv, SearchInv, BinarySafe
      <3>4. QED
        BY <3>1, <3>3 DEF IndexInv
    <2>2. QED
      BY <2>1, AddKept, QueryKept, SearchDocKept, HalveKept, FoundKept, OtherKept DEF Next, Search
  <1>2. QED
    BY InitIndex, <1>1, PTL DEF Spec

\* The rest of TypeOK.
RestType ==
    /\ pc \in {"ready", "union", "search", "binary", "call", "sort", "show"}
    /\ log \in BOOLEAN /\ i \in Nat /\ raw \in Seq(Words)

(* The steps keep the types of pc, log, i and raw.                         *)
LEMMA RestKept == RestType /\ [Next]_vars => RestType'
  <1> SUFFICES ASSUME RestType, [Next]_vars PROVE RestType'
    OBVIOUS
  <1>1. log' \in BOOLEAN
    <2>1. log' = log
      BY Zenon DEF Next, Search, Add, GetUnionResults, UnionInvResult, SearchDoc, Found, Halve,
                   NotFound, EditSort, LogSort, Sorted, Segment_, Clear, vars, indexVars
    <2> QED BY <2>1, Zenon DEF RestType
  <1>2. pc' \in {"ready", "union", "search", "binary", "call", "sort", "show"} /\ i' \in Nat
    BY DEF RestType, Next, Search, Add, GetUnionResults, UnionInvResult, SearchDoc, Found, Halve,
           NotFound, EditSort, LogSort, Sorted, Segment_, Clear, vars, searchVars
  <1>3. raw' \in Seq(Words)
    <2>1. raw' = raw \/ raw' = <<>> \/ raw' \in Texts
      BY DEF Next, Search, Add, GetUnionResults, UnionInvResult, SearchDoc, Found, Halve,
             NotFound, EditSort, LogSort, Sorted, Segment_, Clear, vars
    <2>2. raw \in Seq(Words) /\ <<>> \in Seq(Words)
      BY DEF RestType
    <2> QED BY <2>1, <2>2, TextSeq
  <1>4. QED
    BY <1>1, <1>2, <1>3 DEF RestType

(* Type correctness of the index and of a search.                          *)
THEOREM IndexTypeCorrect == Spec => []TypeOK
  <1>1. IndexInv /\ RestType => TypeOK
    BY DEF IndexInv, ListType, SearchInv, RestType, TypeOK
  <1>2. Init => RestType
    <2>1. Init => log \in BOOLEAN
      BY Zenon DEF Init
    <2>2. QED
      BY <2>1 DEF Init, RestType
  <1>3. Spec => []RestType
    BY <1>2, RestKept, PTL DEF Spec
  <1>4. QED
    BY IndexInvariant, <1>1, <1>3, PTL

(* The entries of every inverted list are in the order of their documents. *)
THEOREM AlwaysOrdered == Spec => []ListsOrdered
  <1>1. IndexInv => ListsOrdered
    BY DEF IndexInv
  <1>2. QED
    BY IndexInvariant, <1>1, PTL

(* BinarySearch() stays in its list and never loses the document.          *)
THEOREM NeverCutOff == Spec => []BinarySafe
  <1>1. IndexInv => BinarySafe
    BY DEF IndexInv
  <1>2. QED
    BY IndexInvariant, <1>1, PTL

-----------------------------------------------------------------------------
(***************************************************************************)
(* What edit() computes.                                                   *)
(***************************************************************************)
(* A set of numbers has a least one.                                       *)
LEMMA LeastNumber ==
    ASSUME NEW T, T \subseteq Nat, T # {} PROVE \E m \in T : \A k \in T : m <= k
<1>1. PICK m \in T : \A k \in T : ~ (<<k, m>> \in OpToRel(<, Nat))
    BY NatLessThanWellFounded, WFMin
<1>2. \A k \in T : k < m => <<k, m>> \in OpToRel(<, Nat)
    BY DEF OpToRel
<1>3. \A k \in T : ~ (k < m)
    BY <1>1, <1>2, Zenon
<1> QED BY <1>3

\* Words in common, in order, of the first m words of a and n words of b.
Match(a, b, m, n) ==
    {s \in SUBSET ((1..m) \X (1..n)) :
        /\ \A p \in s : a[p[1]] = b[p[2]]
        /\ \A p, q \in s : p # q => (p[1] < q[1] /\ p[2] < q[2]) \/ (q[1] < p[1] /\ q[2] < p[2])}

IsMost(a, b, m, n, l) ==
    /\ \E s \in Match(a, b, m, n) : Cardinality(s) = l
    /\ \A s \in Match(a, b, m, n) : Cardinality(s) <= l

\* The most words in common.
Most(a, b, m, n) == CHOOSE l \in Nat : IsMost(a, b, m, n, l)

(* Words in common are finite in number.                                   *)
LEMMA MatchFinite ==
    ASSUME NEW a, NEW b, NEW m \in Nat, NEW n \in Nat
    PROVE  /\ {} \in Match(a, b, m, n)
           /\ \E u \in Nat : \A s \in Match(a, b, m, n) :
                 IsFiniteSet(s) /\ Cardinality(s) \in Nat /\ Cardinality(s) <= u
<1> DEFINE P == (1..m) \X (1..n)
<1>1. IsFiniteSet(P)
    <2>1. IsFiniteSet(1..m) /\ IsFiniteSet(1..n)
        BY FS_Interval
    <2> QED BY <2>1, FS_Product
<1>2. Cardinality(P) \in Nat
    BY <1>1, FS_CardinalityType
<1>3. \A s \in Match(a, b, m, n) : s \subseteq P
    BY DEF Match
<1>4. \A s \in Match(a, b, m, n) :
          IsFiniteSet(s) /\ Cardinality(s) \in Nat /\ Cardinality(s) <= Cardinality(P)
    BY <1>1, <1>3, FS_Subset, FS_CardinalityType
<1>5. {} \in Match(a, b, m, n)
    BY DEF Match
<1> QED BY <1>2, <1>4, <1>5

(* There is a largest number of words in common.                           *)
LEMMA MostIs ==
    ASSUME NEW a, NEW b, NEW m \in Nat, NEW n \in Nat
    PROVE  Most(a, b, m, n) \in Nat /\ IsMost(a, b, m, n, Most(a, b, m, n))
<1> DEFINE U == {k \in Nat : \A s \in Match(a, b, m, n) : Cardinality(s) <= k}
<1>1. PICK u \in Nat : \A s \in Match(a, b, m, n) :
          IsFiniteSet(s) /\ Cardinality(s) \in Nat /\ Cardinality(s) <= u
    BY MatchFinite
<1>2. U \subseteq Nat /\ u \in U
    BY <1>1
<1>3. PICK l \in U : \A k \in U : l <= k
    BY <1>2, LeastNumber
<1>4. l \in Nat /\ \A s \in Match(a, b, m, n) : Cardinality(s) <= l
    OBVIOUS
<1>5. \E s \in Match(a, b, m, n) : Cardinality(s) = l
    <2> SUFFICES ASSUME \A s \in Match(a, b, m, n) : Cardinality(s) # l PROVE FALSE
        OBVIOUS
    <2>1. \A s \in Match(a, b, m, n) : Cardinality(s) < l
        BY <1>1, <1>4
    <2>2. l # 0
        <3>1. {} \in Match(a, b, m, n) /\ Cardinality({}) = 0
            BY MatchFinite, FS_EmptySet
        <3> QED BY <3>1, <2>1
    <2>3. l - 1 \in Nat /\ \A s \in Match(a, b, m, n) : Cardinality(s) <= l - 1
        BY <2>1, <2>2, <1>1, <1>4
    <2>4. l - 1 \in U
        BY <2>3
    <2> HIDE DEF U
    <2> QED BY <2>4, <1>3, <1>4
<1>6. IsMost(a, b, m, n, l)
    BY <1>4, <1>5 DEF IsMost
<1> QED BY <1>4, <1>6 DEF Most

(* Without words there are none in common.                                 *)
LEMMA MostOfNone ==
    ASSUME NEW a, NEW b, NEW m \in Nat, NEW n \in Nat, m = 0 \/ n = 0
    PROVE  Most(a, b, m, n) = 0
<1>1. \A s \in Match(a, b, m, n) : s = {}
    <2>1. (1..m) \X (1..n) = {}
        <3>1. 1..m = {} \/ 1..n = {}
            OBVIOUS
        <3> QED BY <3>1
    <2> QED BY <2>1 DEF Match
<1>2. Cardinality({}) = 0
    BY FS_EmptySet
<1>3. \E s \in Match(a, b, m, n) : Cardinality(s) = Most(a, b, m, n)
    BY MostIs DEF IsMost
<1> QED BY <1>1, <1>2, <1>3

(* More words have no fewer in common.                                     *)
LEMMA MostGrows ==
    ASSUME NEW a, NEW b, NEW m \in Nat, NEW n \in Nat, NEW j \in Nat, NEW k \in Nat,
           j <= m, k <= n
    PROVE  Most(a, b, j, k) <= Most(a, b, m, n)
<1>1. PICK s \in Match(a, b, j, k) : Cardinality(s) = Most(a, b, j, k)
    BY MostIs DEF IsMost
<1>2. s \in Match(a, b, m, n)
    <2>1. (1..j) \X (1..k) \subseteq (1..m) \X (1..n)
        OBVIOUS
    <2> QED BY <2>1 DEF Match
<1> QED BY <1>1, <1>2, MostIs DEF IsMost

(* Equal last words are in common besides those before them.               *)
LEMMA MostWithLast ==
    ASSUME NEW a, NEW b, NEW m \in Nat, NEW n \in Nat, a[m + 1] = b[n + 1]
    PROVE  Most(a, b, m, n) + 1 <= Most(a, b, m + 1, n + 1)
<1> DEFINE z == <<m + 1, n + 1>>
<1>1. PICK s \in Match(a, b, m, n) : Cardinality(s) = Most(a, b, m, n)
    BY MostIs DEF IsMost
<1>2. s \subseteq (1..m) \X (1..n)
    BY DEF Match
<1>3. \A p \in s : p[1] \in 1..m /\ p[2] \in 1..n /\ p[1] < m + 1 /\ p[2] < n + 1
    BY <1>2
<1>4. z \notin s
    BY <1>3
<1>5. s \cup {z} \in Match(a, b, m + 1, n + 1)
    <2>1. s \cup {z} \subseteq (1..(m + 1)) \X (1..(n + 1))
        <3>1. z \in (1..(m + 1)) \X (1..(n + 1))
            OBVIOUS
        <3>2. (1..m) \X (1..n) \subseteq (1..(m + 1)) \X (1..(n + 1))
            OBVIOUS
        <3> QED BY <1>2, <3>1, <3>2
    <2>2. \A p \in s \cup {z} : a[p[1]] = b[p[2]]
        BY DEF Match
    <2>3. ASSUME NEW p \in s \cup {z}, NEW q \in s \cup {z}, p # q
          PROVE  (p[1] < q[1] /\ p[2] < q[2]) \/ (q[1] < p[1] /\ q[2] < p[2])
        <3>1. CASE p \in s /\ q \in s
            BY <2>3, <3>1 DEF Match
        <3>2. CASE p = z /\ q \in s
            BY <1>3, <3>2
        <3>3. CASE p \in s /\ q = z
            BY <1>3, <3>3
        <3> QED BY <2>3, <3>1, <3>2, <3>3
    <2> QED BY <2>1, <2>2, <2>3 DEF Match
<1>6. Cardinality(s \cup {z}) = Cardinality(s) + 1
    <2>1. IsFiniteSet(s)
        BY MatchFinite
    <2> QED BY <2>1, <1>4, FS_AddElement
<1>7. m + 1 \in Nat /\ n + 1 \in Nat
    OBVIOUS
<1>8. Cardinality(s \cup {z}) <= Most(a, b, m + 1, n + 1)
    BY <1>5, <1>7, MostIs DEF IsMost
<1> QED BY <1>1, <1>6, <1>8

(* If two texts have the most words in common, the last ones are in common *)
(* or one of them is not needed.                                           *)
LEMMA MostWithout ==
    ASSUME NEW a, NEW b, NEW m \in Nat, NEW n \in Nat
    PROVE  \/ Most(a, b, m + 1, n + 1) <= Most(a, b, m, n + 1)
           \/ Most(a, b, m + 1, n + 1) <= Most(a, b, m + 1, n)
           \/ a[m + 1] = b[n + 1] /\ Most(a, b, m + 1, n + 1) <= Most(a, b, m, n) + 1
<1> DEFINE z == <<m + 1, n + 1>>
<1>0. m + 1 \in Nat /\ n + 1 \in Nat
    OBVIOUS
<1>1. PICK s \in Match(a, b, m + 1, n + 1) : Cardinality(s) = Most(a, b, m + 1, n + 1)
    BY <1>0, MostIs DEF IsMost
<1>2. s \subseteq (1..(m + 1)) \X (1..(n + 1))
    BY DEF Match
<1>3. /\ \A p \in s : a[p[1]] = b[p[2]]
      /\ \A p, q \in s : p # q => (p[1] < q[1] /\ p[2] < q[2]) \/ (q[1] < p[1] /\ q[2] < p[2])
    BY DEF Match
<1>4. \A p \in s : p[1] \in 1..(m + 1) /\ p[2] \in 1..(n + 1) /\ p = <<p[1], p[2]>>
    BY <1>2
<1>5. CASE \A p \in s : p[1] # m + 1
    <2>1. \A p \in s : p[1] \in 1..m /\ p[2] \in 1..(n + 1)
        BY <1>4, <1>5
    <2>2. s \subseteq (1..m) \X (1..(n + 1))
        BY <1>4, <2>1
    <2>3. s \in Match(a, b, m, n + 1)
        BY <1>3, <2>2 DEF Match
    <2> QED BY <2>3, <1>0, <1>1, MostIs DEF IsMost
<1>6. CASE \A p \in s : p[2] # n + 1
    <2>1. \A p \in s : p[1] \in 1..(m + 1) /\ p[2] \in 1..n
        BY <1>4, <1>6
    <2>2. s \subseteq (1..(m + 1)) \X (1..n)
        BY <1>4, <2>1
    <2>3. s \in Match(a, b, m + 1, n)
        BY <1>3, <2>2 DEF Match
    <2> QED BY <2>3, <1>0, <1>1, MostIs DEF IsMost
<1>7. CASE (\E p \in s : p[1] = m + 1) /\ (\E p \in s : p[2] = n + 1)
    <2>1. PICK p \in s : p[1] = m + 1
        BY <1>7
    <2>2. PICK q \in s : q[2] = n + 1
        BY <1>7
    <2>3. p = q
        <3> SUFFICES ASSUME p # q PROVE FALSE
            OBVIOUS
        <3>1. (p[1] < q[1] /\ p[2] < q[2]) \/ (q[1] < p[1] /\ q[2] < p[2])
            BY <1>3
        <3>2. q[1] \in 1..(m + 1) /\ p[2] \in 1..(n + 1)
            BY <1>4
        <3> QED BY <3>1, <3>2, <2>1, <2>2
    <2>4. p = z /\ z \in s
        BY <1>4, <2>1, <2>2, <2>3
    <2>5. a[m + 1] = b[n + 1]
        BY <1>3, <2>1, <2>2, <2>3
    <2>6. s \ {z} \in Match(a, b, m, n)
        <3>1. ASSUME NEW r \in s \ {z} PROVE r[1] \in 1..m /\ r[2] \in 1..n
            <4>1. (r[1] < p[1] /\ r[2] < p[2]) \/ (p[1] < r[1] /\ p[2] < r[2])
                BY <1>3, <2>4
            <4>2. r[1] \in 1..(m + 1) /\ r[2] \in 1..(n + 1)
                BY <1>4
            <4>3. p[1] = m + 1 /\ p[2] = n + 1
                BY <2>1, <2>2, <2>3
            <4> QED BY <4>1, <4>2, <4>3
        <3>2. s \ {z} \subseteq (1..m) \X (1..n)
            BY <1>4, <3>1
        <3> QED BY <1>3, <3>2 DEF Match
    <2>7. Cardinality(s \ {z}) = Cardinality(s) - 1
        <3>1. IsFiniteSet(s)
            BY <1>0, MatchFinite
        <3> QED BY <2>4, <3>1, FS_RemoveElement
    <2>8. Cardinality(s \ {z}) <= Most(a, b, m, n)
        BY <2>6, MostIs DEF IsMost
    <2>9. Most(a, b, m, n) \in Nat /\ Most(a, b, m + 1, n + 1) \in Nat
        BY <1>0, MostIs
    <2> QED BY <2>5, <2>7, <2>8, <2>9, <1>1
<1> QED BY <1>5, <1>6, <1>7

(* One cell of the matrix of edit(), from the three before it.             *)
LEMMA CellIs ==
    ASSUME NEW a, NEW b, NEW m \in Nat, NEW n \in Nat
    PROVE  LET D(x, y) == x + y - 2 * Most(a, b, x, y)
           IN  D(m + 1, n + 1)
                 = Least(Least(D(m + 1, n) + 1, D(m, n + 1) + 1),
                         D(m, n) + IF a[m + 1] = b[n + 1] THEN 0 ELSE 2)
<1>0. m + 1 \in Nat /\ n + 1 \in Nat /\ m <= m + 1 /\ n <= n + 1
    OBVIOUS
<1>1. PICK u \in Nat, v \in Nat, w \in Nat, x \in Nat :
          /\ u = Most(a, b, m + 1, n + 1) /\ v = Most(a, b, m + 1, n)
          /\ w = Most(a, b, m, n + 1) /\ x = Most(a, b, m, n)
    BY <1>0, MostIs
<1>2. v <= u /\ w <= u /\ x <= u
    BY <1>0, <1>1, MostGrows
<1>3. a[m + 1] = b[n + 1] => x + 1 <= u
    BY <1>1, MostWithLast
<1>4. u <= w \/ u <= v \/ (a[m + 1] = b[n + 1] /\ u <= x + 1)
    BY <1>1, MostWithout
<1>5. (m + 1) + (n + 1) - 2 * u
         = Least(Least((m + 1) + n - 2 * v + 1, m + (n + 1) - 2 * w + 1),
                 m + n - 2 * x + IF a[m + 1] = b[n + 1] THEN 0 ELSE 2)
    <2>1. CASE a[m + 1] = b[n + 1]
        BY <1>2, <1>3, <1>4, <2>1 DEF Least
    <2>2. CASE a[m + 1] # b[n + 1]
        BY <1>2, <1>4, <2>2 DEF Least
    <2> QED BY <2>1, <2>2
<1> QED BY <1>1, <1>5

(* The matrix of edit() holds, in every cell, the words of both texts that *)
(* are not in common.                                                      *)
LEMMA EditIs ==
    ASSUME NEW a, NEW b, Len(a) \in Nat, Len(b) \in Nat
    PROVE  edit(a, b) = Len(a) + Len(b) - 2 * Most(a, b, Len(a), Len(b))
<1> DEFINE C == (0..Len(a)) \X (0..Len(b))
           ptr[c \in (0..Len(a)) \X (0..Len(b))] ==
             IF c[1] = 0 THEN c[2] ELSE IF c[2] = 0 THEN c[1]
             ELSE Least(Least(ptr[<<c[1], c[2] - 1>>] + 1, ptr[<<c[1] - 1, c[2]>>] + 1),
                        ptr[<<c[1] - 1, c[2] - 1>>] + IF a[c[1]] = b[c[2]] THEN 0 ELSE 2)
           g == [c \in C |-> c[1] + c[2] - 2 * Most(a, b, c[1], c[2])]
<1>1. edit(a, b) = ptr[<<Len(a), Len(b)>>]
    BY DEF edit
<1>2. ASSUME NEW c \in C
      PROVE  g[c] = IF c[1] = 0 THEN c[2] ELSE IF c[2] = 0 THEN c[1]
                    ELSE Least(Least(g[<<c[1], c[2] - 1>>] + 1, g[<<c[1] - 1, c[2]>>] + 1),
                               g[<<c[1] - 1, c[2] - 1>>] + IF a[c[1]] = b[c[2]] THEN 0 ELSE 2)
    <2>1. PICK x \in 0..Len(a), y \in 0..Len(b) : c = <<x, y>>
        OBVIOUS
    <2>2. x \in Nat /\ y \in Nat /\ c[1] = x /\ c[2] = y
        BY <2>1
    <2>3. g[c] = x + y - 2 * Most(a, b, x, y)
        BY <2>2
    <2>4. CASE x = 0 \/ y = 0
        <3>1. Most(a, b, x, y) = 0
            BY <2>2, <2>4, MostOfNone
        <3> QED BY <2>2, <2>3, <2>4, <3>1
    <2>5. CASE x # 0 /\ y # 0
        <3>1. PICK m \in Nat, n \in Nat : m = x - 1 /\ n = y - 1
            BY <2>2, <2>5
        <3>2. m + 1 = x /\ n + 1 = y
            BY <2>2, <3>1
        <3>3. /\ <<x, n>> \in C /\ <<m, y>> \in C /\ <<m, n>> \in C
            BY <2>2, <3>1
        <3>4. /\ g[<<x, n>>] = x + n - 2 * Most(a, b, x, n)
              /\ g[<<m, y>>] = m + y - 2 * Most(a, b, m, y)
              /\ g[<<m, n>>] = m + n - 2 * Most(a, b, m, n)
            BY <3>3
        <3> HIDE DEF g, C
        <3>5. x + y - 2 * Most(a, b, x, y)
                = Least(Least(x + n - 2 * Most(a, b, x, n) + 1, m + y - 2 * Most(a, b, m, y) + 1),
                        m + n - 2 * Most(a, b, m, n) + IF a[x] = b[y] THEN 0 ELSE 2)
            <4>1. (m + 1) + (n + 1) - 2 * Most(a, b, m + 1, n + 1)
                    = Least(Least((m + 1) + n - 2 * Most(a, b, m + 1, n) + 1,
                                  m + (n + 1) - 2 * Most(a, b, m, n + 1) + 1),
                            m + n - 2 * Most(a, b, m, n) + IF a[m + 1] = b[n + 1] THEN 0 ELSE 2)
                BY CellIs
            <4> QED BY <3>2, <4>1
        <3> QED BY <2>2, <2>3, <2>5, <3>1, <3>4, <3>5
    <2> QED BY <2>4, <2>5
<1>3. g = [c \in C |-> IF c[1] = 0 THEN c[2] ELSE IF c[2] = 0 THEN c[1]
                       ELSE Least(Least(g[<<c[1], c[2] - 1>>] + 1, g[<<c[1] - 1, c[2]>>] + 1),
                                  g[<<c[1] - 1, c[2] - 1>>] + IF a[c[1]] = b[c[2]] THEN 0 ELSE 2)]
    <2> DEFINE H(f) == [c \in C |-> IF c[1] = 0 THEN c[2] ELSE IF c[2] = 0 THEN c[1]
                       ELSE Least(Least(f[<<c[1], c[2] - 1>>] + 1, f[<<c[1] - 1, c[2]>>] + 1),
                                  f[<<c[1] - 1, c[2] - 1>>] + IF a[c[1]] = b[c[2]] THEN 0 ELSE 2)]
    <2>1. DOMAIN g = C /\ DOMAIN H(g) = C /\ g = [c \in C |-> g[c]]
        OBVIOUS
    <2> HIDE DEF g, C
    <2>2. \A c \in C : g[c] = H(g)[c]
        BY <1>2
    <2>3. H(g) = [c \in C |-> H(g)[c]]
        OBVIOUS
    <2> HIDE DEF H
    <2>4. g = H(g)
        BY <2>1, <2>2, <2>3
    <2> QED BY <2>4 DEF H
<1>4. ptr = [c \in C |-> IF c[1] = 0 THEN c[2] ELSE IF c[2] = 0 THEN c[1]
                       ELSE Least(Least(ptr[<<c[1], c[2] - 1>>] + 1, ptr[<<c[1] - 1, c[2]>>] + 1),
                                  ptr[<<c[1] - 1, c[2] - 1>>] + IF a[c[1]] = b[c[2]] THEN 0 ELSE 2)]
    <2> HIDE DEF g
    <2> QED BY <1>3, Zenon
<1> HIDE DEF ptr
<1>5. \A c \in C : ptr[c] = g[c]
    <2> DEFINE Bad == {k \in Nat : \E c \in C : c[1] + c[2] = k /\ ptr[c] # g[c]}
    <2> SUFFICES ASSUME NEW d \in C, ptr[d] # g[d] PROVE FALSE
        OBVIOUS
    <2>1. d[1] + d[2] \in Bad
        <3>1. d[1] + d[2] \in Nat
            OBVIOUS
        <3> HIDE DEF g, C
        <3> QED BY <3>1
    <2>2. PICK k \in Bad : \A j \in Bad : k <= j
        BY <2>1, LeastNumber
    <2>3. PICK c \in C : c[1] + c[2] = k /\ ptr[c] # g[c]
        OBVIOUS
    <2>4. PICK x \in 0..Len(a), y \in 0..Len(b) : c = <<x, y>>
        OBVIOUS
    <2>5. x \in Nat /\ y \in Nat /\ c[1] = x /\ c[2] = y /\ k = x + y
        BY <2>3, <2>4
    <2>6. ASSUME NEW e \in C, e[1] + e[2] < k PROVE ptr[e] = g[e]
        <3>1. e[1] + e[2] \in Nat /\ k \in Nat
            BY <2>5
        <3>2. e[1] + e[2] \notin Bad
            <4> HIDE DEF Bad
            <4> QED BY <2>2, <2>6, <3>1
        <3> HIDE DEF g, C
        <3> QED BY <3>1, <3>2
    <2>7. CASE x = 0 \/ y = 0
        <3> HIDE DEF g, C
        <3>1. ptr[c] = IF c[1] = 0 THEN c[2] ELSE c[1]
            BY <1>4, <2>5, <2>7
        <3>2. g[c] = IF c[1] = 0 THEN c[2] ELSE c[1]
            BY <1>2, <2>5, <2>7
        <3> QED BY <2>3, <3>1, <3>2
    <2>8. CASE x # 0 /\ y # 0
        <3>1. <<x, y - 1>> \in C /\ <<x - 1, y>> \in C /\ <<x - 1, y - 1>> \in C
            BY <2>5, <2>8
        <3>2. x + (y - 1) < k /\ (x - 1) + y < k /\ (x - 1) + (y - 1) < k
            BY <2>5
        <3> HIDE DEF g, C
        <3>3. /\ ptr[<<x, y - 1>>] = g[<<x, y - 1>>] /\ ptr[<<x - 1, y>>] = g[<<x - 1, y>>]
              /\ ptr[<<x - 1, y - 1>>] = g[<<x - 1, y - 1>>]
            BY <2>6, <3>1, <3>2
        <3>4. ptr[c] = Least(Least(ptr[<<x, y - 1>>] + 1, ptr[<<x - 1, y>>] + 1),
                             ptr[<<x - 1, y - 1>>] + IF a[x] = b[y] THEN 0 ELSE 2)
            BY <1>4, <2>5, <2>8
        <3>5. g[c] = Least(Least(g[<<x, y - 1>>] + 1, g[<<x - 1, y>>] + 1),
                           g[<<x - 1, y - 1>>] + IF a[x] = b[y] THEN 0 ELSE 2)
            BY <1>2, <2>5, <2>8
        <3> QED BY <2>3, <3>3, <3>4, <3>5
    <2> QED BY <2>7, <2>8
<1>6. <<Len(a), Len(b)>> \in C
    OBVIOUS
<1> QED BY <1>1, <1>5, <1>6

(* EditDist::edit() is the distance by common subsequences: the words that *)
(* two texts do not have in common in the same order, for texts of any     *)
(* length.                                                                 *)
THEOREM EditIsDistance ==
    ASSUME NEW a, NEW b, Len(a) \in Nat, Len(b) \in Nat
    PROVE  edit(a, b) = Distance(a, b)
<1> DEFINE l == Most(a, b, Len(a), Len(b))
           most == CHOOSE m \in Common(a, b) :
                      \A n \in Common(a, b) : Cardinality(n) <= Cardinality(m)
<1>1. Common(a, b) = Match(a, b, Len(a), Len(b))
    BY DEF Common, Match
<1>2. l \in Nat /\ IsMost(a, b, Len(a), Len(b), l)
    BY MostIs
<1>3. PICK s \in Common(a, b) : Cardinality(s) = l
    BY <1>1, <1>2 DEF IsMost
<1>4. \A n \in Common(a, b) : Cardinality(n) <= l
    BY <1>1, <1>2 DEF IsMost
<1>5. most \in Common(a, b) /\ \A n \in Common(a, b) : Cardinality(n) <= Cardinality(most)
    BY <1>3, <1>4
<1> HIDE DEF most
<1>6. Cardinality(most) = l
    <2>1. Cardinality(most) \in Nat
        BY <1>1, <1>5, MatchFinite
    <2>2. Cardinality(most) <= l /\ l <= Cardinality(most)
        BY <1>3, <1>4, <1>5
    <2> QED BY <2>1, <2>2, <1>2
<1>7. Distance(a, b) = Len(a) + Len(b) - 2 * Cardinality(most)
    BY DEF Distance, most
<1> QED BY <1>6, <1>7, EditIs

-----------------------------------------------------------------------------
\* The lists hold the documents with their words; no document is empty.
HitInv ==
    /\ \A w \in Words, d \in DOMAIN text :
          (\E k \in DOMAIN inv[w] : inv[w][k] = d) <=> w \in RangeOf(text[d])
    /\ \A d \in DOMAIN text : text[d] # <<>>

\* CDlgLogIndex wants every word of the query in the document.
Full(d) == log => RangeOf(parts) \subseteq RangeOf(text[d])

\* How far along the shortest list the searches in the list of word t are.
Reached(t) == IF pc # "union" /\ t < term THEN i ELSE i - 1

\* The result so far: the documents wanted of those before entry i.
DocsInv ==
    \A d : d \in RangeOf(docs) <=> \E j \in 1..(i - 1) : List(min_index)[j] = d /\ Full(d)

\* A search starts behind no entry of a document yet to come.
BeginsInv ==
    \A t \in DOMAIN parts : \A k \in DOMAIN List(t) :
        k < index_begins[t] => \E j \in 1..Reached(t) : List(t)[k] <= List(min_index)[j]

\* CDlgLogIndex has found the words before term in the document.
WordsInv == pc # "union" /\ log => \A t \in 1..(term - 1) : parts[t] \in RangeOf(text[doc_id])

\* A union in hand.
UnionInv ==
    /\ Len(parts) >= IF log THEN 2 ELSE 1
    /\ i >= 1 /\ i <= inv_num + (IF pc = "union" THEN 1 ELSE 0)
    /\ DocsInv /\ BeginsInv /\ WordsInv

\* What is listed in m.
ListedIn(m) == UNION {RangeOf(m[d]) : d \in DOMAIN m}

\* The texts of cadidate_sort: each is listed once, under its distance.
ListedOnce(p, m) ==
    \A d \in DOMAIN m :
        /\ m[d] \in Seq(Texts)
        /\ \A j \in DOMAIN m[d] : d = Calculate(p, m[d][j])
        /\ \A j, k \in DOMAIN m[d] : m[d][j] = m[d][k] => j = k

\* The documents of log_docs are listed under their weights.
ByWeight(m) ==
    \A v \in DOMAIN m :
        m[v] \in Seq(DOMAIN text) /\ \A j \in DOMAIN m[v] : weight[m[v][j]] = v

\* What is to be listed of the documents S.
Items(S) == IF log THEN {d \in S : weight[d] # NoCity} ELSE {text[d] : d \in S}

\* The ranking in hand: what is wanted is listed or still to come.
SortInv ==
    /\ ListedIn(sort) \cup Items(RangeOf(docs)) = Items(Wanted)
    /\ IF log THEN ByWeight(sort) ELSE ListedOnce(raw, sort)

ResultInv ==
    /\ HitInv
    /\ docs \in Seq(DOMAIN text)
    /\ pc \in {"union", "search", "binary"} => UnionInv
    /\ pc \in {"ready", "union", "search", "binary", "call"} => sort = <<>>
    /\ pc \in {"ready", "show"} => docs = <<>>
    /\ pc \in {"call", "sort", "show"} => SortInv

-----------------------------------------------------------------------------
(***************************************************************************)
(* What a search finds.                                                    *)
(***************************************************************************)
(* GetInvResults() finds a shortest list.                                  *)
LEMMA ShortestIs ==
    ASSUME NEW iv \in [Words -> Seq(1..MaxDocs)], NEW p \in Seq(Words), Len(p) >= 1
    PROVE  ShortestOf(iv, p) \in DOMAIN p
<1> DEFINE n(k) == Len(iv[p[k]])
           T == {n(k) : k \in DOMAIN p}
<1>1. DOMAIN p = 1..Len(p) /\ Len(p) \in Nat
    OBVIOUS
<1>2. \A k \in DOMAIN p : n(k) \in Nat
    <2>1. \A k \in DOMAIN p : p[k] \in Words
        BY <1>1
    <2>2. \A k \in DOMAIN p : iv[p[k]] \in Seq(1..MaxDocs)
        BY <2>1
    <2> QED BY <2>2, LenProperties
<1> HIDE DEF n
<1>3. T \subseteq Nat /\ n(1) \in T
    <2>1. 1 \in DOMAIN p
        BY <1>1
    <2>2. n(1) \in T
        BY <2>1
    <2>3. T \subseteq Nat
        BY <1>2
    <2> QED BY <2>2, <2>3
<1>4. PICK l \in T : \A k \in T : l <= k
    BY <1>3, LeastNumber
<1> DEFINE K == {k \in DOMAIN p : n(k) = l}
<1>5. K \subseteq Nat /\ K # {}
    BY <1>1
<1>6. PICK k \in K : \A m \in K : k <= m
    BY <1>5, LeastNumber
<1>7. k \in DOMAIN p /\ n(k) = l /\ k \in Nat
    BY <1>1
<1>8. \A m \in DOMAIN p : n(k) <= n(m)
    BY <1>4, <1>7
<1>9. ASSUME NEW m \in 1..(k - 1) PROVE n(k) < n(m)
    <2>1. m \in DOMAIN p /\ m < k /\ m \in Nat
        BY <1>1, <1>7
    <2>2. m \notin K
        <3> HIDE DEF K
        <3> QED BY <2>1, <1>6, <1>7
    <2>3. n(m) # l /\ n(k) <= n(m) /\ n(m) \in Nat
        BY <2>1, <2>2, <1>2, <1>8
    <2> QED BY <2>3, <1>2, <1>7
<1>10. \E j \in DOMAIN p : /\ \A m \in DOMAIN p : Len(iv[p[j]]) <= Len(iv[p[m]])
                           /\ \A m \in 1..(j - 1) : Len(iv[p[j]]) < Len(iv[p[m]])
    BY <1>7, <1>8, <1>9 DEF n
<1> QED BY <1>10 DEF ShortestOf

(* The entries of the shortest list are documents, in order.               *)
LEMMA UnionList ==
    ASSUME IndexInv, Len(parts) >= 1
    PROVE  /\ min_index \in DOMAIN parts /\ parts[min_index] \in Words
           /\ List(min_index) \in Seq(1..MaxDocs) /\ inv_num = Len(List(min_index))
           /\ inv_num \in Nat /\ DOMAIN List(min_index) = 1..inv_num
           /\ \A j \in 1..inv_num : List(min_index)[j] \in DOMAIN text
           /\ \A j, k \in 1..inv_num : j < k => List(min_index)[j] <= List(min_index)[k]
<1>1. inv \in [Words -> Seq(1..MaxDocs)] /\ parts \in Seq(Words) /\ text \in Seq(Texts)
    BY DEF IndexInv, ListType, SearchInv
<1>2. min_index \in DOMAIN parts
    BY <1>1, ShortestIs DEF min_index
<1>3. parts[min_index] \in Words
    BY <1>1, <1>2
<1>4. List(min_index) \in Seq(1..MaxDocs)
    BY <1>1, <1>3 DEF List
<1>5. inv_num \in Nat /\ DOMAIN List(min_index) = 1..inv_num
    BY <1>4, LenProperties DEF inv_num
<1>6. ASSUME NEW j \in 1..inv_num PROVE List(min_index)[j] \in DOMAIN text
    <2>1. List(min_index)[j] \in 1..MaxDocs
        BY <1>4, <1>5, ElementOfSeq DEF inv_num
    <2>2. List(min_index)[j] <= Len(text)
        BY <1>3, <1>5 DEF IndexInv, EntryInv, List
    <2> QED BY <1>1, <2>1, <2>2
<1>7. \A j, k \in 1..inv_num : j < k => List(min_index)[j] <= List(min_index)[k]
    BY <1>3, <1>5 DEF IndexInv, ListsOrdered, List
<1> QED BY <1>2, <1>3, <1>4, <1>5, <1>6, <1>7 DEF inv_num

(* What a step of a search leaves as it is.                                *)
LEMMA SameIndex ==
    ASSUME UNCHANGED <<text, inv, log, parts>>
    PROVE  /\ (min_index)' = min_index /\ (inv_num)' = inv_num /\ (Wanted)' = Wanted
           /\ \A t : List(t)' = List(t)
           /\ \A d : Full(d)' <=> Full(d)
           /\ (List(min_index))' = List(min_index)
           /\ HitInv => HitInv'
<1>1. (min_index)' = min_index /\ \A t : List(t)' = List(t)
    BY DEF min_index, List
<1>2. (inv_num)' = inv_num /\ (List(min_index))' = List(min_index)
    BY <1>1 DEF inv_num, List
<1>3. \A d : Full(d)' <=> Full(d)
    BY DEF Full
<1>4. (Wanted)' = Wanted
    BY <1>1 DEF Wanted, Has
<1>5. HitInv => HitInv'
    BY DEF HitInv
<1> QED BY <1>1, <1>2, <1>3, <1>4, <1>5

(* What is listed does not depend on the search.                           *)
LEMMA SameItems ==
    ASSUME UNCHANGED <<text, log, weight>>
    PROVE  /\ \A S : Items(S)' = Items(S)
           /\ \A m : ByWeight(m)' <=> ByWeight(m)
  BY DEF Items, ByWeight

(* An empty list lists nothing.                                            *)
LEMMA NothingListed ==
    ListedIn(<<>>) = {} /\ ByWeight(<<>>) /\ \A p : ListedOnce(p, <<>>)
  BY DEF ListedIn, ByWeight, ListedOnce

(* A word is counted if it is in the text.                                 *)
LEMMA CopiesSome ==
    ASSUME NEW t \in Texts, NEW w \in Words PROVE Copies(w, t) > 0 <=> w \in RangeOf(t)
<1> DEFINE K == {k \in DOMAIN t : t[k] = w}
<1>1. t \in Seq(Words) /\ Len(t) \in Nat /\ DOMAIN t = 1..Len(t)
    BY TextSeq
<1>2. IsFiniteSet(K)
    <2>1. IsFiniteSet(1..Len(t))
        BY <1>1, FS_Interval
    <2> QED BY <1>1, <2>1, FS_Subset
<1>3. Copies(w, t) = Cardinality(K) /\ Cardinality(K) \in Nat
    BY <1>2, FS_CardinalityType DEF Copies
<1>4. Cardinality(K) = 0 <=> K = {}
    BY <1>2, FS_EmptySet
<1>5. K # {} <=> w \in RangeOf(t)
    BY DEF RangeOf
<1> HIDE DEF K
<1> QED BY <1>3, <1>4, <1>5

(* What n more entries x add to a list.                                    *)
LEMMA AppendedHas ==
    ASSUME NEW s \in Seq(1..MaxDocs), NEW n \in Nat, NEW x \in 1..MaxDocs
    PROVE  RangeOf(s \o [k \in 1..n |-> x]) = RangeOf(s) \cup {y \in {x} : n > 0}
<1> DEFINE e == [k \in 1..n |-> x]
           r == s \o e
<1>1. e \in Seq(1..MaxDocs) /\ Len(e) = n /\ \A k \in 1..n : e[k] = x
    OBVIOUS
<1> HIDE DEF e
<1>2. /\ r \in Seq(1..MaxDocs) /\ Len(r) = Len(s) + n /\ Len(s) \in Nat
      /\ \A j \in 1..(Len(s) + n) : r[j] = IF j <= Len(s) THEN s[j] ELSE e[j - Len(s)]
    BY <1>1, ConcatProperties, LenProperties
<1>3. DOMAIN r = 1..(Len(s) + n) /\ DOMAIN s = 1..Len(s)
    BY <1>2, LenProperties
<1> HIDE DEF r
<1> SUFFICES ASSUME NEW d
             PROVE  d \in RangeOf(r) <=> d \in RangeOf(s) \/ (n > 0 /\ d = x)
    BY DEF r, e
<1>4. ASSUME NEW k \in DOMAIN r, r[k] = d
      PROVE  (\E j \in DOMAIN s : s[j] = d) \/ (n > 0 /\ d = x)
    <2>1. CASE k <= Len(s)
        <3>1. k \in DOMAIN s /\ s[k] = d
            BY <1>2, <1>3, <1>4, <2>1
        <3> QED BY <3>1
    <2>2. CASE ~(k <= Len(s))
        <3>1. k - Len(s) \in 1..n /\ r[k] = e[k - Len(s)]
            BY <1>2, <1>3, <2>2
        <3>2. PICK m \in 1..n : m = k - Len(s)
            BY <3>1
        <3>3. e[m] = x /\ r[k] = e[m] /\ n > 0
            BY <3>1, <3>2, <1>1
        <3> QED BY <3>3, <1>4
    <2> QED BY <2>1, <2>2
<1>5. ASSUME NEW j \in DOMAIN s, s[j] = d PROVE \E k \in DOMAIN r : r[k] = d
    <2>1. j \in DOMAIN r /\ r[j] = s[j]
        BY <1>2, <1>3
    <2> QED BY <2>1, <1>5
<1>6. ASSUME n > 0, d = x PROVE \E k \in DOMAIN r : r[k] = d
    <2>1. Len(s) + 1 \in DOMAIN r /\ Len(s) + 1 - Len(s) = 1 /\ ~(Len(s) + 1 <= Len(s))
        BY <1>2, <1>3, <1>6
    <2>2. r[Len(s) + 1] = e[1] /\ 1 \in 1..n
        BY <2>1, <1>2, <1>3, <1>6
    <2> QED BY <2>1, <2>2, <1>1, <1>6
<1>7. (\E k \in DOMAIN r : r[k] = d) <=> (\E k \in DOMAIN s : s[k] = d) \/ (n > 0 /\ d = x)
    BY <1>4, <1>5, <1>6
<1> QED BY <1>7 DEF RangeOf

(* CommonIndex::Add() enters a document for every word it has.             *)
LEMMA AddHits ==
    ASSUME IndexInv, HitInv, NEW t \in Texts, NEW c \in Weights \cup {0, NoCity}, Add(t, c)
    PROVE  HitInv'
<1>1. PICK x \in 1..MaxDocs : x = Len(text) + 1
    BY IndexAssumption DEF IndexInv, ListType, Add
<1>2. /\ text \in Seq(Texts) /\ Len(text) \in Nat /\ DOMAIN text = 1..Len(text)
      /\ inv \in [Words -> Seq(1..MaxDocs)]
    BY DEF IndexInv, ListType
<1>3. /\ text' = Append(text, t) /\ t # <<>>
      /\ inv' = [w \in Words |-> inv[w] \o [k \in 1..Copies(w, t) |-> x]]
    BY <1>1 DEF Add
<1>4. /\ DOMAIN text' = 1..x /\ text'[x] = t
      /\ \A d \in 1..x : d # x => d \in DOMAIN text /\ text'[d] = text[d]
    BY <1>1, <1>2, <1>3
<1>5. ASSUME NEW w \in Words, NEW d \in 1..x
      PROVE  (\E k \in DOMAIN inv'[w] : inv'[w][k] = d) <=> w \in RangeOf(text'[d])
    <2>1. PICK n \in Nat : n = Copies(w, t)
        BY CopiesNat
    <2>2. inv[w] \in Seq(1..MaxDocs) /\ inv'[w] = inv[w] \o [k \in 1..n |-> x]
        BY <1>2, <1>3, <2>1
    <2>3. (\E k \in DOMAIN inv'[w] : inv'[w][k] = d)
             <=> (\E k \in DOMAIN inv[w] : inv[w][k] = d) \/ (n > 0 /\ d = x)
        <3>1. PICK s \in Seq(1..MaxDocs) : s = inv[w]
            BY <2>2
        <3>2. inv'[w] = s \o [k \in 1..n |-> x]
            BY <3>1, <2>2
        <3>3. RangeOf(s \o [k \in 1..n |-> x]) = RangeOf(s) \cup {y \in {x} : n > 0}
            BY AppendedHas
        <3>4. RangeOf(inv'[w]) = RangeOf(inv[w]) \cup {y \in {x} : n > 0}
            BY <3>1, <3>2, <3>3
        <3> QED BY <3>4 DEF RangeOf
    <2>4. CASE d = x
        <3>1. ~ \E k \in DOMAIN inv[w] : inv[w][k] = d
            <4>1. \A k \in DOMAIN inv[w] : inv[w][k] <= Len(text)
                BY DEF IndexInv, EntryInv
            <4> QED BY <4>1, <2>4, <1>1, <1>2
        <3>2. n > 0 <=> w \in RangeOf(t)
            BY <2>1, CopiesSome
        <3> QED BY <3>1, <3>2, <2>3, <2>4, <1>4
    <2>5. CASE d # x
        <3>1. d \in DOMAIN text /\ text'[d] = text[d]
            BY <2>5, <1>4
        <3>2. (\E k \in DOMAIN inv[w] : inv[w][k] = d) <=> w \in RangeOf(text[d])
            BY <3>1 DEF HitInv
        <3> QED BY <3>1, <3>2, <2>3, <2>5
    <2> QED BY <2>4, <2>5
<1>6. ASSUME NEW d \in 1..x PROVE text'[d] # <<>>
    <2>1. CASE d = x
        BY <2>1, <1>3, <1>4
    <2>2. CASE d # x
        BY <2>2, <1>4 DEF HitInv
    <2> QED BY <2>1, <2>2
<1>7. /\ \A w \in Words, d \in DOMAIN text' :
            (\E k \in DOMAIN inv'[w] : inv'[w][k] = d) <=> w \in RangeOf(text'[d])
      /\ \A d \in DOMAIN text' : text'[d] # <<>>
    BY <1>4, <1>5, <1>6
<1>8. \A d : RangeOf(text[d])' = RangeOf(text'[d])
    BY DEF RangeOf
<1> QED BY <1>7, <1>8 DEF HitInv

(* Making the index and taking a query.                                    *)
LEMMA AddRes ==
    ASSUME IndexInv, ResultInv, NEW t \in Texts, NEW c \in Weights \cup {0, NoCity}, Add(t, c)
    PROVE  ResultInv'
<1>1. HitInv'
    BY AddHits DEF ResultInv
<1>2. pc' = "ready" /\ docs' = <<>> /\ sort' = <<>>
    BY DEF Add, ResultInv
<1>3. docs' \in Seq(DOMAIN text')
    BY <1>2
<1> QED BY <1>1, <1>2, <1>3 DEF ResultInv

(* The first entry, by arithmetic alone.                                   *)
LEMMA UnionStart == 1 >= 1 /\ \A n \in Nat : 1 <= n + 1
    OBVIOUS

(* GetUnionResults() starts with no document and with every list unread;   *)
(* a query with too few words wants nothing.                               *)
LEMMA QueryRes ==
    ASSUME IndexInv, ResultInv, log \in BOOLEAN, NEW q \in Texts, GetUnionResults(q)
    PROVE  ResultInv'
<1>1. /\ pc = "ready" /\ log' = log /\ parts' = q /\ i' = 1
      /\ index_begins' = [k \in DOMAIN q |-> 1]
      /\ text' = text /\ inv' = inv /\ docs' = <<>> /\ sort' = <<>>
      /\ IF Len(q) >= (IF log THEN 2 ELSE 1) THEN pc' = "union"
         ELSE pc' = IF log THEN "sort" ELSE "call"
    BY DEF GetUnionResults, indexVars, ResultInv
<1>2. HitInv' /\ docs' \in Seq(DOMAIN text')
    BY <1>1 DEF ResultInv, HitInv
<1>3. inv \in [Words -> Seq(1..MaxDocs)] /\ q \in Seq(Words) /\ Len(q) \in Nat
    BY TextSeq, LenProperties DEF IndexInv, ListType
<1>4. \A t \in DOMAIN q : inv[q[t]] \in Seq(1..MaxDocs)
    BY <1>3
<1>5. \A x : x \notin RangeOf(<<>>)
    BY DEF RangeOf
<1>6. CASE pc' \in {"call", "sort"}
    <2>1. Len(q) < (IF log THEN 2 ELSE 1)
        BY <1>1, <1>3, <1>6
    <2>2. (Wanted)' = {}
        BY <1>1, <2>1 DEF Wanted
    <2>3. \A S : S = {} => Items(S)' = {}
        BY DEF Items
    <2>4. ListedIn(sort)' = {} /\ RangeOf(docs)' = {}
        BY <1>1, <1>5, NothingListed DEF ListedIn
    <2>5. ByWeight(sort)' /\ ListedOnce(raw, sort)'
        BY <1>1, NothingListed DEF ByWeight, ListedOnce
    <2>6. SortInv'
        BY <2>2, <2>3, <2>4, <2>5 DEF SortInv
    <2> QED BY <1>1, <1>2, <1>6, <2>6 DEF ResultInv
<1>7. CASE pc' = "union"
    <2>1. Len(q) >= (IF log THEN 2 ELSE 1) /\ Len(q) >= 1
        BY <1>1, <1>3, <1>7
    <2>2. ShortestOf(inv, q) \in DOMAIN q
        BY <1>3, <2>1, ShortestIs
    <2>3. (inv_num)' = Len(inv[q[ShortestOf(inv, q)]])
        BY <1>1 DEF inv_num, min_index, List
    <2>4. (inv_num)' \in Nat
        BY <2>2, <2>3, <1>4, LenProperties
    <2>5. DocsInv'
        BY <1>1, <1>5 DEF DocsInv
    <2>6. BeginsInv'
        <3>1. ASSUME NEW t \in DOMAIN q, NEW k \in DOMAIN inv[q[t]] PROVE ~(k < index_begins'[t])
            <4>1. k \in 1..Len(inv[q[t]]) /\ index_begins'[t] = 1
                BY <1>1, <1>4, LenProperties
            <4> QED BY <4>1
        <3>2. \A t : List(t)' = inv[q[t]]
            BY <1>1 DEF List
        <3> QED BY <3>1, <3>2, <1>1 DEF BeginsInv
    <2>7. WordsInv'
        BY <1>7 DEF WordsInv
    <2>8. UnionInv'
        <3>1. Len(parts') >= IF log' THEN 2 ELSE 1
            <4>1. parts' = q /\ log' = log
                BY <1>1
            <4> QED BY <2>1, <4>1, Zenon
        <3>2. i' >= 1 /\ i' <= (inv_num)' + (IF pc' = "union" THEN 1 ELSE 0)
            <4>1. i' = 1
                BY <1>1
            <4> QED BY <1>7, <2>4, <4>1, UnionStart, Zenon
        <3> QED BY <3>1, <3>2, <2>5, <2>6, <2>7 DEF UnionInv
    <2> QED BY <1>1, <1>2, <1>7, <2>8 DEF ResultInv
<1> QED BY <1>1, <1>6, <1>7

(* The documents of the shortest list are the ones wanted.                 *)
LEMMA UnionIsWanted ==
    ASSUME IndexInv, HitInv, Len(parts) >= IF log THEN 2 ELSE 1, log \in BOOLEAN, NEW d
    PROVE  (\E j \in 1..inv_num : List(min_index)[j] = d /\ Full(d)) <=> d \in Wanted
<1>0. Len(parts) \in Nat /\ Len(parts) >= 1 /\ parts \in Seq(Words)
    BY LenProperties DEF IndexInv, SearchInv
<1>1. /\ min_index \in DOMAIN parts /\ parts[min_index] \in Words
      /\ DOMAIN List(min_index) = 1..inv_num
      /\ \A j \in 1..inv_num : List(min_index)[j] \in DOMAIN text
    BY <1>0, UnionList
<1>2. (\E j \in 1..inv_num : List(min_index)[j] = d)
         <=> d \in DOMAIN text /\ parts[min_index] \in RangeOf(text[d])
    <2>1. CASE d \in DOMAIN text
        <3>1. (\E k \in DOMAIN inv[parts[min_index]] : inv[parts[min_index]][k] = d)
                 <=> parts[min_index] \in RangeOf(text[d])
            BY <2>1, <1>1 DEF HitInv
        <3> QED BY <3>1, <2>1, <1>1 DEF List
    <2>2. CASE d \notin DOMAIN text
        BY <2>2, <1>1
    <2> QED BY <2>1, <2>2
<1>3. parts[min_index] \in RangeOf(parts)
    BY <1>1 DEF RangeOf
<1>4. Wanted = IF log THEN {x \in DOMAIN text : RangeOf(parts) \subseteq RangeOf(text[x])}
               ELSE Has(parts[min_index])
    BY <1>0 DEF Wanted
<1>5. CASE log
    BY <1>2, <1>3, <1>4, <1>5 DEF Full
<1>6. CASE ~log
    BY <1>2, <1>4, <1>6 DEF Full, Has
<1> QED BY <1>5, <1>6

(* UnionInvResult() ends with the documents wanted, neither more nor less. *)
LEMMA UnionRes ==
    ASSUME IndexInv, ResultInv, i \in Nat, log \in BOOLEAN, UnionInvResult PROVE ResultInv'
<1>1. /\ pc = "union" /\ UNCHANGED <<text, inv, log, weight, parts, raw, i, index_begins, docs, sort>>
      /\ \/ i <= inv_num /\ pc' = "search" /\ term' = 1
         \/ i > inv_num /\ pc' \in {"call", "sort"}
    BY DEF UnionInvResult, indexVars
<1>2. UnionInv /\ HitInv /\ docs \in Seq(DOMAIN text) /\ sort = <<>>
    BY <1>1 DEF ResultInv
<1>3. /\ (min_index)' = min_index /\ (inv_num)' = inv_num /\ (Wanted)' = Wanted
      /\ \A t : List(t)' = List(t)
      /\ \A d : Full(d)' <=> Full(d)
      /\ (List(min_index))' = List(min_index)
      /\ HitInv'
    BY <1>1, <1>2, SameIndex
<1>4. Len(parts) \in Nat /\ Len(parts) >= 1 /\ DOMAIN parts = 1..Len(parts)
    BY <1>2, LenProperties DEF UnionInv, IndexInv, SearchInv
<1>5. inv_num \in Nat /\ \A j \in 1..inv_num : List(min_index)[j] \in DOMAIN text
    BY <1>4, UnionList
<1>6. CASE pc' = "search"
    <2>1. i <= inv_num /\ term' = 1
        BY <1>1, <1>6
    <2>2. DocsInv'
        BY <1>1, <1>2, <1>3 DEF UnionInv, DocsInv
    <2>3. \A t \in DOMAIN parts : Reached(t)' = Reached(t)
        BY <1>1, <1>4, <2>1 DEF Reached
    <2>4. BeginsInv'
        BY <1>1, <1>2, <1>3, <2>3 DEF UnionInv, BeginsInv
    <2>5. WordsInv'
        BY <2>1 DEF WordsInv
    <2>6. i >= 1 /\ Len(parts) >= IF log THEN 2 ELSE 1
        BY <1>2 DEF UnionInv
    <2>7. UnionInv'
        BY <1>1, <1>3, <1>5, <1>6, <2>1, <2>2, <2>4, <2>5, <2>6 DEF UnionInv
    <2> QED BY <1>1, <1>2, <1>3, <1>6, <2>7 DEF ResultInv
<1>7. CASE pc' \in {"call", "sort"}
    <2>1. i - 1 = inv_num
        BY <1>1, <1>2, <1>5, <1>7 DEF UnionInv
    <2>2. Len(parts) >= IF log THEN 2 ELSE 1
        BY <1>2 DEF UnionInv
    <2>3. \A d : d \in RangeOf(docs) <=> \E j \in 1..inv_num : List(min_index)[j] = d /\ Full(d)
        BY <1>2, <2>1 DEF UnionInv, DocsInv
    <2>4. \A d : d \in RangeOf(docs) <=> d \in Wanted
        BY <1>2, <2>2, <2>3, UnionIsWanted
    <2>5. RangeOf(docs) = Wanted
        BY <2>4
    <2>6. RangeOf(docs)' = Wanted /\ \A S : Items(S)' = Items(S)
        BY <1>1, <2>5, SameItems DEF RangeOf
    <2>7. ListedIn(sort)' = {} /\ ByWeight(sort)' /\ ListedOnce(raw, sort)'
        BY <1>1, <1>2, NothingListed DEF ListedIn, ByWeight, ListedOnce
    <2>8. SortInv'
        BY <1>3, <2>6, <2>7 DEF SortInv
    <2> QED BY <1>1, <1>2, <1>3, <1>7, <2>8 DEF ResultInv
<1> QED BY <1>1, <1>6, <1>7

(* What a step within a union knows.                                       *)
LEMMA InUnion ==
    ASSUME IndexInv, ResultInv, i \in Nat, pc \in {"search", "binary"}
    PROVE  /\ HitInv /\ docs \in Seq(DOMAIN text) /\ sort = <<>> /\ UnionInv
           /\ Len(parts) \in Nat /\ Len(parts) >= 1 /\ DOMAIN parts = 1..Len(parts)
           /\ parts \in Seq(Words) /\ term \in Nat
           /\ inv_num \in Nat /\ i \in 1..inv_num /\ min_index \in DOMAIN parts
           /\ doc_id = List(min_index)[i] /\ doc_id \in DOMAIN text
           /\ \A j \in 1..inv_num : List(min_index)[j] \in DOMAIN text
<1>1. HitInv /\ docs \in Seq(DOMAIN text) /\ sort = <<>> /\ UnionInv
    BY DEF ResultInv
<1>2. Len(parts) \in Nat /\ Len(parts) >= 1 /\ DOMAIN parts = 1..Len(parts) /\ parts \in Seq(Words)
    BY <1>1, LenProperties DEF UnionInv, IndexInv, SearchInv
<1>3. /\ min_index \in DOMAIN parts /\ inv_num \in Nat
      /\ \A j \in 1..inv_num : List(min_index)[j] \in DOMAIN text
    BY <1>2, UnionList
<1>4. i \in 1..inv_num
    BY <1>1, <1>3 DEF UnionInv
<1>5. doc_id = List(min_index)[i] /\ doc_id \in DOMAIN text
    BY <1>3, <1>4 DEF doc_id
<1>6. term \in Nat
    BY DEF IndexInv, SearchInv
<1> QED BY <1>1, <1>2, <1>3, <1>4, <1>5, <1>6

(* A word with an entry of the document is in its text.                    *)
LEMMA EntryIsWord ==
    ASSUME IndexInv, HitInv, NEW t \in DOMAIN parts, NEW k \in DOMAIN List(t), NEW d \in DOMAIN text,
           List(t)[k] = d
    PROVE  parts[t] \in RangeOf(text[d])
<1>1. parts[t] \in Words
    BY DEF IndexInv, SearchInv
<1> QED BY <1>1 DEF HitInv, List

(* Going further along the shortest list frees no place to start from.     *)
LEMMA BeginsKept ==
    ASSUME BeginsInv, UNCHANGED <<text, inv, log, parts, index_begins>>,
           \A t \in DOMAIN parts : Reached(t) \in Int /\ Reached(t)' \in Int /\ Reached(t) <= Reached(t)'
    PROVE  BeginsInv'
<1>1. /\ \A t : List(t)' = List(t)
      /\ (List(min_index))' = List(min_index)
    BY SameIndex
<1>2. ASSUME NEW t \in DOMAIN parts, NEW k \in DOMAIN List(t), k < index_begins[t]
      PROVE  \E j \in 1..Reached(t)' : List(t)[k] <= List(min_index)[j]
    <2>1. PICK j \in 1..Reached(t) : List(t)[k] <= List(min_index)[j]
        BY <1>2 DEF BeginsInv
    <2>2. j \in 1..Reached(t)'
        BY <2>1
    <2> QED BY <2>1, <2>2
<1> QED BY <1>1, <1>2 DEF BeginsInv

(* A document behind its last entry has been put into the result.          *)
LEMMA DocTaken ==
    ASSUME DocsInv, i \in Nat, i >= 1, NEW S,
           \A d : d \in S <=> d \in RangeOf(docs) \/ (d = List(min_index)[i] /\ Full(d)), NEW d
    PROVE  d \in S <=> \E j \in 1..i : List(min_index)[j] = d /\ Full(d)
<1>1. 1..i = (1..(i - 1)) \cup {i}
    OBVIOUS
<1>2. d \in RangeOf(docs) <=> \E j \in 1..(i - 1) : List(min_index)[j] = d /\ Full(d)
    BY DEF DocsInv
<1>3. (\E j \in 1..i : List(min_index)[j] = d /\ Full(d))
         <=> (\E j \in 1..(i - 1) : List(min_index)[j] = d /\ Full(d)) \/ (d = List(min_index)[i] /\ Full(d))
    BY <1>1
<1> QED BY <1>2, <1>3

(* SearchDoc() puts a document into the result when no word is missing.    *)
LEMMA SearchDocRes ==
    ASSUME IndexInv, ResultInv, i \in Nat, log \in BOOLEAN, SearchDoc PROVE ResultInv'
<1>1. pc = "search" /\ UNCHANGED <<text, inv, log, parts, index_begins, sort>>
    BY DEF SearchDoc, indexVars
<1>2. /\ HitInv /\ docs \in Seq(DOMAIN text) /\ sort = <<>> /\ UnionInv
      /\ Len(parts) \in Nat /\ Len(parts) >= 1 /\ DOMAIN parts = 1..Len(parts)
      /\ parts \in Seq(Words) /\ term \in Nat
      /\ inv_num \in Nat /\ i \in 1..inv_num /\ min_index \in DOMAIN parts
      /\ doc_id = List(min_index)[i] /\ doc_id \in DOMAIN text
      /\ \A j \in 1..inv_num : List(min_index)[j] \in DOMAIN text
    BY <1>1, InUnion
<1>3. /\ (min_index)' = min_index /\ (inv_num)' = inv_num
      /\ \A t : List(t)' = List(t)
      /\ \A d : Full(d)' <=> Full(d)
      /\ (List(min_index))' = List(min_index)
      /\ HitInv'
    BY <1>1, <1>2, SameIndex
<1>4. /\ Len(parts) >= (IF log THEN 2 ELSE 1) /\ DocsInv /\ BeginsInv /\ WordsInv
      /\ i \in Nat /\ i >= 1 /\ i <= inv_num
    BY <1>2 DEF UnionInv
<1>5. Len(parts') >= IF log' THEN 2 ELSE 1
    BY <1>1, <1>4
<1>6. CASE pc' = "union"
    <2>1. term > Len(parts) /\ docs' = Append(docs, doc_id) /\ i' = i + 1
        BY <1>1, <1>6 DEF SearchDoc
    <2>2. docs' \in Seq(DOMAIN text')
        BY <1>1, <1>2, <2>1
    <2>3. Full(doc_id)
        <3>1. ASSUME log, NEW w \in RangeOf(parts) PROVE w \in RangeOf(text[doc_id])
            <4>1. PICK t \in DOMAIN parts : w = parts[t]
                BY DEF RangeOf
            <4>2. t \in 1..(term - 1)
                BY <1>2, <2>1, <4>1
            <4> QED BY <1>1, <1>4, <3>1, <4>1, <4>2 DEF WordsInv
        <3> QED BY <3>1 DEF Full
    <2>4. \A d : d \in RangeOf(docs') <=> d \in RangeOf(docs) \/ d = doc_id
        <3>1. DOMAIN docs' = DOMAIN docs \cup {Len(docs) + 1} /\ docs'[Len(docs) + 1] = doc_id
              /\ \A k \in DOMAIN docs : docs'[k] = docs[k]
            BY <1>2, <2>1, AppendProperties
        <3> QED BY <3>1 DEF RangeOf
    <2>5. \A d : d \in RangeOf(docs') <=> d \in RangeOf(docs) \/ (d = List(min_index)[i] /\ Full(d))
        BY <2>3, <2>4, <1>2
    <2>6. \A d : d \in RangeOf(docs') <=> \E j \in 1..i : List(min_index)[j] = d /\ Full(d)
        <3>1. PICK S : S = RangeOf(docs')
            OBVIOUS
        <3>2. \A d : d \in S <=> d \in RangeOf(docs) \/ (d = List(min_index)[i] /\ Full(d))
            BY <2>5, <3>1
        <3>3. \A d : d \in S <=> \E j \in 1..i : List(min_index)[j] = d /\ Full(d)
            BY <1>4, <3>2, DocTaken
        <3> QED BY <3>1, <3>3
    <2>7. DocsInv'
        <3>1. i' - 1 = i /\ (RangeOf(docs))' = RangeOf(docs')
            BY <1>4, <2>1 DEF RangeOf
        <3> QED BY <1>3, <2>6, <3>1 DEF DocsInv
    <2>8. BeginsInv'
        <3>1. \A t \in DOMAIN parts : Reached(t) = i /\ Reached(t)' = i
            BY <1>1, <1>2, <1>6, <2>1 DEF Reached
        <3> QED BY <1>1, <1>4, <3>1, BeginsKept
    <2>9. WordsInv'
        BY <1>6 DEF WordsInv
    <2>10. i' >= 1 /\ i' <= (inv_num)' + (IF pc' = "union" THEN 1 ELSE 0)
        BY <1>2, <1>3, <1>4, <1>6, <2>1
    <2>11. UnionInv'
        BY <1>5, <2>7, <2>8, <2>9, <2>10 DEF UnionInv
    <2> QED BY <1>1, <1>2, <1>3, <1>6, <2>2, <2>11 DEF ResultInv
<1>7. CASE pc' # "union"
    <2>1. /\ pc' \in {"search", "binary"} /\ i' = i /\ docs' = docs
          /\ \/ term = min_index /\ term' = term + 1
             \/ term' = term
        BY <1>1, <1>7 DEF SearchDoc
    <2>2. DocsInv'
        BY <1>3, <1>4, <2>1 DEF DocsInv
    <2>3. BeginsInv'
        <3>1. ASSUME NEW t \in DOMAIN parts
              PROVE  Reached(t) \in Int /\ Reached(t)' \in Int /\ Reached(t) <= Reached(t)'
            <4>1. t \in Nat /\ term' \in Nat /\ term <= term'
                BY <1>2, <2>1
            <4> QED BY <4>1, <1>1, <1>2, <1>4, <2>1, <1>7 DEF Reached
        <3> QED BY <1>1, <1>4, <3>1, BeginsKept
    <2>4. (doc_id)' = doc_id
        BY <1>2, <1>3, <2>1 DEF doc_id
    <2>5. WordsInv'
        <3>1. ASSUME log, NEW t \in 1..(term' - 1) PROVE parts[t] \in RangeOf(text[doc_id])
            <4>1. CASE t = min_index
                <5>1. i \in DOMAIN List(t)
                    BY <4>1, <1>2, UnionList
                <5> QED BY <5>1, <4>1, <1>2, EntryIsWord
            <4>2. CASE t # min_index
                <5>1. t \in 1..(term - 1)
                    BY <4>2, <2>1, <1>2
                <5> QED BY <5>1, <1>1, <1>4, <3>1 DEF WordsInv
            <4> QED BY <4>1, <4>2
        <3>2. RangeOf(text[doc_id])' = RangeOf(text[doc_id])
            BY <1>1, <2>4 DEF RangeOf
        <3> QED BY <3>1, <3>2, <1>1 DEF WordsInv
    <2>6. i' >= 1 /\ i' <= (inv_num)' + (IF pc' = "union" THEN 1 ELSE 0)
        BY <1>2, <1>3, <1>4, <1>7, <2>1
    <2>7. UnionInv'
        BY <1>5, <2>2, <2>3, <2>5, <2>6 DEF UnionInv
    <2>8. docs' \in Seq(DOMAIN text')
        BY <1>1, <1>2, <2>1
    <2> QED BY <1>1, <1>2, <1>3, <2>1, <2>7, <2>8 DEF ResultInv
<1> QED BY <1>6, <1>7

(* A document found: what the next search skips is not behind it.          *)
LEMMA FoundRes ==
    ASSUME IndexInv, ResultInv, i \in Nat, log \in BOOLEAN, Found PROVE ResultInv'
<1>1. /\ pc = "binary" /\ left <= right /\ probe = doc_id /\ pc' = "search" /\ term' = term + 1
      /\ index_begins' = [index_begins EXCEPT ![term] = mid + 1]
      /\ UNCHANGED <<text, inv, log, parts, i, docs, sort>>
    BY DEF Found, indexVars
<1>2. /\ HitInv /\ docs \in Seq(DOMAIN text) /\ sort = <<>> /\ UnionInv
      /\ DOMAIN parts = 1..Len(parts) /\ Len(parts) \in Nat /\ parts \in Seq(Words) /\ term \in Nat
      /\ inv_num \in Nat /\ i \in 1..inv_num
      /\ doc_id = List(min_index)[i] /\ doc_id \in DOMAIN text
    BY <1>1, InUnion
<1>3. /\ (min_index)' = min_index /\ (inv_num)' = inv_num
      /\ \A t : List(t)' = List(t)
      /\ \A d : Full(d)' <=> Full(d)
      /\ (List(min_index))' = List(min_index)
      /\ HitInv'
    BY <1>1, <1>2, SameIndex
<1>4. /\ Len(parts) >= (IF log THEN 2 ELSE 1) /\ DocsInv /\ BeginsInv /\ WordsInv
      /\ i \in Nat /\ i >= 1 /\ i <= inv_num
    BY <1>2 DEF UnionInv
<1>5. /\ mid \in Int /\ mid \in DOMAIN List(term) /\ term \in DOMAIN parts
      /\ List(term) \in Seq(1..MaxDocs) /\ List(term)[mid] = doc_id
    BY <1>1, MidRange DEF probe
<1>6. index_begins \in [DOMAIN parts -> Nat \ {0}] /\ parts[term] \in Words
    BY <1>5 DEF IndexInv, SearchInv
<1>7. DocsInv'
    BY <1>1, <1>3, <1>4 DEF DocsInv
<1>8. ASSUME NEW t \in DOMAIN parts, NEW k \in DOMAIN List(t), k < index_begins'[t]
      PROVE  \E j \in 1..Reached(t)' : List(t)[k] <= List(min_index)[j]
    <2>1. CASE t = term
        <3>1. Reached(t)' = i /\ index_begins'[t] = mid + 1
            BY <1>1, <1>2, <1>5, <1>6, <2>1 DEF Reached
        <3>2. k \in Int /\ DOMAIN List(t) = 1..Len(List(t))
            BY <1>5, <2>1, LenProperties
        <3>3. k < mid \/ k = mid
            BY <1>5, <1>8, <3>1, <3>2
        <3>4. List(t)[k] \in Int /\ \A j, m \in DOMAIN List(t) : j < m => List(t)[j] <= List(t)[m]
            <4>1. List(t)[k] \in 1..MaxDocs
                BY <1>5, <2>1, <3>2, ElementOfSeq
            <4>2. \A j, m \in DOMAIN List(t) : j < m => List(t)[j] <= List(t)[m]
                BY <1>6, <2>1 DEF IndexInv, ListsOrdered, List
            <4> QED BY <4>1, <4>2
        <3>5. List(t)[k] <= List(t)[mid]
            BY <3>3, <3>4, <1>5, <2>1
        <3>6. List(t)[k] <= List(min_index)[i]
            BY <3>5, <1>2, <1>5, <2>1
        <3> QED BY <3>1, <3>6, <1>4
    <2>2. CASE t # term
        <3>1. index_begins'[t] = index_begins[t]
            BY <1>1, <1>6, <2>2
        <3>2. Reached(t)' = Reached(t)
            BY <1>1, <1>2, <2>2 DEF Reached
        <3>3. \E j \in 1..Reached(t) : List(t)[k] <= List(min_index)[j]
            BY <1>4, <1>8, <3>1 DEF BeginsInv
        <3> QED BY <3>2, <3>3
    <2> QED BY <2>1, <2>2
<1>9. BeginsInv'
    BY <1>1, <1>3, <1>8 DEF BeginsInv
<1>10. WordsInv'
    <2>1. (doc_id)' = doc_id
        BY <1>1, <1>3 DEF doc_id
    <2>2. RangeOf(text[doc_id])' = RangeOf(text[doc_id])
        BY <1>1, <2>1 DEF RangeOf
    <2>3. ASSUME log, NEW t \in 1..(term' - 1) PROVE parts[t] \in RangeOf(text[doc_id])
        <3>1. CASE t = term
            BY <3>1, <1>2, <1>5, EntryIsWord
        <3>2. CASE t # term
            <4>1. t \in 1..(term - 1)
                BY <3>2, <1>1, <1>2
            <4> QED BY <4>1, <1>1, <1>4, <2>3 DEF WordsInv
        <3> QED BY <3>1, <3>2
    <2> QED BY <1>1, <2>2, <2>3 DEF WordsInv
<1>11. UnionInv'
    <2>1. Len(parts') >= IF log' THEN 2 ELSE 1
        BY <1>1, <1>4
    <2>2. i' >= 1 /\ i' <= (inv_num)' + (IF pc' = "union" THEN 1 ELSE 0)
        BY <1>1, <1>2, <1>3, <1>4
    <2> QED BY <1>7, <1>9, <1>10, <2>1, <2>2 DEF UnionInv
<1>12. docs' \in Seq(DOMAIN text')
    BY <1>1, <1>2
<1> QED BY <1>1, <1>2, <1>3, <1>11, <1>12 DEF ResultInv

(* Cutting the list in half changes no result.                             *)
LEMMA HalveRes ==
    ASSUME IndexInv, ResultInv, i \in Nat, log \in BOOLEAN, Halve PROVE ResultInv'
<1>1. /\ pc = "binary" /\ pc' = "binary"
      /\ UNCHANGED <<text, inv, log, parts, i, term, index_begins, docs, sort>>
    BY DEF Halve, indexVars
<1>2. HitInv /\ docs \in Seq(DOMAIN text) /\ sort = <<>> /\ UnionInv
    BY <1>1, InUnion
<1>3. /\ (min_index)' = min_index /\ (inv_num)' = inv_num
      /\ \A t : List(t)' = List(t)
      /\ \A d : Full(d)' <=> Full(d)
      /\ (List(min_index))' = List(min_index)
      /\ HitInv'
    BY <1>1, <1>2, SameIndex
<1>4. DocsInv' /\ \A t : Reached(t)' = Reached(t)
    BY <1>1, <1>2, <1>3 DEF UnionInv, DocsInv, Reached
<1>5. BeginsInv'
    BY <1>1, <1>2, <1>3, <1>4 DEF UnionInv, BeginsInv
<1>6. WordsInv'
    <2>1. (doc_id)' = doc_id
        BY <1>1, <1>3 DEF doc_id
    <2>2. RangeOf(text[doc_id])' = RangeOf(text[doc_id])
        BY <1>1, <2>1 DEF RangeOf
    <2> QED BY <1>1, <1>2, <2>2 DEF UnionInv, WordsInv
<1>7. UnionInv'
    BY <1>1, <1>2, <1>3, <1>4, <1>5, <1>6 DEF UnionInv
<1>8. docs' \in Seq(DOMAIN text')
    BY <1>1, <1>2
<1> QED BY <1>1, <1>2, <1>3, <1>7, <1>8 DEF ResultInv

(* A document that BinarySearch() does not find is not wanted, or is in    *)
(* the result already: all its entries lie behind.                         *)
LEMMA MissedTaken ==
    ASSUME IndexInv, ResultInv, i \in Nat, pc = "binary", left > right, log, Full(doc_id)
    PROVE  doc_id \in RangeOf(docs)
<1>2. /\ HitInv /\ UnionInv /\ parts \in Seq(Words) /\ term \in Nat /\ Len(parts) >= 1
      /\ inv_num \in Nat /\ i \in 1..inv_num
      /\ doc_id = List(min_index)[i] /\ doc_id \in DOMAIN text
    BY InUnion
<1>3. term \in DOMAIN parts /\ parts[term] \in Words /\ left \in Int /\ right \in Int
    BY DEF IndexInv, SearchInv
<1>4. parts[term] \in RangeOf(text[doc_id])
    BY <1>3 DEF Full, RangeOf
<1>5. PICK k \in DOMAIN List(term) : List(term)[k] = doc_id
    BY <1>2, <1>3, <1>4 DEF HitInv, List
<1>6. List(term) \in Seq(1..MaxDocs) /\ index_begins[term] \in Nat
    BY <1>3 DEF IndexInv, ListType, SearchInv, List
<1>7. k \in Int /\ doc_id \in Int
    <2>1. k \in 1..Len(List(term))
        BY <1>5, <1>6, LenProperties
    <2>2. List(term)[k] \in 1..MaxDocs
        BY <2>1, <1>6, ElementOfSeq
    <2> QED BY <2>1, <2>2, <1>5
<1>8. k < index_begins[term]
    <2>1. ~(left <= k /\ k <= right)
        BY <1>3, <1>7
    <2> QED BY <2>1, <1>5, <1>6, <1>7 DEF IndexInv, BinarySafe
<1>9. Reached(term) = i - 1
    BY <1>3, <1>2 DEF Reached
<1>10. PICK j \in 1..(i - 1) : doc_id <= List(min_index)[j]
    BY <1>2, <1>3, <1>5, <1>8, <1>9 DEF UnionInv, BeginsInv
<1>11. j \in 1..inv_num /\ j < i
    BY <1>2
<1>12. List(min_index)[j] <= List(min_index)[i] /\ List(min_index)[j] \in DOMAIN text
    BY <1>2, <1>11, UnionList
<1>13. List(min_index)[j] = doc_id
    <2>1. List(min_index)[j] \in Nat
        BY <1>12 DEF IndexInv, ListType
    <2> QED BY <2>1, <1>2, <1>7, <1>10, <1>12
<1> QED BY <1>2, <1>13 DEF UnionInv, DocsInv

(* CDlgLogIndex gives up a document that is not wanted or taken already.   *)
LEMMA NotFoundRes ==
    ASSUME IndexInv, ResultInv, i \in Nat, log \in BOOLEAN, NotFound PROVE ResultInv'
<1>1. /\ pc = "binary" /\ left > right
      /\ UNCHANGED <<text, inv, log, parts, index_begins, docs, sort>>
      /\ \/ log /\ pc' = "union" /\ i' = i + 1 /\ term' = term
         \/ ~log /\ pc' = "search" /\ term' = term + 1 /\ i' = i
    BY DEF NotFound, indexVars
<1>2. /\ HitInv /\ docs \in Seq(DOMAIN text) /\ sort = <<>> /\ UnionInv
      /\ DOMAIN parts = 1..Len(parts) /\ Len(parts) \in Nat /\ term \in Nat
      /\ inv_num \in Nat /\ i \in 1..inv_num /\ doc_id = List(min_index)[i]
    BY <1>1, InUnion
<1>3. /\ (min_index)' = min_index /\ (inv_num)' = inv_num
      /\ \A t : List(t)' = List(t)
      /\ \A d : Full(d)' <=> Full(d)
      /\ (List(min_index))' = List(min_index)
      /\ HitInv'
    BY <1>1, <1>2, SameIndex
<1>4. /\ Len(parts) >= (IF log THEN 2 ELSE 1) /\ DocsInv /\ BeginsInv
      /\ i \in Nat /\ i >= 1 /\ i <= inv_num
    BY <1>2 DEF UnionInv
<1>5. DocsInv'
    <2>1. CASE log /\ pc' = "union" /\ i' = i + 1
        <3>1. PICK S : S = RangeOf(docs)
            OBVIOUS
        <3>2. doc_id \in RangeOf(docs) \/ ~Full(doc_id)
            BY <1>1, <2>1, MissedTaken
        <3>3. \A d : d \in S <=> d \in RangeOf(docs) \/ (d = List(min_index)[i] /\ Full(d))
            BY <3>1, <3>2, <1>2
        <3>4. \A d : d \in S <=> \E j \in 1..i : List(min_index)[j] = d /\ Full(d)
            BY <1>4, <3>3, DocTaken
        <3>5. i' - 1 = i /\ (RangeOf(docs))' = S
            BY <1>1, <1>4, <2>1, <3>1 DEF RangeOf
        <3> QED BY <1>3, <3>4, <3>5 DEF DocsInv
    <2>2. CASE ~log /\ i' = i
        BY <1>1, <1>3, <1>4, <2>2 DEF DocsInv
    <2> QED BY <1>1, <2>1, <2>2
<1>6. BeginsInv'
    <2>1. ASSUME NEW t \in DOMAIN parts
          PROVE  Reached(t) \in Int /\ Reached(t)' \in Int /\ Reached(t) <= Reached(t)'
        <3>1. t \in Nat
            BY <1>2
        <3> QED BY <3>1, <1>1, <1>2, <1>4 DEF Reached
    <2> QED BY <1>1, <1>4, <2>1, BeginsKept
<1>7. WordsInv'
    BY <1>1 DEF WordsInv
<1>8. UnionInv'
    <2>1. Len(parts') >= IF log' THEN 2 ELSE 1
        BY <1>1, <1>4
    <2>2. i' >= 1 /\ i' <= (inv_num)' + (IF pc' = "union" THEN 1 ELSE 0)
        BY <1>1, <1>2, <1>3, <1>4
    <2> QED BY <1>5, <1>6, <1>7, <2>1, <2>2 DEF UnionInv
<1>9. docs' \in Seq(DOMAIN text')
    BY <1>1, <1>2
<1> QED BY <1>1, <1>2, <1>3, <1>8, <1>9 DEF ResultInv

(* One candidate of EditSort(): the text is listed, once.                  *)
LEMMA CandidateLists ==
    ASSUME NEW m, NEW t \in Texts, ListedOnce(raw, m)
    PROVE  /\ ListedOnce(raw, Candidate(m, t))
           /\ \A x : x \in ListedIn(Candidate(m, t)) <=> x \in ListedIn(m) \/ x = t
<1>1. PICK e : e = Calculate(raw, t)
    OBVIOUS
<1>2. PICK c : c = Candidate(m, t)
    OBVIOUS
<1>3. \A x : x \in ListedIn(m) <=> \E d \in DOMAIN m : x \in RangeOf(m[d])
    BY DEF ListedIn
<1>4. \A x : x \in ListedIn(c) <=> \E d \in DOMAIN c : x \in RangeOf(c[d])
    BY DEF ListedIn
<1>5. CASE e \notin DOMAIN m
    <2>1. c = [y \in DOMAIN m \cup {e} |-> IF y = e THEN <<t>> ELSE m[y]]
        BY <1>1, <1>2, <1>5 DEF Candidate
    <2>2. DOMAIN c = DOMAIN m \cup {e} /\ c[e] = <<t>> /\ \A y \in DOMAIN m : c[y] = m[y]
        BY <2>1, <1>5
    <2>3. /\ <<t>> \in Seq(Texts) /\ DOMAIN <<t>> = {1} /\ <<t>>[1] = t
        OBVIOUS
    <2>4. RangeOf(c[e]) = {t}
        BY <2>2, <2>3 DEF RangeOf
    <2>5. \A x : x \in ListedIn(c) <=> x \in ListedIn(m) \/ x = t
        BY <1>3, <1>4, <2>2, <2>4
    <2>6. ListedOnce(raw, c)
        <3>1. ASSUME NEW d \in DOMAIN c
              PROVE  /\ c[d] \in Seq(Texts)
                     /\ \A j \in DOMAIN c[d] : d = Calculate(raw, c[d][j])
                     /\ \A j, k \in DOMAIN c[d] : c[d][j] = c[d][k] => j = k
            <4>1. CASE d = e
                BY <4>1, <2>2, <2>3, <1>1
            <4>2. CASE d # e
                <5>1. d \in DOMAIN m /\ c[d] = m[d]
                    BY <4>2, <2>2
                <5> QED BY <5>1 DEF ListedOnce
            <4> QED BY <4>1, <4>2
        <3> QED BY <3>1 DEF ListedOnce
    <2> QED BY <1>2, <2>5, <2>6
<1>6. CASE e \in DOMAIN m /\ \E d \in DOMAIN m : t \in RangeOf(m[d])
    <2>1. c = m
        BY <1>1, <1>2, <1>6 DEF Candidate
    <2> QED BY <1>2, <1>3, <1>6, <2>1
<1>7. CASE e \in DOMAIN m /\ ~\E d \in DOMAIN m : t \in RangeOf(m[d])
    <2>1. c = [m EXCEPT ![e] = Append(@, t)]
        BY <1>1, <1>2, <1>7 DEF Candidate
    <2>2. PICK s : s = m[e]
        OBVIOUS
    <2>3. DOMAIN c = DOMAIN m /\ c[e] = Append(s, t) /\ \A y \in DOMAIN m : y # e => c[y] = m[y]
        BY <2>1, <2>2, <1>7
    <2>4. /\ s \in Seq(Texts) /\ t \notin RangeOf(s)
          /\ \A j \in DOMAIN s : e = Calculate(raw, s[j])
          /\ \A j, k \in DOMAIN s : s[j] = s[k] => j = k
        BY <2>2, <1>7 DEF ListedOnce
    <2> DEFINE r == Append(s, t)
               n == Len(s) + 1
    <2>5. /\ r \in Seq(Texts) /\ DOMAIN r = DOMAIN s \cup {n} /\ r[n] = t /\ n \notin DOMAIN s
          /\ \A k \in DOMAIN s : r[k] = s[k]
        BY <2>4, AppendProperties
    <2> HIDE DEF r, n
    <2>6. \A x : x \in RangeOf(r) <=> x \in RangeOf(s) \/ x = t
        BY <2>5 DEF RangeOf
    <2>7. \A x : x \in ListedIn(c) <=> x \in ListedIn(m) \/ x = t
        BY <1>3, <1>4, <1>7, <2>2, <2>3, <2>6 DEF r
    <2>8. ListedOnce(raw, c)
        <3>1. ASSUME NEW d \in DOMAIN c
              PROVE  /\ c[d] \in Seq(Texts)
                     /\ \A j \in DOMAIN c[d] : d = Calculate(raw, c[d][j])
                     /\ \A j, k \in DOMAIN c[d] : c[d][j] = c[d][k] => j = k
            <4>1. CASE d = e
                <5>1. c[d] = r
                    BY <4>1, <2>3 DEF r
                <5>2. \A j \in DOMAIN r : e = Calculate(raw, r[j])
                    BY <2>4, <2>5, <1>1
                <5>3. \A j, k \in DOMAIN r : r[j] = r[k] => j = k
                    <6>1. \A j \in DOMAIN s : s[j] # t
                        BY <2>4 DEF RangeOf
                    <6> QED BY <6>1, <2>4, <2>5
                <5> QED BY <4>1, <5>1, <5>2, <5>3, <2>5
            <4>2. CASE d # e
                <5>1. d \in DOMAIN m /\ c[d] = m[d]
                    BY <4>2, <2>3
                <5> QED BY <5>1 DEF ListedOnce
            <4> QED BY <4>1, <4>2
        <3> QED BY <3>1 DEF ListedOnce
    <2> QED BY <1>2, <2>7, <2>8
<1> QED BY <1>5, <1>6, <1>7

(* The first document and the others.                                      *)
LEMMA HeadAndTail ==
    ASSUME NEW S, NEW s \in Seq(S), s # <<>>
    PROVE  /\ Head(s) \in S /\ Tail(s) \in Seq(S)
           /\ RangeOf(s) = {Head(s)} \cup RangeOf(Tail(s))
<1>1. /\ Len(s) \in Nat /\ Len(s) >= 1 /\ DOMAIN s = 1..Len(s)
      /\ DOMAIN Tail(s) = 1..(Len(s) - 1)
      /\ \A k \in 1..(Len(s) - 1) : Tail(s)[k] = s[k + 1]
      /\ Head(s) = s[1] /\ Head(s) \in S /\ Tail(s) \in Seq(S)
    BY HeadTailProperties, LenProperties
<1>2. ASSUME NEW k \in DOMAIN s PROVE s[k] = Head(s) \/ s[k] \in RangeOf(Tail(s))
    <2>1. k \in 1..Len(s) /\ k \in Int
        BY <1>1
    <2>2. CASE k = 1
        BY <2>2, <1>1
    <2>3. CASE k # 1
        <3>1. PICK j \in 1..(Len(s) - 1) : j + 1 = k
            <4>1. k - 1 \in 1..(Len(s) - 1) /\ (k - 1) + 1 = k
                BY <2>1, <2>3, <1>1
            <4> QED BY <4>1
        <3>2. Tail(s)[j] = s[k] /\ j \in DOMAIN Tail(s)
            BY <1>1, <3>1
        <3> QED BY <3>2 DEF RangeOf
    <2> QED BY <2>2, <2>3
<1>3. ASSUME NEW j \in DOMAIN Tail(s) PROVE Tail(s)[j] \in RangeOf(s)
    <2>1. j + 1 \in DOMAIN s /\ Tail(s)[j] = s[j + 1]
        BY <1>1
    <2> QED BY <2>1 DEF RangeOf
<1>4. Head(s) \in RangeOf(s)
    <2>1. 1 \in DOMAIN s
        BY <1>1
    <2> QED BY <1>1, <2>1 DEF RangeOf
<1>5. \A x : x \in RangeOf(s) => x \in {Head(s)} \cup RangeOf(Tail(s))
    BY <1>2 DEF RangeOf
<1>6. \A x : x \in RangeOf(Tail(s)) => x \in RangeOf(s)
    BY <1>3 DEF RangeOf
<1> QED BY <1>1, <1>4, <1>5, <1>6

(* What is to be listed of one document and of others.                     *)
LEMMA ItemsOf ==
    ASSUME NEW d, NEW S
    PROVE  /\ log => Items({d} \cup S) = {x \in {d} : weight[d] # NoCity} \cup Items(S)
           /\ ~log => Items({d} \cup S) = {text[d]} \cup Items(S)
<1>1. CASE log
    BY <1>1 DEF Items
<1>2. CASE ~log
    BY <1>2 DEF Items
<1> QED BY <1>1, <1>2

(* EditSort() moves one text from docs to cadidate_sort.                   *)
LEMMA EditSortRes ==
    ASSUME IndexInv, ResultInv, EditSort PROVE ResultInv'
<1>1. /\ pc = "sort" /\ pc' = "sort" /\ ~log /\ docs # <<>>
      /\ UNCHANGED <<text, weight, inv, log, parts, raw>>
      /\ sort' = Candidate(sort, text[Head(docs)]) /\ docs' = Tail(docs)
    BY DEF EditSort, indexVars
<1>2. HitInv /\ docs \in Seq(DOMAIN text) /\ SortInv /\ text \in Seq(Texts)
    BY <1>1 DEF ResultInv, IndexInv, ListType
<1>3. (Wanted)' = Wanted /\ HitInv' /\ \A S : Items(S)' = Items(S)
    BY <1>1, <1>2, SameIndex, SameItems
<1>4. /\ Head(docs) \in DOMAIN text /\ Tail(docs) \in Seq(DOMAIN text)
      /\ RangeOf(docs) = {Head(docs)} \cup RangeOf(Tail(docs))
    BY <1>1, <1>2, HeadAndTail
<1>5. PICK t \in Texts : t = text[Head(docs)]
    BY <1>2, <1>4, ElementOfSeq
<1>6. PICK m : m = sort
    OBVIOUS
<1>7. ListedOnce(raw, m)
    BY <1>1, <1>2, <1>6 DEF SortInv
<1>8. /\ ListedOnce(raw, Candidate(m, t))
      /\ \A x : x \in ListedIn(Candidate(m, t)) <=> x \in ListedIn(m) \/ x = t
    BY <1>7, CandidateLists
<1>9. sort' = Candidate(m, t)
    BY <1>1, <1>5, <1>6
<1>10. ListedOnce(raw, sort') /\ ListedIn(sort') = ListedIn(sort) \cup {t}
    BY <1>6, <1>8, <1>9
<1>11. ListedOnce(raw, sort)' /\ ListedIn(sort)' = ListedIn(sort) \cup {t}
    BY <1>1, <1>10 DEF ListedIn, ListedOnce
<1>12. Items(RangeOf(docs)) = {t} \cup Items(RangeOf(Tail(docs)))
    BY <1>1, <1>4, <1>5, ItemsOf
<1>13. RangeOf(docs)' = RangeOf(Tail(docs))
    BY <1>1 DEF RangeOf
<1>14. SortInv'
    BY <1>1, <1>2, <1>3, <1>11, <1>12, <1>13 DEF SortInv
<1>15. docs' \in Seq(DOMAIN text')
    BY <1>1, <1>4
<1> QED BY <1>1, <1>3, <1>14, <1>15 DEF ResultInv

(* One document of CDlgLogIndex is listed under its weight, if it has a    *)
(* city.                                                                   *)
LEMMA ListedLists ==
    ASSUME NEW m, NEW d \in DOMAIN text, ByWeight(m)
    PROVE  /\ ByWeight(Listed(m, d))
           /\ ListedIn(Listed(m, d)) = ListedIn(m) \cup {x \in {d} : weight[d] # NoCity}
<1>1. PICK v : v = weight[d]
    OBVIOUS
<1>2. PICK c : c = Listed(m, d)
    OBVIOUS
<1>3. CASE v = NoCity
    BY <1>1, <1>2, <1>3 DEF Listed
<1>4. CASE v # NoCity /\ v \notin DOMAIN m
    <2>1. c = [w \in DOMAIN m \cup {v} |-> IF w = v THEN <<d>> ELSE m[w]]
        BY <1>1, <1>2, <1>4 DEF Listed
    <2>2. DOMAIN c = DOMAIN m \cup {v} /\ c[v] = <<d>> /\ \A w \in DOMAIN m : c[w] = m[w]
        BY <2>1, <1>4
    <2>3. <<d>> \in Seq(DOMAIN text) /\ DOMAIN <<d>> = {1} /\ <<d>>[1] = d
        OBVIOUS
    <2>4. RangeOf(c[v]) = {d}
        BY <2>2, <2>3 DEF RangeOf
    <2>5. ListedIn(c) = ListedIn(m) \cup {d}
        BY <2>2, <2>4 DEF ListedIn
    <2>6. ByWeight(c)
        BY <2>2, <2>3, <1>1 DEF ByWeight
    <2> QED BY <1>1, <1>2, <1>4, <2>5, <2>6
<1>5. CASE v # NoCity /\ v \in DOMAIN m
    <2>1. c = [m EXCEPT ![v] = Append(@, d)]
        BY <1>1, <1>2, <1>5 DEF Listed
    <2>2. PICK s : s = m[v]
        OBVIOUS
    <2>3. PICK r : r = Append(s, d)
        OBVIOUS
    <2>4. DOMAIN c = DOMAIN m /\ c[v] = r /\ \A w \in DOMAIN m : w # v => c[w] = m[w]
        BY <2>1, <2>2, <2>3, <1>5
    <2>5. s \in Seq(DOMAIN text) /\ \A j \in DOMAIN s : weight[s[j]] = v
        BY <2>2, <1>5 DEF ByWeight
    <2>6. PICK n : n = Len(s) + 1
        OBVIOUS
    <2>7. /\ r \in Seq(DOMAIN text) /\ DOMAIN r = DOMAIN s \cup {n} /\ r[n] = d /\ n \notin DOMAIN s
          /\ \A k \in DOMAIN s : r[k] = s[k]
        BY <2>3, <2>5, <2>6, AppendProperties
    <2>8. RangeOf(r) = RangeOf(s) \cup {d}
        BY <2>7 DEF RangeOf
    <2>9. \A x : x \in ListedIn(c) <=> x \in ListedIn(m) \/ x = d
        <3>1. \A x : x \in ListedIn(m) <=> \E w \in DOMAIN m : x \in RangeOf(m[w])
            BY DEF ListedIn
        <3>2. \A x : x \in ListedIn(c) <=> \E w \in DOMAIN c : x \in RangeOf(c[w])
            BY DEF ListedIn
        <3> QED BY <3>1, <3>2, <2>2, <2>4, <2>8, <1>5
    <2>10. ByWeight(c)
        <3>1. ASSUME NEW w \in DOMAIN c
              PROVE  c[w] \in Seq(DOMAIN text) /\ \A j \in DOMAIN c[w] : weight[c[w][j]] = w
            <4>1. CASE w = v
                BY <4>1, <2>4, <2>5, <2>7, <1>1
            <4>2. CASE w # v
                <5>1. w \in DOMAIN m /\ c[w] = m[w]
                    BY <4>2, <2>4
                <5> QED BY <5>1 DEF ByWeight
            <4> QED BY <4>1, <4>2
        <3> QED BY <3>1 DEF ByWeight
    <2>11. ListedIn(c) = ListedIn(m) \cup {d}
        BY <2>9
    <2> QED BY <1>1, <1>2, <1>5, <2>10, <2>11
<1> QED BY <1>3, <1>4, <1>5

(* CDlgLogIndex moves one document from docs to log_docs.                  *)
LEMMA LogSortRes ==
    ASSUME IndexInv, ResultInv, LogSort PROVE ResultInv'
<1>1. /\ pc = "sort" /\ pc' = "sort" /\ log /\ docs # <<>>
      /\ UNCHANGED <<text, weight, inv, log, parts, raw>>
      /\ sort' = Listed(sort, Head(docs)) /\ docs' = Tail(docs)
    BY DEF LogSort, indexVars
<1>2. HitInv /\ docs \in Seq(DOMAIN text) /\ SortInv
    BY <1>1 DEF ResultInv
<1>3. /\ (Wanted)' = Wanted /\ HitInv' /\ \A S : Items(S)' = Items(S)
      /\ \A m : ByWeight(m)' <=> ByWeight(m)
    BY <1>1, <1>2, SameIndex, SameItems
<1>4. /\ Head(docs) \in DOMAIN text /\ Tail(docs) \in Seq(DOMAIN text)
      /\ RangeOf(docs) = {Head(docs)} \cup RangeOf(Tail(docs))
    BY <1>1, <1>2, HeadAndTail
<1>5. PICK d \in DOMAIN text : d = Head(docs)
    BY <1>4
<1>6. PICK m : m = sort
    OBVIOUS
<1>7. ByWeight(m)
    BY <1>1, <1>2, <1>6 DEF SortInv
<1>8. /\ ByWeight(Listed(m, d))
      /\ ListedIn(Listed(m, d)) = ListedIn(m) \cup {x \in {d} : weight[d] # NoCity}
    BY <1>7, ListedLists
<1>9. sort' = Listed(m, d)
    BY <1>1, <1>5, <1>6
<1>10. ByWeight(sort') /\ ListedIn(sort') = ListedIn(sort) \cup {x \in {d} : weight[d] # NoCity}
    BY <1>6, <1>8, <1>9
<1>11. ByWeight(sort)' /\ ListedIn(sort)' = ListedIn(sort) \cup {x \in {d} : weight[d] # NoCity}
    BY <1>1, <1>10 DEF ListedIn, ByWeight
<1>12. Items(RangeOf(docs)) = {x \in {d} : weight[d] # NoCity} \cup Items(RangeOf(Tail(docs)))
    <2>1. PICK S : S = RangeOf(Tail(docs))
        OBVIOUS
    <2>2. RangeOf(docs) = {d} \cup S
        BY <1>4, <1>5, <2>1
    <2>3. Items({d} \cup S) = {x \in {d} : weight[d] # NoCity} \cup Items(S)
        BY <1>1, ItemsOf
    <2> QED BY <2>1, <2>2, <2>3
<1>13. RangeOf(docs)' = RangeOf(Tail(docs))
    BY <1>1 DEF RangeOf
<1>14. SortInv'
    BY <1>1, <1>2, <1>3, <1>11, <1>12, <1>13 DEF SortInv
<1>15. docs' \in Seq(DOMAIN text')
    BY <1>1, <1>4
<1> QED BY <1>1, <1>3, <1>14, <1>15 DEF ResultInv

(* Nothing is left to be placed.                                           *)
LEMMA SortedRes ==
    ASSUME IndexInv, ResultInv, Sorted PROVE ResultInv'
<1>1. /\ pc = "sort" /\ pc' = "show" /\ docs = <<>>
      /\ UNCHANGED <<text, weight, inv, log, parts, raw, docs, sort>>
    BY DEF Sorted, indexVars
<1>2. HitInv /\ docs \in Seq(DOMAIN text) /\ SortInv
    BY <1>1 DEF ResultInv
<1>3. (Wanted)' = Wanted /\ HitInv' /\ \A S : Items(S)' = Items(S)
    BY <1>1, <1>2, SameIndex, SameItems
<1>4. ListedIn(sort)' = ListedIn(sort) /\ RangeOf(docs)' = RangeOf(docs)
    BY <1>1 DEF ListedIn, RangeOf
<1>5. (ByWeight(sort)' <=> ByWeight(sort)) /\ (ListedOnce(raw, sort)' <=> ListedOnce(raw, sort))
    BY <1>1 DEF ListedOnce, ByWeight
<1>6. SortInv'
    BY <1>1, <1>2, <1>3, <1>4, <1>5 DEF SortInv
<1>7. docs' \in Seq(DOMAIN text')
    BY <1>1, <1>2
<1> QED BY <1>1, <1>3, <1>6, <1>7 DEF ResultInv

(* The query is cut once more while nothing is listed.                     *)
LEMMA SegmentRes ==
    ASSUME IndexInv, ResultInv, \E q \in Texts : Segment_(q) PROVE ResultInv'
<1>1. /\ pc = "call" /\ pc' = "sort"
      /\ UNCHANGED <<text, weight, inv, log, parts, docs, sort>>
    BY DEF Segment_, indexVars
<1>2. HitInv /\ docs \in Seq(DOMAIN text) /\ SortInv /\ sort = <<>>
    BY <1>1 DEF ResultInv
<1>3. (Wanted)' = Wanted /\ HitInv' /\ \A S : Items(S)' = Items(S)
    BY <1>1, <1>2, SameIndex, SameItems
<1>4. ListedIn(sort)' = ListedIn(sort) /\ RangeOf(docs)' = RangeOf(docs)
    BY <1>1 DEF ListedIn, RangeOf
<1>5. ByWeight(sort)' /\ ListedOnce(raw, sort)'
    BY <1>1, <1>2 DEF ListedOnce, ByWeight
<1>6. SortInv'
    BY <1>1, <1>2, <1>3, <1>4, <1>5 DEF SortInv
<1>7. docs' \in Seq(DOMAIN text')
    BY <1>1, <1>2
<1> QED BY <1>1, <1>3, <1>6, <1>7 DEF ResultInv

(* Nothing of a query is left for the next one.                            *)
LEMMA ClearRes ==
    ASSUME IndexInv, ResultInv, Clear PROVE ResultInv'
<1>1. pc' = "ready" /\ docs = <<>> /\ docs' = <<>> /\ sort' = <<>> /\ text' = text /\ inv' = inv
    BY DEF Clear, indexVars, ResultInv
<1>2. HitInv' /\ docs' \in Seq(DOMAIN text')
    BY <1>1 DEF ResultInv, HitInv
<1> QED BY <1>1, <1>2 DEF ResultInv

(* A step that changes nothing.                                            *)
LEMMA StutterRes ==
    ASSUME ResultInv, UNCHANGED vars PROVE ResultInv'
<1>1. UNCHANGED <<text, weight, inv, pc, log, parts, raw, i, term, index_begins, docs, sort>>
    BY DEF vars, indexVars, searchVars
<1>2. /\ (min_index)' = min_index /\ (inv_num)' = inv_num /\ (Wanted)' = Wanted
      /\ \A t : List(t)' = List(t)
      /\ \A d : Full(d)' <=> Full(d)
      /\ (List(min_index))' = List(min_index)
      /\ HitInv => HitInv'
    BY <1>1, SameIndex
<1>3. HitInv' /\ docs' \in Seq(DOMAIN text')
    BY <1>1, <1>2 DEF ResultInv
<1>4. UnionInv => UnionInv'
    <2> SUFFICES ASSUME UnionInv PROVE UnionInv'
        OBVIOUS
    <2>1. DocsInv' /\ \A t : Reached(t)' = Reached(t)
        BY <1>1, <1>2 DEF UnionInv, DocsInv, Reached
    <2>2. BeginsInv'
        BY <1>1, <1>2, <2>1 DEF UnionInv, BeginsInv
    <2>3. WordsInv'
        <3>1. (doc_id)' = doc_id
            BY <1>1, <1>2 DEF doc_id
        <3>2. RangeOf(text[doc_id])' = RangeOf(text[doc_id])
            BY <1>1, <3>1 DEF RangeOf
        <3> QED BY <1>1, <3>2 DEF UnionInv, WordsInv
    <2> QED BY <1>1, <1>2, <2>1, <2>2, <2>3 DEF UnionInv
<1>5. SortInv => SortInv'
    <2>1. ListedIn(sort)' = ListedIn(sort) /\ RangeOf(docs)' = RangeOf(docs)
        BY <1>1 DEF ListedIn, RangeOf
    <2>2. /\ \A S : Items(S)' = Items(S)
          /\ ByWeight(sort)' <=> ByWeight(sort)
          /\ ListedOnce(raw, sort)' <=> ListedOnce(raw, sort)
        BY <1>1, SameItems DEF ListedOnce, ByWeight
    <2> QED BY <1>1, <1>2, <2>1, <2>2 DEF SortInv
<1> QED BY <1>1, <1>3, <1>4, <1>5 DEF ResultInv

(* The invariant behind what a search finds: the lists hold exactly the    *)
(* documents with their words, a union has taken exactly the documents     *)
(* wanted so far, and EditSort() drops and repeats no text.                *)
THEOREM ResultInvariant == Spec => []ResultInv
<1>1. Init => ResultInv
    <2> SUFFICES ASSUME Init PROVE ResultInv
        OBVIOUS
    <2>1. text = <<>> /\ pc = "ready" /\ docs = <<>> /\ sort = <<>>
        BY DEF Init
    <2>2. HitInv /\ docs \in Seq(DOMAIN text)
        BY <2>1 DEF HitInv
    <2> QED BY <2>1, <2>2 DEF ResultInv
<1>2. IndexInv /\ TypeOK /\ ResultInv /\ [Next]_vars => ResultInv'
    <2> SUFFICES ASSUME IndexInv, TypeOK, ResultInv, [Next]_vars PROVE ResultInv'
        OBVIOUS
    <2>1. i \in Nat /\ log \in BOOLEAN
        BY Zenon DEF TypeOK
    <2>2. CASE Search
        BY <2>1, <2>2, UnionRes, SearchDocRes, FoundRes, HalveRes, NotFoundRes, EditSortRes, LogSortRes,
           SortedRes, SegmentRes, ClearRes
           DEF Search
    <2>3. CASE \E t \in Texts : GetUnionResults(t) \/ \E c \in Weights \cup {0, NoCity} : Add(t, c)
        BY <2>1, <2>3, AddRes, QueryRes
    <2>4. CASE UNCHANGED vars
        BY <2>4, StutterRes
    <2> QED BY <2>2, <2>3, <2>4 DEF Next
<1> QED BY <1>1, <1>2, IndexInvariant, IndexTypeCorrect, PTL DEF Spec

(* For any words, documents and queries: CDlgLogIndex lists exactly the    *)
(* documents with all words of the query and a known city, under their     *)
(* weights, and CDlgIndex the texts with the query's rarest word, although *)
(* each binary search starts behind the last entry found and lists repeat  *)
(* documents; EditSort() lists each of them once, under the number of      *)
(* words deleted and inserted to make it of the query as it was typed.     *)
THEOREM SearchFinds == Spec => []SearchComplete
<1>1. IndexInv /\ TypeOK /\ ResultInv => SearchComplete
    <2> SUFFICES ASSUME IndexInv, TypeOK, ResultInv, pc = "show" PROVE SearchComplete
        BY DEF SearchComplete
    <2>1. HitInv /\ docs = <<>> /\ SortInv
        BY DEF ResultInv
    <2>2. RangeOf(docs) = {} /\ Items({}) = {}
        BY <2>1 DEF RangeOf, Items
    <2>3. ListedIn(sort) = Items(Wanted) /\ Results = ListedIn(sort)
        BY <2>1, <2>2 DEF SortInv, ListedIn, Results
    <2>4. CASE log
        <3>1. Results = {d \in Wanted : weight[d] # NoCity}
            BY <2>3, <2>4 DEF Items
        <3>2. ByWeight(sort)
            BY <2>1, <2>4 DEF SortInv
        <3> QED BY <2>4, <3>1, <3>2 DEF SearchComplete, ByWeight
    <2>5. CASE ~log
        <3>1. Results = {text[d] : d \in Wanted}
            BY <2>3, <2>5 DEF Items
        <3>2. ListedOnce(raw, sort)
            BY <2>1, <2>5 DEF SortInv
        <3>3. Wanted \subseteq DOMAIN text
            <4>1. CASE Len(parts) < 1
                BY <2>5, <4>1 DEF Wanted
            <4>2. CASE ~(Len(parts) < 1)
                BY <2>5, <4>2 DEF Wanted, Has
            <4> QED BY <4>1, <4>2
        <3>4. ASSUME NEW d \in DOMAIN sort, NEW j \in DOMAIN sort[d], raw # <<>>
              PROVE  d = Distance(raw, sort[d][j])
            <4>1. PICK t : t = sort[d][j]
                OBVIOUS
            <4>2. t \in Results
                BY <4>1, <2>3 DEF ListedIn, RangeOf
            <4>3. PICK w \in DOMAIN text : t = text[w]
                BY <3>1, <3>3, <4>2
            <4>4. t # <<>> /\ t \in Texts
                BY <2>1, <4>3 DEF HitInv, IndexInv, ListType
            <4>5. PICK p : p = raw
                OBVIOUS
            <4>6. Len(p) \in Nat /\ Len(t) \in Nat
                BY <4>4, <4>5, TextSeq, LenProperties DEF TypeOK
            <4>7. edit(p, t) = Distance(p, t)
                BY <4>6, EditIsDistance
            <4>8. Calculate(raw, t) = edit(raw, t)
                BY <4>4, <3>4 DEF Calculate
            <4>9. d = Calculate(raw, t)
                BY <3>2, <4>1 DEF ListedOnce
            <4> QED BY <4>1, <4>5, <4>7, <4>8, <4>9
        <3>5. ASSUME NEW d \in DOMAIN sort, NEW e \in DOMAIN sort,
                     NEW j \in DOMAIN sort[d], NEW k \in DOMAIN sort[e], sort[d][j] = sort[e][k]
              PROVE  d = e /\ j = k
            <4>1. d = Calculate(raw, sort[d][j]) /\ e = Calculate(raw, sort[e][k])
                BY <3>2 DEF ListedOnce
            <4>2. d = e
                BY <3>5, <4>1
            <4> QED BY <3>2, <3>5, <4>2 DEF ListedOnce
        <3> QED BY <2>5, <3>1, <3>4, <3>5 DEF SearchComplete
    <2> QED BY <2>4, <2>5
<1> QED BY <1>1, IndexInvariant, IndexTypeCorrect, ResultInvariant, PTL
=============================================================================
