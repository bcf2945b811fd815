-------------------------------- MODULE InvIndex --------------------------------
(***************************************************************************)
(* The inverted index CommonIndex (src/include/common_index.h) and its two *)
(* users, from the query to the list of results:                           *)
(*   - CDlgIndex (src/index/inv_index/doc_index.cpp), whose results        *)
(*     DIALOGUE (src/dialogue/dialogue.cpp) ranks with                     *)
(*     EditDist::EditSort() (src/Similarity/editDist/EditDist.cpp);        *)
(*   - CDlgLogIndex (src/index/data_make/dlg_log_index.cpp), which leaves  *)
(*     out documents without a city and sorts the others by their weight.  *)
(*                                                                         *)
(* A text is the sequence of its words, as the segmenters (external) cut   *)
(* it.  The query is cut twice: for the search after it was normalised and *)
(* without its stop words, for the ranking as it was typed.                *)
(***************************************************************************)
EXTENDS Integers, Sequences, FiniteSets

CONSTANTS
    Words,
    Weights,     \* search counts of the documents of CDlgLogIndex
    MaxDocs,     \* bound on the documents of the index
    MaxLen       \* bound on the words of a text

ASSUME IndexAssumption == MaxDocs \in Nat /\ MaxLen \in Nat /\ Weights \subseteq Nat

NoCity == -1     \* a document whose city is "unknown" or "null", or which has
                 \* no three fields

Texts == UNION {[1..n -> Words] : n \in 0..MaxLen}

VARIABLES
    log,      \* the index is a CDlgLogIndex
    text,     \* the documents: m_doc_vect with its texts
    weight,   \* their weights
    inv,      \* per word: its inverted list, the doc_id of every entry
    pc,       \* "ready", "union", "search", "binary", "call", "sort", "show"
    parts,    \* the words of the query that are searched for
    raw,      \* the words of the query as it was typed
    i,        \* UnionInvResult(): entry of the shortest list
    term,     \* SearchDoc(): word of the query
    index_begins,
    left, right,
    docs,     \* the result of the union
    sort      \* the results: cadidate_sort, for each distance its texts, or
              \* log_docs, for each weight its documents

indexVars == <<log, text, weight, inv>>
searchVars == <<i, term, index_begins, left, right>>
vars == <<indexVars, pc, parts, raw, searchVars, docs, sort>>

TypeOK ==
    /\ log \in BOOLEAN
    /\ text \in Seq(Texts) /\ Len(text) <= MaxDocs
    /\ weight \in Seq(Nat \cup {NoCity}) /\ Len(weight) = Len(text)
    /\ inv \in [Words -> Seq(1..MaxDocs)]
    /\ pc \in {"ready", "union", "search", "binary", "call", "sort", "show"}
    /\ parts \in Seq(Words) /\ raw \in Seq(Words)
    /\ i \in Nat /\ term \in Nat /\ left \in Int /\ right \in Int
    /\ index_begins \in [DOMAIN parts -> Nat \ {0}]

Init ==
    /\ log \in BOOLEAN /\ text = <<>> /\ weight = <<>> /\ inv = [w \in Words |-> <<>>]
    /\ pc = "ready" /\ parts = <<>> /\ raw = <<>>
    /\ i = 0 /\ term = 0 /\ index_begins = <<>> /\ left = 0 /\ right = 0
    /\ docs = <<>> /\ sort = <<>>

RangeOf(s) == {s[k] : k \in DOMAIN s}

-----------------------------------------------------------------------------
(***************************************************************************)
(* Making the index.                                                       *)
(***************************************************************************)
Copies(w, t) == Cardinality({k \in DOMAIN t : t[k] = w})

\* CommonIndex::Add(): one entry for every word of the document, repeated
\* words included.  Save() is called without sorting.  Only CDlgLogIndex
\* gives its documents a weight and a city.
Add(t, w) ==
    /\ pc = "ready" /\ Len(text) < MaxDocs /\ t # <<>>
    /\ log \/ w = 0
    /\ text' = Append(text, t) /\ weight' = Append(weight, w)
    /\ inv' = [x \in Words |-> inv[x] \o [k \in 1..Copies(x, t) |-> Len(text) + 1]]
    /\ UNCHANGED <<log, pc, parts, raw, searchVars, docs, sort>>

-----------------------------------------------------------------------------
(***************************************************************************)
(* GetUnionResults().                                                      *)
(***************************************************************************)
List(k) == inv[parts[k]]

\* GetInvResults(): the first of the shortest of the lists iv of the words p.
ShortestOf(iv, p) ==
    CHOOSE k \in DOMAIN p :
        /\ \A m \in DOMAIN p : Len(iv[p[k]]) <= Len(iv[p[m]])
        /\ \A m \in 1..(k - 1) : Len(iv[p[k]]) < Len(iv[p[m]])
min_index == ShortestOf(inv, parts)
inv_num == Len(List(min_index))
doc_id == List(min_index)[i]

\* GraphSegment() cuts the query, in CDlgIndex the normalised one, and drops
\* stop words; a query that is too short, too long or on the black list is
\* one without words.  CDlgLogIndex does not search for a single word.
GetUnionResults(q) ==
    /\ pc = "ready"
    /\ parts' = q
    /\ pc' = IF Len(q) >= (IF log THEN 2 ELSE 1) THEN "union"
             ELSE IF log THEN "sort" ELSE "call"
    /\ i' = 1 /\ index_begins' = [k \in DOMAIN q |-> 1]
    /\ UNCHANGED <<indexVars, raw, term, left, right, docs, sort>>

\* UnionInvResult(): the next entry of the shortest list.
UnionInvResult ==
    /\ pc = "union"
    /\ \/ i <= inv_num /\ pc' = "search" /\ term' = 1
       \/ i > inv_num /\ pc' = (IF log THEN "sort" ELSE "call") /\ UNCHANGED term
    /\ UNCHANGED <<indexVars, parts, raw, i, index_begins, left, right, docs, sort>>

\* SearchDoc(): the next word, or every word has been looked for.
SearchDoc ==
    /\ pc = "search"
    /\ \/ /\ term > Len(parts)
          /\ docs' = Append(docs, doc_id)
          /\ pc' = "union" /\ i' = i + 1
          /\ UNCHANGED <<term, left, right>>
       \/ /\ term <= Len(parts) /\ term = min_index
          /\ term' = term + 1
          /\ UNCHANGED <<pc, i, left, right, docs>>
       \/ /\ term <= Len(parts) /\ term # min_index
          /\ left' = index_begins[term] /\ right' = Len(List(term))
          /\ pc' = "binary"
          /\ UNCHANGED <<i, term, docs>>
    /\ UNCHANGED <<indexVars, parts, raw, index_begins, sort>>

mid == left + (right - left) \div 2
probe == List(term)[mid]

\* Variant: the next search of a word starts two places on.
Found_Skips ==
    /\ pc = "binary" /\ left <= right /\ probe = doc_id
    /\ index_begins' = [index_begins EXCEPT ![term] = mid + 2]
    /\ term' = term + 1 /\ pc' = "search"
    /\ UNCHANGED <<indexVars, parts, raw, i, left, right, docs, sort>>

\* BinarySearch() finds the document: the next search starts behind it.
Found ==
    /\ pc = "binary" /\ left <= right /\ probe = doc_id
    /\ index_begins' = [index_begins EXCEPT ![term] = mid + 1]
    /\ term' = term + 1 /\ pc' = "search"
    /\ UNCHANGED <<indexVars, parts, raw, i, left, right, docs, sort>>

\* Variant: the middle is looked at again.
Halve_Keeps ==
    /\ pc = "binary" /\ left <= right /\ probe # doc_id
    /\ \/ probe < doc_id /\ left' = mid /\ UNCHANGED right
       \/ probe > doc_id /\ right' = mid - 1 /\ UNCHANGED left
    /\ UNCHANGED <<indexVars, pc, parts, raw, i, term, index_begins, docs, sort>>

\* Variant: the upper half is cut one place too low.
Halve_Short ==
    /\ pc = "binary" /\ left <= right /\ probe # doc_id
    /\ \/ probe < doc_id /\ left' = mid + 2 /\ UNCHANGED right
       \/ probe > doc_id /\ right' = mid - 1 /\ UNCHANGED left
    /\ UNCHANGED <<indexVars, pc, parts, raw, i, term, index_begins, docs, sort>>

Halve ==
    /\ pc = "binary" /\ left <= right /\ probe # doc_id
    /\ \/ probe < doc_id /\ left' = mid + 1 /\ UNCHANGED right
       \/ probe > doc_id /\ right' = mid - 1 /\ UNCHANGED left
    /\ UNCHANGED <<indexVars, pc, parts, raw, i, term, index_begins, docs, sort>>

\* Not found: CDlgLogIndex gives the document up, CDlgIndex goes on.
NotFound ==
    /\ pc = "binary" /\ left > right
    /\ \/ log /\ pc' = "union" /\ i' = i + 1 /\ UNCHANGED term
       \/ ~log /\ pc' = "search" /\ term' = term + 1 /\ UNCHANGED i
    /\ UNCHANGED <<indexVars, parts, raw, index_begins, left, right, docs, sort>>

-----------------------------------------------------------------------------
(***************************************************************************)
(* EditDist.                                                               *)
(***************************************************************************)
Least(a, b) == IF a > b THEN b ELSE a

\* EditDist::edit(): a replaced word counts two.
edit(a, b) ==
    LET ptr[c \in (0..Len(a)) \X (0..Len(b))] ==
          IF c[1] = 0 THEN c[2] ELSE IF c[2] = 0 THEN c[1]
          ELSE Least(Least(ptr[<<c[1], c[2] - 1>>] + 1, ptr[<<c[1] - 1, c[2]>>] + 1),
                     ptr[<<c[1] - 1, c[2] - 1>>] + IF a[c[1]] = b[c[2]] THEN 0 ELSE 2)
    IN  ptr[<<Len(a), Len(b)>>]

\* EditDist::Calculate(): nothing to compare counts as no distance.
Calculate(a, b) == IF a = <<>> \/ b = <<>> THEN 0 ELSE edit(a, b)

\* SEGMENT_1::Segment_() of the query as it was typed, the first thing
\* EditSort() asks for.
Segment_(q) ==
    /\ pc = "call" /\ pc' = "sort"
    /\ raw' = q
    /\ UNCHANGED <<indexVars, parts, searchVars, docs, sort>>

\* One candidate of EditSort(): a text is listed once, under its distance.
Candidate(m, t) ==
    LET d == Calculate(raw, t)
    IN  IF d \notin DOMAIN m
        THEN [e \in DOMAIN m \cup {d} |-> IF e = d THEN <<t>> ELSE m[e]]
        ELSE IF \E e \in DOMAIN m : t \in RangeOf(m[e]) THEN m
        ELSE [m EXCEPT ![d] = Append(@, t)]

\* EditSort() of the texts of docs, the first one still to be placed.
EditSort ==
    /\ pc = "sort" /\ ~log /\ docs # <<>>
    /\ sort' = Candidate(sort, text[Head(docs)]) /\ docs' = Tail(docs)
    /\ UNCHANGED <<indexVars, pc, parts, raw, searchVars>>

\* One document of CDlgLogIndex: listed under its weight (std::sort() leaves
\* the order of equal ones open), unless its city is not known.
Listed(m, d) ==
    IF weight[d] = NoCity THEN m
    ELSE IF weight[d] \in DOMAIN m THEN [m EXCEPT ![weight[d]] = Append(@, d)]
    ELSE [v \in DOMAIN m \cup {weight[d]} |-> IF v = weight[d] THEN <<d>> ELSE m[v]]

LogSort ==
    /\ pc = "sort" /\ log /\ docs # <<>>
    /\ sort' = Listed(sort, Head(docs)) /\ docs' = Tail(docs)
    /\ UNCHANGED <<indexVars, pc, parts, raw, searchVars>>

Sorted ==
    /\ pc = "sort" /\ docs = <<>> /\ pc' = "show"
    /\ UNCHANGED <<indexVars, parts, raw, searchVars, docs, sort>>

\* The results have been shown; cadidate_sort.clear().
Clear ==
    /\ pc = "show" /\ pc' = "ready"
    /\ sort' = <<>> /\ parts' = <<>> /\ raw' = <<>>
    /\ i' = 0 /\ term' = 0 /\ index_begins' = <<>> /\ left' = 0 /\ right' = 0
    /\ UNCHANGED <<indexVars, docs>>

-----------------------------------------------------------------------------
Search == \/ UnionInvResult \/ SearchDoc \/ Found \/ Halve \/ NotFound
          \/ EditSort \/ LogSort \/ Sorted \/ Clear
          \/ \E q \in Texts : Segment_(q)
Next == \/ Search
        \/ \E t \in Texts : \/ GetUnionResults(t)
                            \/ \E w \in Weights \cup {0, NoCity} : Add(t, w)

Spec == Init /\ [][Next]_vars
FairSpec == Spec /\ WF_vars(Search)

-----------------------------------------------------------------------------
(* The entries of every list are in the order of their documents, which    *)
(* BinarySearch() relies on; a repeated word has repeated entries.         *)
ListsOrdered ==
    \A w \in Words : \A j, k \in DOMAIN inv[w] : j < k => inv[w][j] <= inv[w][k]

(* BinarySearch() looks at entries of the list only, and never cuts off    *)
(* the document it looks for, although it starts behind the last one found *)
(* and lists may hold a document more than once.                           *)
BinarySafe ==
    pc = "binary" =>
        /\ left >= 1 /\ right <= Len(List(term))
        /\ \A k \in DOMAIN List(term) :
              List(term)[k] = doc_id /\ k >= index_begins[term] => left <= k /\ k <= right

Has(w) == {d \in DOMAIN text : w \in RangeOf(text[d])}
Wanted ==
    IF Len(parts) < (IF log THEN 2 ELSE 1) THEN {}
    ELSE IF log THEN {d \in DOMAIN text : RangeOf(parts) \subseteq RangeOf(text[d])}
    ELSE Has(parts[min_index])

\* Words in common in the same order, by their places in both texts.
Common(a, b) ==
    {m \in SUBSET ((1..Len(a)) \X (1..Len(b))) :
        /\ \A p \in m : a[p[1]] = b[p[2]]
        /\ \A p, q \in m : p # q => (p[1] < q[1] /\ p[2] < q[2]) \/ (q[1] < p[1] /\ q[2] < p[2])}
Distance(a, b) ==
    Len(a) + Len(b) - 2 * Cardinality(CHOOSE m \in Common(a, b) :
                              \A n \in Common(a, b) : Cardinality(n) <= Cardinality(m))

(* What a query finds.  CDlgLogIndex lists the documents with all words of *)
(* the query and a known city, under their weights.  CDlgIndex, where      *)
(* SearchDoc() goes on when a word is not found, lists the texts of the    *)
(* documents with the rarest word, each once, under its distance from the  *)
(* query as it was typed.                                                  *)
Results == UNION {RangeOf(sort[d]) : d \in DOMAIN sort}
SearchComplete ==
    pc = "show" =>
        IF log
        THEN /\ Results = {d \in Wanted : weight[d] # NoCity}
             /\ \A v \in DOMAIN sort : \A j \in DOMAIN sort[v] : weight[sort[v][j]] = v
        ELSE /\ Results = {text[d] : d \in Wanted}
             /\ \A d \in DOMAIN sort, e \in DOMAIN sort :
                  \A j \in DOMAIN sort[d], k \in DOMAIN sort[e] :
                     /\ raw # <<>> => d = Distance(raw, sort[d][j])
                     /\ sort[d][j] = sort[e][k] => d = e /\ j = k

(* The comments of GetUnionResults() and UnionInvResult() call the result  *)
(* of CDlgIndex the intersection of the lists, and want every word of the  *)
(* query to occur; the return statements for that are commented out.       *)
AllWordsHeld ==
    pc = "show" /\ ~log => \A t \in Results : RangeOf(parts) \subseteq RangeOf(t)

(* Every query is answered: the binary search ends.                        *)
QueryEnds == pc # "ready" ~> pc = "ready"
=============================================================================
