------------------------ MODULE ClientResponseProofs ------------------------
(***************************************************************************)
(* Proofs about ClientResponse, for any sizes of the buffers, any lengths  *)
(* of header and content and any number of requests.                       *)
(***************************************************************************)
EXTENDS ClientResponse, SequenceTheorems, WellFoundedInduction, TLAPS

(* A set of numbers has a least one.                                       *)
LEMMA LeastNumber ==
    ASSUME NEW T, T \subseteq Nat, T # {} PROVE \E m \in T : \A k \in T : m <= k
<1>1. PICK m \in T : \A k \in T : ~ (<<k, m>> \in OpToRel(<, Nat))
    BY NatLessThanWellFounded, WFMin
<1>2. \A k \in T : k < m => <<k, m>> \in OpToRel(<, Nat)
    BY DEF OpToRel
<1>3. \A k \in T : ~ (k < m)
    BY <1>1, <1>2, Zenon
<1> QED BY <1>3

(* A piece of a response is a sequence of its bytes.                       *)
LEMMA SegType ==
    ASSUME NEW r \in Requests, NEW a \in Nat, NEW b \in Nat, a <= b
    PROVE  /\ Segment(r, a + 1, b) \in Seq(Bytes)
           /\ Len(Segment(r, a + 1, b)) = b - a
           /\ \A i \in 1..(b - a) : Segment(r, a + 1, b)[i] = <<r, a + i>>
<1>1. b - (a + 1) + 1 = b - a /\ b - a \in Nat
    OBVIOUS
<1>2. \A i \in 1..(b - a) : a + 1 + i - 1 = a + i /\ <<r, a + i>> \in Bytes
    BY DEF Bytes
<1>3. Segment(r, a + 1, b) = [i \in 1..(b - a) |-> <<r, a + i>>]
    BY <1>1, <1>2 DEF Segment
<1>4. Segment(r, a + 1, b) \in [1..(b - a) -> Bytes]
    BY <1>2, <1>3
<1> QED BY <1>1, <1>3, <1>4

(* The first bytes of a response.                                          *)
LEMMA SegFirst ==
    ASSUME NEW r \in Requests, NEW b \in Nat
    PROVE  Segment(r, 1, b) \in Seq(Bytes) /\ Len(Segment(r, 1, b)) = b
<1>1. PICK a \in Nat : a = 0
    OBVIOUS
<1>2. a <= b /\ a + 1 = 1 /\ b - a = b
    BY <1>1
<1>3. Segment(r, a + 1, b) \in Seq(Bytes) /\ Len(Segment(r, a + 1, b)) = b - a
    BY <1>2, SegType
<1> QED BY <1>2, <1>3

(* Two pieces of a response that follow each other make one.               *)
LEMMA SegConcat ==
    ASSUME NEW r \in Requests, NEW a \in Nat, NEW b \in Nat, NEW c \in Nat, a <= b, b <= c
    PROVE  Segment(r, a + 1, b) \o Segment(r, b + 1, c) = Segment(r, a + 1, c)
<1> DEFINE s == Segment(r, a + 1, b)
           t == Segment(r, b + 1, c)
           u == Segment(r, a + 1, c)
<1>1. s \in Seq(Bytes) /\ Len(s) = b - a /\ \A i \in 1..(b - a) : s[i] = <<r, a + i>>
    BY SegType
<1>2. t \in Seq(Bytes) /\ Len(t) = c - b /\ \A i \in 1..(c - b) : t[i] = <<r, b + i>>
    BY SegType
<1>3. u \in Seq(Bytes) /\ Len(u) = c - a /\ \A i \in 1..(c - a) : u[i] = <<r, a + i>>
    BY SegType
<1> HIDE DEF s, t, u
<1>4. /\ s \o t \in Seq(Bytes) /\ Len(s \o t) = c - a
      /\ \A i \in 1..(c - a) : (s \o t)[i] = IF i <= b - a THEN s[i] ELSE t[i - (b - a)]
    <2>1. /\ s \o t \in Seq(Bytes) /\ Len(s \o t) = Len(s) + Len(t)
          /\ \A i \in 1..(Len(s) + Len(t)) :
                (s \o t)[i] = IF i <= Len(s) THEN s[i] ELSE t[i - Len(s)]
        BY <1>1, <1>2, ConcatProperties
    <2>2. Len(s) + Len(t) = c - a
        BY <1>1, <1>2
    <2> QED BY <2>1, <2>2, <1>1
<1>5. ASSUME NEW i \in 1..(c - a) PROVE (s \o t)[i] = u[i]
    <2>1. CASE i <= b - a
        <3>1. i \in 1..(b - a)
            BY <2>1
        <3> QED BY <3>1, <2>1, <1>1, <1>3, <1>4
    <2>2. CASE ~(i <= b - a)
        <3>1. i - (b - a) \in 1..(c - b) /\ b + (i - (b - a)) = a + i
            BY <2>2
        <3> QED BY <3>1, <2>2, <1>2, <1>3, <1>4
    <2> QED BY <2>1, <2>2
<1>6. s \o t = u
    BY <1>3, <1>4, <1>5, SeqEqual
<1> QED BY <1>6 DEF s, t, u

(* A piece of a piece of a response is a piece of the response.            *)
LEMMA SegSub ==
    ASSUME NEW r \in Requests, NEW a \in Nat, NEW c \in Nat, NEW i \in Nat, NEW j \in Nat,
           a <= i, i <= j, j <= c
    PROVE  SubSeq(Segment(r, a + 1, c), i - a + 1, j - a) = Segment(r, i + 1, j)
<1> DEFINE s == Segment(r, a + 1, c)
           u == Segment(r, i + 1, j)
<1>1. s \in Seq(Bytes) /\ Len(s) = c - a /\ \A k \in 1..(c - a) : s[k] = <<r, a + k>>
    BY SegType
<1>2. u \in Seq(Bytes) /\ Len(u) = j - i /\ \A k \in 1..(j - i) : u[k] = <<r, i + k>>
    BY SegType
<1> HIDE DEF s, u
<1>3. PICK d \in Nat, e \in Nat : d = i - a /\ e = j - a
    OBVIOUS
<1>4. d <= e /\ e <= c - a /\ e - d = j - i
    BY <1>3
<1>5. /\ SubSeq(s, d + 1, e) \in Seq(Bytes) /\ Len(SubSeq(s, d + 1, e)) = j - i
      /\ \A k \in 1..(j - i) : SubSeq(s, d + 1, e)[k] = s[d + k]
    <2>1. \A k \in (d + 1)..e : s[k] \in Bytes
        BY <1>1, <1>4, ElementOfSeq
    <2>2. /\ SubSeq(s, d + 1, e) \in Seq(Bytes)
          /\ Len(SubSeq(s, d + 1, e)) = IF d + 1 <= e THEN e - (d + 1) + 1 ELSE 0
          /\ \A k \in 1..(e - (d + 1) + 1) : SubSeq(s, d + 1, e)[k] = s[d + 1 + k - 1]
        BY <2>1, SubSeqProperties
    <2>3. e - (d + 1) + 1 = j - i /\ \A k \in 1..(j - i) : d + 1 + k - 1 = d + k
        BY <1>4
    <2>4. ~(d + 1 <= e) => j - i = 0
        BY <1>4
    <2> QED BY <2>2, <2>3, <2>4
<1>6. ASSUME NEW k \in 1..(j - i) PROVE SubSeq(s, d + 1, e)[k] = u[k]
    <2>1. d + k \in 1..(c - a) /\ a + (d + k) = i + k
        BY <1>3
    <2> QED BY <2>1, <1>1, <1>2, <1>5
<1>7. SubSeq(s, d + 1, e) = u
    BY <1>2, <1>5, <1>6, SeqEqual
<1> QED BY <1>3, <1>7 DEF s, u

(* A read takes the next bytes of a response from the connection.          *)
LEMMA SegNext ==
    ASSUME NEW r \in Requests, NEW c \in Nat, NEW d \in Nat, NEW n \in Nat, c <= d, d <= n
    PROVE  SubSeq(Segment(r, c + 1, n), 1, d - c) = Segment(r, c + 1, d)
<1>1. SubSeq(Segment(r, c + 1, n), c - c + 1, d - c) = Segment(r, c + 1, d)
    BY SegSub
<1>2. c - c + 1 = 1
    OBVIOUS
<1> QED BY <1>1, <1>2

(* The other bytes are still to come.                                      *)
LEMMA SegRest ==
    ASSUME NEW r \in Requests, NEW c \in Nat, NEW d \in Nat, NEW n \in Nat, c <= d, d <= n
    PROVE  SubSeq(Segment(r, c + 1, n), d - c + 1, Len(Segment(r, c + 1, n)))
                = Segment(r, d + 1, n)
<1>1. SubSeq(Segment(r, c + 1, n), d - c + 1, n - c) = Segment(r, d + 1, n)
    BY SegSub
<1>2. Len(Segment(r, c + 1, n)) = n - c
    <2>1. c <= n
        OBVIOUS
    <2> QED BY <2>1, SegType
<1> QED BY <1>1, <1>2

(* The piece of a response without a byte, and the only such one.          *)
LEMMA SegEmpty ==
    ASSUME NEW r \in Requests, NEW a \in Nat, NEW b \in Nat, a <= b
    PROVE  Segment(r, a + 1, b) = <<>> <=> a = b
<1>1. Segment(r, a + 1, b) \in Seq(Bytes) /\ Len(Segment(r, a + 1, b)) = b - a
    BY SegType
<1>2. b - a = 0 <=> a = b
    OBVIOUS
<1> QED BY <1>1, <1>2, EmptySeq

-----------------------------------------------------------------------------
(***************************************************************************)
(* Types.                                                                  *)
(***************************************************************************)
(* Parts of a sequence of bytes.                                           *)
LEMMA Parts ==
    ASSUME NEW s \in Seq(Bytes), NEW k \in Nat, k <= Len(s)
    PROVE  /\ SubSeq(s, 1, k) \in Seq(Bytes) /\ Len(SubSeq(s, 1, k)) = k
           /\ SubSeq(s, k + 1, Len(s)) \in Seq(Bytes)
           /\ Len(SubSeq(s, k + 1, Len(s))) = Len(s) - k
    OBVIOUS

(* strstr() points into what was read.                                     *)
LEMMA SepIn ==
    ASSUME NEW s \in Seq(Bytes), FirstSep(s) # 0
    PROVE  /\ FirstSep(s) \in SepEnds(s) /\ FirstSep(s) \in Nat /\ FirstSep(s) <= Len(s)
           /\ Sep <= FirstSep(s)
<1>1. Len(s) \in Nat /\ Sep \in Nat
    BY ClientAssumption
<1>2. SepEnds(s) # {} /\ SepEnds(s) \subseteq Nat
    <2>1. SepEnds(s) # {}
        BY DEF FirstSep
    <2>2. Sep..Len(s) \subseteq Nat
        BY <1>1
    <2> QED BY <2>1, <2>2 DEF SepEnds
<1>3. PICK m \in SepEnds(s) : \A k \in SepEnds(s) : m <= k
    BY <1>2, LeastNumber
<1>4. FirstSep(s) \in SepEnds(s)
    BY <1>2, <1>3 DEF FirstSep
<1> QED BY <1>1, <1>4 DEF SepEnds

(* The header names a request that was made.                               *)
LEMMA FieldType ==
    ASSUME TypeOK, NEW s \in Seq(Bytes) PROVE FieldIn(s) \in 0..MaxRequests
<1> DEFINE at == {j \in 1..Len(s) : s[j][2] = 1 /\ layout[s[j][1]].content # NoContent}
<1>1. CASE field # 0 \/ at = {}
    BY <1>1 DEF FieldIn, TypeOK
<1>2. CASE field = 0 /\ at # {}
    <2>1. at \subseteq Nat
        OBVIOUS
    <2>2. PICK m \in at : \A k \in at : m <= k
        BY <2>1, <1>2, LeastNumber
    <2> DEFINE j0 == CHOOSE j \in at : \A k \in at : j <= k
    <2>3. j0 \in at
        BY <2>2
    <2>4. FieldIn(s) = s[j0][1]
        BY <1>2 DEF FieldIn
    <2>5. j0 \in 1..Len(s)
        BY <2>3
    <2> HIDE DEF j0
    <2>6. s[j0] \in Requests \X Nat
        BY <2>5 DEF Bytes
    <2> QED BY <2>4, <2>6, ClientAssumption DEF Requests
<1> QED BY <1>1, <1>2

(* A header has at least its separator, a content at least no byte.        *)
LEMMA LayoutType ==
    ASSUME TypeOK, NEW r \in Requests
    PROVE  /\ layout[r].head \in Heads /\ layout[r].head \in Nat /\ layout[r].head > Sep
           /\ layout[r].head < max_dest_len
           /\ layout[r].content \in Nat \cup {NoContent} /\ layout[r].content \in Int
<1>1. layout[r] \in [head : Heads, content : Contents \cup {NoContent}]
    BY DEF TypeOK
<1>2. layout[r].head \in Heads /\ layout[r].content \in Contents \cup {NoContent}
    BY <1>1
<1>3. /\ \A h \in Heads : h \in Nat /\ h > Sep /\ h < max_dest_len
      /\ Contents \subseteq Nat
    BY ClientAssumption
<1>4. layout[r].content \in Nat \cup {NoContent}
    BY <1>2, <1>3
<1>5. NoContent \in Int
    BY DEF NoContent
<1> QED BY <1>2, <1>3, <1>4, <1>5

(***************************************************************************)
(* The two halves of TypeOK: what only send() and the connection change,   *)
(* and what recv() works on.                                               *)
(***************************************************************************)
NetOK ==
    /\ connected \in BOOLEAN /\ cut \in BOOLEAN /\ sync \in BOOLEAN
    /\ layout \in [Requests -> [head : Heads, content : Contents \cup {NoContent}]]

FlowOK ==
    /\ req \in 0..MaxRequests
    /\ wire \in Seq(Bytes) /\ buf \in Seq(Bytes) /\ body \in Seq(Bytes)
    /\ pc \in {"idle", "header", "parse", "body", "check"}
    /\ field \in 0..MaxRequests
    /\ need \in 0..max_buf_len
    /\ ret \in Errors \cup {"none", "ok"}
    /\ Len(buf) <= IF pc \in {"header", "parse"} THEN READ_BUF_SIZE ELSE need

(* TypeOK is the two of them.                                              *)
LEMMA TypeHalves == TypeOK <=> NetOK /\ FlowOK
    BY Zenon DEF TypeOK, NetOK, FlowOK

(* The buffers of recv() with what still has to come.                      *)
LimitInv ==
    /\ NetOK /\ FlowOK
    /\ Len(body) + (IF pc \in {"body", "check"} THEN need ELSE 0) <= max_buf_len

(* The numbers of ClientAssumption.                                        *)
LEMMA Sizes == /\ Sep \in Nat /\ Sep # 0 /\ READ_BUF_SIZE \in Nat /\ Sep < READ_BUF_SIZE
               /\ max_buf_len \in Nat /\ READ_BUF_SIZE <= max_buf_len
               /\ max_dest_len \in Nat /\ MaxRequests \in Nat
    BY ClientAssumption

(* The empty buffer.                                                       *)
LEMMA Nothing == <<>> \in Seq(Bytes) /\ Len(<<>>) = 0
    BY EmptySeq

(* At the start nothing is in a buffer.                                    *)
LEMMA InitLimit == Init => LimitInv
<1> SUFFICES ASSUME Init PROVE LimitInv
    OBVIOUS
<1>1. (CHOOSE h \in Heads : TRUE) \in Heads
    BY ClientAssumption
<1>2. NetOK
    BY <1>1 DEF Init, NetOK
<1>3. FlowOK
    BY Sizes DEF Init, FlowOK
<1> QED BY <1>2, <1>3, Sizes DEF Init, LimitInv

(* send() starts with empty buffers.                                       *)
LEMMA SendLimit ==
    ASSUME LimitInv, NEW h \in Heads, NEW c \in Contents \cup {NoContent},
           NEW sent \in 0..dump_to_buff(h, c), send(h, c, sent)
    PROVE  LimitInv'
<1>0. NetOK /\ FlowOK
    BY DEF LimitInv
<1>1. /\ h \in Nat /\ (c # NoContent => c \in Nat)
    BY ClientAssumption
<1>2. sent \in Nat
    BY <1>1 DEF dump_to_buff
<1>3. /\ req < MaxRequests /\ req' = req + 1
      /\ layout' = [layout EXCEPT ![req + 1] = [head |-> h, content |-> c]]
      /\ wire' = wire \o Segment(req + 1, 1, sent)
      /\ buf' = <<>> /\ body' = <<>> /\ need' = 0 /\ field' = 0 /\ pc' = "header" /\ ret' = "none"
    BY DEF send
<1>4. req + 1 \in Requests /\ req + 1 \in 0..MaxRequests
    BY <1>0, <1>3, Sizes DEF FlowOK, Requests
<1>5. wire' \in Seq(Bytes)
    <2>1. Segment(req + 1, 1, sent) \in Seq(Bytes)
        BY <1>2, <1>4, SegFirst
    <2> QED BY <2>1, <1>0, <1>3, ConcatProperties DEF FlowOK
<1>6. layout' \in [Requests -> [head : Heads, content : Contents \cup {NoContent}]]
    BY <1>0, <1>3 DEF NetOK
<1>7. cut' \in BOOLEAN /\ sync' \in BOOLEAN /\ connected' \in BOOLEAN
    <2>1. cut' = (sent < dump_to_buff(h, c))
        BY DEF send
    <2>2. sync' = (sync /\ ret \in {"none", "ok", "NOTHING_LEFT"}) /\ connected' = connected
        BY DEF send
    <2>3. sync' \in BOOLEAN /\ connected' \in BOOLEAN
        BY <2>2, <1>0, Zenon DEF NetOK
    <2> QED BY <2>1, <2>3
<1>8. FlowOK'
    BY <1>3, <1>4, <1>5, Sizes DEF FlowOK
<1>9. Len(body') = 0 /\ pc' \notin {"body", "check"}
    BY <1>3
<1> QED BY <1>6, <1>7, <1>8, <1>9, Sizes DEF LimitInv, NetOK

(* The connection does not touch the buffers.                              *)
LEMMA OpenLimit ==
    ASSUME LimitInv, connect_server \/ disconnect PROVE LimitInv'
<1>1. /\ UNCHANGED <<layout, req, pc, buf, field, body, need>>
      /\ wire' \in {wire, <<>>} /\ ret' \in {"none", ret}
    BY DEF connect_server, disconnect, recvVars
<1>2. connected' \in BOOLEAN /\ cut' = cut /\ sync' \in {sync, TRUE}
    BY DEF connect_server, disconnect
<1>3. NetOK'
    BY <1>1, <1>2, Zenon DEF LimitInv, NetOK
<1>4. FlowOK'
    BY <1>1, Nothing DEF LimitInv, FlowOK
<1> QED BY <1>1, <1>3, <1>4 DEF LimitInv

(* A read() writes no more than readn_timeout() has still to read.         *)
LEMMA ReadLimit ==
    ASSUME LimitInv, NEW k \in 1..READ_BUF_SIZE, read_data(k) PROVE LimitInv'
<1>0. NetOK /\ FlowOK
    BY DEF LimitInv
<1>1. k \in Nat /\ k <= Left /\ k <= Len(wire)
    <2>1. Left \in Int /\ Len(wire) \in Int
        BY <1>0, Sizes DEF Left, FlowOK
    <2>2. k <= Least(Least(Left, READ_BUF_SIZE), Len(wire))
        BY DEF read_data
    <2> HIDE DEF Left
    <2> QED BY <2>1, <2>2, Sizes DEF Least
<1>2. /\ buf' = buf \o SubSeq(wire, 1, k) /\ wire' = SubSeq(wire, k + 1, Len(wire))
      /\ UNCHANGED <<connected, layout, req, field, body, need, ret, cut, sync>>
    BY DEF read_data
<1>3. buf' \in Seq(Bytes) /\ Len(buf') = Len(buf) + k /\ wire' \in Seq(Bytes)
    BY <1>0, <1>1, <1>2, Parts, ConcatProperties DEF FlowOK
<1>4. NetOK'
    BY <1>0, <1>2, Zenon DEF NetOK
<1>5. CASE pc = "header"
    <2>1. pc' \in {"header", "parse"}
        BY <1>0, <1>1, <1>5, Sizes DEF read_data, Left, FlowOK
    <2>2. Len(buf') <= READ_BUF_SIZE
        BY <1>0, <1>1, <1>3, <1>5, Sizes DEF Left, FlowOK
    <2>3. FlowOK'
        BY <2>1, <2>2, <1>0, <1>2, <1>3 DEF FlowOK
    <2> QED BY <2>1, <2>3, <1>2, <1>4, <1>5 DEF LimitInv
<1>6. CASE pc = "body"
    <2>1. pc' \in {"body", "check"}
        BY <1>0, <1>1, <1>6, Sizes DEF read_data, Left, FlowOK
    <2>2. Len(buf') <= need
        BY <1>0, <1>1, <1>3, <1>6, Sizes DEF Left, FlowOK
    <2>3. FlowOK'
        BY <2>1, <2>2, <1>0, <1>2, <1>3 DEF FlowOK
    <2> QED BY <2>1, <2>3, <1>2, <1>4, <1>6 DEF LimitInv
<1> QED BY <1>5, <1>6 DEF read_data

(* A timeout leaves the buffers alone.                                     *)
LEMMA TimeoutLimit == ASSUME LimitInv, Timeout PROVE LimitInv'
<1>1. /\ UNCHANGED <<connected, layout, req, wire, buf, field, body, need, ret, sync>>
      /\ pc \in {"header", "body"} /\ pc' = IF pc = "header" THEN "parse" ELSE "check"
    BY DEF Timeout, netVars
<1>2. NetOK'
    <2>1. cut' \in BOOLEAN
        BY DEF Timeout
    <2> QED BY <1>1, <2>1, Zenon DEF LimitInv, NetOK
<1>3. FlowOK'
    BY <1>1 DEF LimitInv, FlowOK
<1> QED BY <1>1, <1>2, <1>3 DEF LimitInv

(* Bytes of a header without its end are dropped from buf.                 *)
LEMMA NoHeaderLimit == ASSUME LimitInv, NoHeader PROVE LimitInv'
<1>0. NetOK /\ FlowOK
    BY DEF LimitInv
<1>1. FieldIn(buf) \in 0..MaxRequests
    BY <1>0, FieldType, TypeHalves DEF FlowOK
<1>2. /\ pc = "parse" /\ pc' \in {"idle", "header"} /\ buf' = <<>>
      /\ field' \in {field, FieldIn(buf)} /\ ret' \in {ret, "INVALID_HEADER"}
      /\ UNCHANGED <<connected, layout, req, wire, body, need, cut, sync>>
    BY DEF NoHeader, Return, netVars
<1>3. NetOK'
    BY <1>0, <1>2, Zenon DEF NetOK
<1>4. FlowOK'
    <2>1. buf' \in Seq(Bytes) /\ Len(buf') = 0
        BY <1>2, Nothing
    <2>2. ret' \in Errors \cup {"none", "ok"} /\ field' \in 0..MaxRequests
        BY <1>0, <1>1, <1>2 DEF FlowOK, Errors
    <2> QED BY <1>0, <1>2, <2>1, <2>2, Sizes DEF FlowOK
<1> QED BY <1>2, <1>3, <1>4 DEF LimitInv

(* The content is compared with max_buf_len before any of it is stored.    *)
LEMMA HeaderLimit == ASSUME LimitInv, Header PROVE LimitInv'
<1> DEFINE n == FirstSep(buf)
           f == FieldIn(SubSeq(buf, 1, n))
           part == SubSeq(buf, n + 1, Len(buf))
<1>0. NetOK /\ FlowOK /\ TypeOK
    BY TypeHalves DEF LimitInv
<1>1. n \in Nat /\ n <= Len(buf)
    BY <1>0, SepIn DEF Header, FlowOK
<1>2. /\ SubSeq(buf, 1, n) \in Seq(Bytes)
      /\ part \in Seq(Bytes) /\ Len(part) = Len(buf) - n
    BY <1>0, <1>1, Parts DEF FlowOK
<1>3. f \in 0..MaxRequests
    BY <1>0, <1>2, FieldType
<1>4. f # 0 => f \in Requests /\ layout[f].content \in Int
    BY <1>0, <1>3, LayoutType, Sizes DEF Requests
<1>5. /\ pc = "parse" /\ field' = f
      /\ \/ Return("INVALID_HEADER") /\ UNCHANGED <<body, need>>
         \/ Return("NOT_ENOUGH_BUFF") /\ UNCHANGED <<body, need>>
         \/ body' = part /\ Return("NOTHING_LEFT") /\ UNCHANGED need
         \/ /\ f # 0 /\ body' = part /\ layout[f].content <= max_buf_len
            /\ layout[f].content > Len(part)
            /\ need' = layout[f].content - Len(part)
            /\ pc' = "body" /\ buf' = <<>> /\ UNCHANGED ret
    BY DEF Header
<1>6. UNCHANGED <<connected, layout, req, wire, cut, sync>> /\ pc = "parse" /\ field' = f
    BY DEF Header, netVars
<1> HIDE DEF n, f, part
<1>7. NetOK'
    BY <1>0, <1>6, Zenon DEF NetOK
<1>11. Len(part) \in Nat /\ Len(part) <= max_buf_len
    <2>1. Len(buf) \in Nat /\ Len(buf) <= READ_BUF_SIZE
        BY <1>0, <1>6 DEF FlowOK
    <2> QED BY <2>1, <1>1, <1>2, Sizes
<1>12. /\ req' \in 0..MaxRequests /\ wire' \in Seq(Bytes) /\ field' \in 0..MaxRequests
       /\ ret \in Errors \cup {"none", "ok"} /\ need \in 0..max_buf_len /\ body \in Seq(Bytes)
       /\ Len(body) \in Nat /\ Len(body) <= max_buf_len
    BY <1>0, <1>3, <1>6, Sizes DEF FlowOK, LimitInv
<1>8. CASE UNCHANGED <<body, need>> /\ (Return("INVALID_HEADER") \/ Return("NOT_ENOUGH_BUFF"))
    <2>1. pc' = "idle" /\ buf' = <<>> /\ ret' \in Errors
        BY <1>8 DEF Return, Errors
    <2>2. FlowOK'
        BY <2>1, <1>8, <1>12, Nothing, Sizes DEF FlowOK
    <2> QED BY <2>1, <2>2, <1>7, <1>8, <1>12 DEF LimitInv
<1>9. CASE body' = part /\ Return("NOTHING_LEFT") /\ UNCHANGED need
    <2>1. pc' = "idle" /\ buf' = <<>> /\ ret' \in Errors
        BY <1>9 DEF Return, Errors
    <2>2. FlowOK'
        BY <2>1, <1>2, <1>9, <1>12, Nothing, Sizes DEF FlowOK
    <2> QED BY <2>1, <2>2, <1>7, <1>9, <1>11 DEF LimitInv
<1>10. CASE /\ f # 0 /\ body' = part /\ layout[f].content <= max_buf_len
            /\ layout[f].content > Len(part)
            /\ need' = layout[f].content - Len(part)
            /\ pc' = "body" /\ buf' = <<>> /\ UNCHANGED ret
    <2>1. need' \in 0..max_buf_len /\ Len(body') + need' <= max_buf_len
        BY <1>4, <1>10, <1>11, Sizes
    <2>2. FlowOK'
        BY <2>1, <1>2, <1>10, <1>12, Nothing DEF FlowOK
    <2> QED BY <2>1, <2>2, <1>7, <1>10 DEF LimitInv
<1> QED BY <1>5, <1>8, <1>9, <1>10

(* The rest of the content fits behind its first part.                     *)
LEMMA ContentLimit == ASSUME LimitInv, Content PROVE LimitInv'
<1>0. NetOK /\ FlowOK
    BY DEF LimitInv
<1>1. /\ pc = "check" /\ body' = body \o buf /\ pc' = "idle" /\ buf' = <<>>
      /\ ret' \in {"ok", "READ_TIMEOUT"}
      /\ UNCHANGED <<connected, layout, req, wire, field, need, cut, sync>>
    BY DEF Content, Return, netVars
<1>2. body' \in Seq(Bytes) /\ Len(body') = Len(body) + Len(buf)
    BY <1>0, <1>1, ConcatProperties DEF FlowOK
<1>3. Len(body') <= max_buf_len
    BY <1>0, <1>1, <1>2, Sizes DEF LimitInv, FlowOK
<1>4. NetOK'
    BY <1>0, <1>1, Zenon DEF NetOK
<1>5. FlowOK'
    <2>1. buf' \in Seq(Bytes) /\ Len(buf') = 0 /\ ret' \in Errors \cup {"none", "ok"}
        BY <1>1, Nothing DEF Errors
    <2> QED BY <2>1, <1>0, <1>1, <1>2, Sizes DEF FlowOK
<1> QED BY <1>1, <1>3, <1>4, <1>5 DEF LimitInv

(* The types, and the limit of the caller's buffer with what readn_timeout() *)
(* may still store.                                                        *)
THEOREM LimitInvariant == Spec => []LimitInv
<1>1. LimitInv /\ [Next]_vars => LimitInv'
    <2> SUFFICES ASSUME LimitInv, [Next]_vars PROVE LimitInv'
        OBVIOUS
    <2>1. CASE Next
        BY <2>1, SendLimit, OpenLimit, ReadLimit, TimeoutLimit, NoHeaderLimit, HeaderLimit,
           ContentLimit DEF Next, recv
    <2>2. CASE UNCHANGED vars
        <3>1. NetOK'
            BY <2>2, Zenon DEF vars, netVars, recvVars, LimitInv, NetOK
        <3>2. FlowOK'
            BY <2>2 DEF vars, netVars, recvVars, LimitInv, FlowOK
        <3> QED BY <2>2, <3>1, <3>2 DEF vars, netVars, recvVars, LimitInv
    <2> QED BY <2>1, <2>2
<1> QED BY <1>1, InitLimit, PTL DEF Spec

(* recv() never writes behind a buffer.                                    *)
THEOREM NeverOverrun == Spec => []BufferSafe
<1>1. LimitInv => BufferSafe
    BY TypeHalves, Sizes DEF LimitInv, BufferSafe, FlowOK
<1> QED BY <1>1, LimitInvariant, PTL

(* A number within the q-th read.                                          *)
LEMMA DivIs ==
    ASSUME NEW a \in Nat, NEW q \in Nat,
           q * READ_BUF_SIZE <= a, a < q * READ_BUF_SIZE + READ_BUF_SIZE
    PROVE  a \div READ_BUF_SIZE = q
<1> DEFINE R == READ_BUF_SIZE
           d == a \div READ_BUF_SIZE
<1>1. R \in Nat /\ R > 0
    BY Sizes
<1>2. d \in Int /\ d * R <= a /\ a < d * R + R
    BY <1>1
<1> HIDE DEF d, R
<1>3. q * R <= a /\ a < q * R + R
    BY DEF R
<1>4. CASE d < q
    <2>1. q - d \in Nat /\ q - d >= 1
        BY <1>2, <1>4
    <2>2. (q - d) * R >= R
        BY <1>1, <2>1
    <2>3. (q - d) * R = q * R - d * R
        BY <1>1, <1>2
    <2> QED BY <1>1, <1>2, <1>3, <2>2, <2>3
<1>5. CASE d > q
    <2>1. d - q \in Nat /\ d - q >= 1
        BY <1>2, <1>5
    <2>2. (d - q) * R >= R
        BY <1>1, <2>1
    <2>3. (d - q) * R = d * R - q * R
        BY <1>1, <1>2
    <2> QED BY <1>1, <1>2, <1>3, <2>2, <2>3
<1>6. CASE d = q
    BY <1>6 DEF d
<1> QED BY <1>2, <1>4, <1>5, <1>6

(* The q-th read holds the last byte of the header: it holds the whole     *)
(* separator unless that lies across two reads.                            *)
LEMMA BlockOf ==
    ASSUME NEW q \in Nat, NEW b \in Nat, b = q * READ_BUF_SIZE,
           NEW h \in Nat, h > Sep, b < h, h <= b + READ_BUF_SIZE
    PROVE  /\ ReadFor(h) = b + READ_BUF_SIZE
           /\ Across(h) <=> h - Sep < b
<1>0. /\ READ_BUF_SIZE \in Nat /\ Sep \in Nat /\ h - Sep \in Nat /\ h - 1 \in Nat
      /\ h + READ_BUF_SIZE - 1 \in Nat /\ q + 1 \in Nat
    BY Sizes
<1>1. (h - 1) \div READ_BUF_SIZE = q
    <2>1. q * READ_BUF_SIZE <= h - 1 /\ h - 1 < q * READ_BUF_SIZE + READ_BUF_SIZE
        BY <1>0
    <2> QED BY <1>0, <2>1, DivIs
<1>2. (h + READ_BUF_SIZE - 1) \div READ_BUF_SIZE = q + 1
    <2>1. (q + 1) * READ_BUF_SIZE = b + READ_BUF_SIZE
        BY <1>0
    <2>2. /\ (q + 1) * READ_BUF_SIZE <= h + READ_BUF_SIZE - 1
          /\ h + READ_BUF_SIZE - 1 < (q + 1) * READ_BUF_SIZE + READ_BUF_SIZE
        BY <1>0, <2>1
    <2> QED BY <1>0, <2>2, DivIs
<1>3. ReadFor(h) = b + READ_BUF_SIZE
    BY <1>0, <1>2 DEF ReadFor
<1>4. CASE h - Sep < b
    <2> DEFINE d == (h - Sep) \div READ_BUF_SIZE
    <2>1. d * READ_BUF_SIZE <= h - Sep
        BY <1>0, Sizes
    <2>2. d # q
        <3> HIDE DEF d
        <3> QED BY <1>0, <1>4, <2>1
    <2> QED BY <1>1, <1>3, <1>4, <2>2 DEF Across
<1>5. CASE ~(h - Sep < b)
    <2>1. q * READ_BUF_SIZE <= h - Sep /\ h - Sep < q * READ_BUF_SIZE + READ_BUF_SIZE
        BY <1>0, <1>5, Sizes
    <2>2. (h - Sep) \div READ_BUF_SIZE = q
        BY <1>0, <2>1, DivIs
    <2> QED BY <1>1, <1>3, <1>5, <2>2 DEF Across
<1> QED BY <1>4, <1>5

-----------------------------------------------------------------------------
(***************************************************************************)
(* What recv() finds in a piece of one response.                           *)
(***************************************************************************)
(* The one separator of a response is where its header ends.               *)
LEMMA SepEndsIs ==
    ASSUME TypeOK, NEW r \in Requests, NEW b \in Nat, NEW c \in Nat, b <= c, NEW j
    PROVE  j \in SepEnds(Segment(r, b + 1, c)) <=>
               j \in Sep..(c - b) /\ b + j = layout[r].head
<1> DEFINE s == Segment(r, b + 1, c)
           h == layout[r].head
<1>0. Sep \in Nat /\ Sep # 0
    BY Sizes
<1>1. s \in Seq(Bytes) /\ Len(s) = c - b
    BY SegType
<1>2. j \in SepEnds(s) <=>
          /\ j \in Sep..(c - b)
          /\ \E k \in Requests : SubSeq(s, j - Sep + 1, j)
                                 = Segment(k, layout[k].head - Sep + 1, layout[k].head)
    BY <1>1 DEF SepEnds
<1>3. ASSUME j \in Sep..(c - b)
      PROVE  SubSeq(s, j - Sep + 1, j) = Segment(r, b + (j - Sep) + 1, b + j)
    <2>1. PICK i \in Nat, e \in Nat : i = b + (j - Sep) /\ e = b + j
        BY <1>0, <1>3
    <2>2. b <= i /\ i <= e /\ e <= c /\ i - b + 1 = j - Sep + 1 /\ e - b = j
        BY <1>0, <1>3, <2>1
    <2>3. SubSeq(Segment(r, b + 1, c), i - b + 1, e - b) = Segment(r, i + 1, e)
        BY <2>2, SegSub
    <2> QED BY <2>1, <2>2, <2>3
<1> HIDE DEF s
<1>4. ASSUME j \in Sep..(c - b), NEW k \in Requests
      PROVE  Segment(r, b + (j - Sep) + 1, b + j)
                = Segment(k, layout[k].head - Sep + 1, layout[k].head)
             <=> k = r /\ b + j = layout[k].head
    <2>1. layout[k].head \in Nat /\ layout[k].head > Sep
        BY LayoutType
    <2>2. PICK u \in Nat, v \in Nat, x \in Nat, y \in Nat :
             u = b + (j - Sep) /\ v = b + j /\ x = layout[k].head - Sep /\ y = layout[k].head
        <3>1. /\ b + (j - Sep) \in Nat /\ b + j \in Nat
              /\ layout[k].head - Sep \in Nat /\ layout[k].head \in Nat
            BY <1>0, <1>4, <2>1
        <3> QED BY <3>1, Zenon
    <2>3. u <= v /\ v - u = Sep /\ x <= y /\ y - x = Sep /\ 1 \in 1..Sep
        BY <1>0, <1>4, <2>1, <2>2
    <2>4. Segment(r, u + 1, v)[1] = <<r, u + 1>> /\ Segment(k, x + 1, y)[1] = <<k, x + 1>>
        <3>1. \A i \in 1..(v - u) : Segment(r, u + 1, v)[i] = <<r, u + i>>
            BY <2>3, SegType
        <3>2. \A i \in 1..(y - x) : Segment(k, x + 1, y)[i] = <<k, x + i>>
            BY <2>3, SegType
        <3> QED BY <2>3, <3>1, <3>2
    <2>5. Segment(r, u + 1, v) = Segment(k, x + 1, y) => r = k /\ u = x
        BY <2>4
    <2>6. u = x <=> v = y
        BY <2>3
    <2>7. Segment(r, u + 1, v) = Segment(k, x + 1, y) <=> k = r /\ v = y
        BY <2>5, <2>6
    <2> QED BY <2>2, <2>7
<1> QED BY <1>2, <1>3, <1>4 DEF s

(* strstr() finds the separator if the whole of it is in the buffer.       *)
LEMMA FirstSepIs ==
    ASSUME TypeOK, NEW r \in Requests, NEW b \in Nat, NEW c \in Nat, b <= c
    PROVE  LET s == Segment(r, b + 1, c)
               h == layout[r].head
           IN  FirstSep(s) = IF h - Sep >= b /\ h <= c THEN h - b ELSE 0
<1> DEFINE s == Segment(r, b + 1, c)
           h == layout[r].head
<1>0. Sep \in Nat /\ Sep # 0 /\ h \in Nat /\ h > Sep
    BY Sizes, LayoutType
<1>1. \A j : j \in SepEnds(s) <=> j \in Sep..(c - b) /\ b + j = h
    BY SepEndsIs
<1>2. s \in Seq(Bytes)
    BY SegType
<1> HIDE DEF s, h
<1>3. CASE h - Sep >= b /\ h <= c
    <2>1. h - b \in Sep..(c - b) /\ b + (h - b) = h
        BY <1>0, <1>3
    <2>2. h - b \in SepEnds(s)
        BY <2>1, <1>1
    <2>3. FirstSep(s) # 0
        <3>1. SepEnds(s) # {}
            BY <2>2
        <3>2. PICK m \in SepEnds(s) : \A k \in SepEnds(s) : m <= k
            <4>1. SepEnds(s) \subseteq Nat
                BY <1>0, <1>1
            <4> QED BY <3>1, <4>1, LeastNumber
        <3>3. FirstSep(s) \in SepEnds(s)
            BY <3>1, <3>2 DEF FirstSep
        <3> QED BY <3>3, <1>0, <1>1
    <2>4. FirstSep(s) \in SepEnds(s)
        BY <2>3, <1>2, SepIn
    <2>5. FirstSep(s) \in Sep..(c - b) /\ b + FirstSep(s) = h
        BY <2>4, <1>1
    <2>6. FirstSep(s) = h - b
        BY <2>5, <1>0
    <2> QED BY <1>3, <2>6 DEF s, h
<1>4. CASE ~(h - Sep >= b /\ h <= c)
    <2>1. SepEnds(s) = {}
        <3>1. ASSUME NEW j \in Sep..(c - b), b + j = h PROVE FALSE
            BY <3>1, <1>0, <1>4
        <3> QED BY <3>1, <1>1
    <2>2. FirstSep(s) = 0
        BY <2>1 DEF FirstSep
    <2> QED BY <1>4, <2>2 DEF s, h
<1> QED BY <1>3, <1>4

(* The field Content-Length is found with the first byte of the response.  *)
LEMMA FieldIs ==
    ASSUME TypeOK, NEW r \in Requests, NEW b \in Nat, NEW e \in Nat, b <= e
    PROVE  FieldIn(Segment(r, b + 1, e)) =
               IF field # 0 THEN field
               ELSE IF b = 0 /\ e > 0 /\ layout[r].content # NoContent THEN r ELSE 0
<1> DEFINE s == Segment(r, b + 1, e)
           at == {j \in 1..Len(s) : s[j][2] = 1 /\ layout[s[j][1]].content # NoContent}
<1>1. /\ s \in Seq(Bytes) /\ Len(s) = e - b
      /\ \A i \in 1..(e - b) : s[i] = <<r, b + i>>
    BY SegType
<1> HIDE DEF s
<1>2. \A j \in 1..(e - b) : s[j][2] = b + j /\ s[j][1] = r
    BY <1>1
<1>3. \A j : j \in at <=> j \in 1..(e - b) /\ b + j = 1 /\ layout[r].content # NoContent
    BY <1>1, <1>2
<1>4. FieldIn(s) = IF field # 0 \/ at = {} THEN field
                   ELSE s[CHOOSE j \in at : \A k \in at : j <= k][1]
    BY DEF FieldIn
<1> HIDE DEF at
<1>5. CASE field = 0 /\ b = 0 /\ e > 0 /\ layout[r].content # NoContent
    <2>1. 1 \in at /\ at = {1}
        BY <1>3, <1>5
    <2>2. (CHOOSE j \in at : \A k \in at : j <= k) = 1
        BY <2>1
    <2>3. s[1][1] = r
        BY <1>2, <1>5
    <2> QED BY <1>4, <1>5, <2>1, <2>2, <2>3 DEF s
<1>6. CASE field # 0
    BY <1>4, <1>6 DEF s
<1>7. CASE field = 0 /\ ~(b = 0 /\ e > 0 /\ layout[r].content # NoContent)
    <2>1. at = {}
        <3>1. ASSUME NEW j \in 1..(e - b), b + j = 1 PROVE b = 0 /\ e > 0
            BY <3>1
        <3> QED BY <3>1, <1>3, <1>7
    <2> QED BY <1>4, <1>7, <2>1 DEF s
<1> QED BY <1>5, <1>6, <1>7

-----------------------------------------------------------------------------
(***************************************************************************)
(* The inductive invariant.                                                *)
(***************************************************************************)
\* What dump_to_buff() makes of the response to the last request.
Sent == dump_to_buff(layout[req].head, layout[req].content)

\* n bytes of the response were sent and c of them read: b in earlier reads,
\* the others are in buf.
Taken(b, c, n) == buf = Segment(req, b + 1, c) /\ wire = Segment(req, c + 1, n)

\* The response is whole, and the reads before were of whole blocks without the
\* separator, or the response is over and the separator was missed.
Blocks(b, c, n) ==
    /\ n = Sent
    /\ b > 0 /\ layout[req].content # NoContent => field = req
    /\ pc = "parse" /\ c < b + READ_BUF_SIZE => c = n
    /\ \/ Across(layout[req].head) /\ b = n
       \/ /\ \E q \in 0..b : b = q * READ_BUF_SIZE
          /\ Across(layout[req].head) \/ layout[req].head > b

HeaderAt(b, c, n) ==
    /\ Taken(b, c, n)
    /\ field = req => layout[req].content # NoContent
    /\ ~cut => Blocks(b, c, n)

InHeader == \E n \in 0..Sent : \E c \in 0..n : \E b \in 0..c : HeaderAt(b, c, n)

\* What is in body, in buf and on the connection are the content from its
\* first byte; readn_timeout() is called for the rest of it.
BodyAt(b, c, n) ==
    /\ Taken(b, c, n)
    /\ body = Segment(req, layout[req].head + 1, b)
    /\ layout[req].content # NoContent
    /\ need = layout[req].head + layout[req].content - b /\ need > 0
    /\ ~cut => /\ n = Sent
               /\ pc = "check" /\ Len(buf) # need => c = n
               /\ Expected(layout[req].head, layout[req].content)
                    = IF layout[req].head + layout[req].content > max_dest_len
                      THEN "READ_TIMEOUT" ELSE "ok"

InBody == \E n \in 0..Sent : \E c \in 0..n : \E b \in layout[req].head..c : BodyAt(b, c, n)

\* Within a call the bytes read and the bytes to come are one piece of the
\* response; between two calls nothing is left over.
InSync ==
    /\ pc \in {"header", "parse"} => field \in {0, req} /\ InHeader
    /\ pc \in {"body", "check"} => field = req /\ InBody
    /\ pc = "idle" /\ ret \in {"none", "ok", "NOTHING_LEFT"} => wire = <<>>

StreamInv ==
    /\ ~connected => wire = <<>> /\ pc = "idle"
    /\ pc # "idle" => ret = "none"
    /\ pc # "idle" \/ ret # "none" => req \in Requests
    /\ sync => InSync

RecvInv == StreamInv /\ AnswerOfRequest /\ ResultByLength

(* How much of the response the server sends.                              *)
LEMMA SentIs ==
    ASSUME TypeOK, req \in Requests
    PROVE  LET h == layout[req].head
               m == layout[req].content
           IN  /\ h \in Nat /\ m \in Int /\ h > Sep /\ h < max_dest_len
               /\ Sent \in Nat /\ Sent >= h
               /\ m # NoContent => m \in Nat /\ Sent <= h + m
               /\ m # NoContent /\ h + m <= max_dest_len => Sent = h + m
               /\ m = NoContent \/ h + m > max_dest_len => Sent = h
<1> DEFINE h == layout[req].head
           m == layout[req].content
<1>1. h \in Nat /\ h > Sep /\ h < max_dest_len /\ m \in Nat \cup {NoContent} /\ m \in Int
    BY LayoutType
<1>2. Sent = IF m = NoContent \/ h + m > max_dest_len THEN h ELSE h + m
    BY DEF Sent, dump_to_buff
<1> HIDE DEF h, m
<1>3. m # NoContent => m \in Nat
    BY <1>1
<1>4. m = NoContent \/ h + m > max_dest_len => Sent = h
    BY <1>2
<1>5. m # NoContent /\ h + m <= max_dest_len => Sent = h + m
    BY <1>1, <1>2, Sizes
<1>6. Sent \in Nat /\ Sent >= h /\ (m # NoContent => Sent <= h + m)
    BY <1>1, <1>3, <1>4, <1>5, Sizes
<1> QED BY <1>1, <1>3, <1>4, <1>5, <1>6 DEF h, m

(* A read() takes the next bytes of the response.                          *)
LEMMA ReadTaken ==
    ASSUME TypeOK, req \in Requests, NEW k \in 1..READ_BUF_SIZE, read_data(k),
           NEW n \in Nat, NEW c \in Nat, NEW b \in Nat, b <= c, c <= n, Taken(b, c, n)
    PROVE  /\ c + k <= n /\ Taken(b, c + k, n)'
           /\ k <= Left /\ Len(buf) = c - b /\ Len(buf') = c + k - b
<1>1. PICK r \in Requests : r = req
    OBVIOUS
<1>2. buf = Segment(r, b + 1, c) /\ wire = Segment(r, c + 1, n)
    BY <1>1 DEF Taken
<1>3. Len(buf) = c - b /\ Len(wire) = n - c
    BY <1>2, SegType
<1>4. k \in Nat /\ k <= Left /\ k <= Len(wire)
    <2>1. Left \in Int /\ Len(wire) \in Int
        BY Sizes DEF Left, TypeOK
    <2>2. k <= Least(Least(Left, READ_BUF_SIZE), Len(wire))
        BY DEF read_data
    <2> HIDE DEF Left
    <2> QED BY <2>1, <2>2, Sizes DEF Least
<1>5. c + k <= n
    BY <1>3, <1>4
<1>6. PICK d \in Nat : d = c + k
    BY <1>4
<1>7. b <= d /\ c <= d /\ d <= n
    BY <1>4, <1>5, <1>6
<1>8. /\ buf' = buf \o SubSeq(wire, 1, k) /\ wire' = SubSeq(wire, k + 1, Len(wire))
      /\ req' = r
    BY <1>1 DEF read_data
<1>9. SubSeq(Segment(r, c + 1, n), 1, d - c) = Segment(r, c + 1, d)
    BY <1>7, SegNext
<1>10. Segment(r, b + 1, c) \o Segment(r, c + 1, d) = Segment(r, b + 1, d)
    BY <1>7, SegConcat
<1>11. SubSeq(Segment(r, c + 1, n), d - c + 1, Len(Segment(r, c + 1, n)))
            = Segment(r, d + 1, n)
    BY <1>7, SegRest
<1>12. buf' = Segment(r, b + 1, d) /\ wire' = Segment(r, d + 1, n)
    <2>1. k = d - c
        BY <1>4, <1>6
    <2> QED BY <1>2, <1>8, <1>9, <1>10, <1>11, <2>1
<1>13. Taken(b, c + k, n)'
    BY <1>6, <1>8, <1>12 DEF Taken
<1>14. Len(buf') = c + k - b
    <2>1. Len(Segment(r, b + 1, d)) = d - b
        BY <1>7, SegType
    <2> QED BY <2>1, <1>6, <1>12
<1> QED BY <1>3, <1>4, <1>5, <1>13, <1>14

(* A read() of the header.                                                 *)
LEMMA ReadHeader ==
    ASSUME TypeOK, req \in Requests, NEW k \in 1..READ_BUF_SIZE, read_data(k),
           pc = "header", InHeader
    PROVE  InHeader'
<1>1. PICK n \in 0..Sent : \E c \in 0..n : \E b \in 0..c : HeaderAt(b, c, n)
    BY DEF InHeader
<1>2. PICK c \in 0..n : \E b \in 0..c : HeaderAt(b, c, n)
    BY <1>1
<1>3. PICK b \in 0..c : HeaderAt(b, c, n)
    BY <1>2
<1>4. Sent \in Nat
    BY SentIs
<1>5. n \in Nat /\ c \in Nat /\ b \in Nat /\ b <= c /\ c <= n /\ k \in Nat
    BY <1>4, Sizes
<1>6. /\ c + k <= n /\ Taken(b, c + k, n)'
      /\ k <= Left /\ Len(buf) = c - b
    BY <1>3, <1>5, ReadTaken DEF HeaderAt
<1>7. UNCHANGED <<layout, req, field, cut>>
    BY DEF read_data
<1>8. Sent' = Sent
    BY <1>7 DEF Sent
<1>9. ASSUME Blocks(b, c, n) PROVE Blocks(b, c + k, n)'
    <2>1. pc' = "parse" => k = Left
        <3>1. Left \in Int
            BY Sizes DEF Left, TypeOK
        <3> QED BY <3>1, <1>5, <1>6 DEF read_data
    <2>2. pc' = "parse" => c + k = b + READ_BUF_SIZE
        BY <2>1, <1>5, <1>6, Sizes DEF Left
    <2>3. ~(pc' = "parse" /\ c + k < b + READ_BUF_SIZE)
        BY <2>2, <1>5, Sizes
    <2> QED BY <1>7, <1>8, <1>9, <2>3 DEF Blocks
<1>10. HeaderAt(b, c + k, n)'
    <2>1. cut' = cut
        BY <1>7
    <2> QED BY <1>3, <1>6, <1>7, <1>9, <2>1 DEF HeaderAt
<1>11. n \in 0..Sent' /\ c + k \in 0..n /\ b \in 0..(c + k)
    BY <1>5, <1>6, <1>8
<1> QED BY <1>10, <1>11 DEF InHeader

(* A read() of the content.                                                *)
LEMMA ReadBody ==
    ASSUME TypeOK, req \in Requests, NEW k \in 1..READ_BUF_SIZE, read_data(k),
           pc = "body", InBody
    PROVE  InBody'
<1> DEFINE h == layout[req].head
<1>1. PICK n \in 0..Sent : \E c \in 0..n : \E b \in h..c : BodyAt(b, c, n)
    BY DEF InBody
<1>2. PICK c \in 0..n : \E b \in h..c : BodyAt(b, c, n)
    BY <1>1
<1>3. PICK b \in h..c : BodyAt(b, c, n)
    BY <1>2
<1>4. Sent \in Nat /\ h \in Nat
    BY SentIs
<1>5. n \in Nat /\ c \in Nat /\ b \in Nat /\ h <= b /\ b <= c /\ c <= n /\ k \in Nat
    BY <1>4, Sizes
<1>6. /\ c + k <= n /\ Taken(b, c + k, n)'
      /\ k <= Left /\ Len(buf) = c - b /\ Len(buf') = c + k - b
    BY <1>3, <1>5, ReadTaken DEF BodyAt
<1>7. UNCHANGED <<layout, req, body, need, cut>>
    BY DEF read_data
<1>8. Sent' = Sent
    BY <1>7 DEF Sent
<1>9. pc' = "check" => Len(buf') = need'
    <2>1. pc' = "check" => k = Left
        <3>1. Left \in Int
            BY Sizes DEF Left, TypeOK
        <3> QED BY <3>1, <1>5, <1>6 DEF read_data
    <2>2. need \in Int
        BY Sizes DEF TypeOK
    <2> QED BY <2>1, <2>2, <1>5, <1>6, <1>7 DEF Left
<1>10. BodyAt(b, c + k, n)'
    <2>1. cut' = cut
        BY <1>7
    <2>2. Expected(layout[req].head, layout[req].content)'
            = Expected(layout[req].head, layout[req].content)
        BY <1>7 DEF Expected, Across, ReadFor
    <2> QED BY <1>3, <1>6, <1>7, <1>8, <1>9, <2>1, <2>2 DEF BodyAt
<1>11. n \in 0..Sent' /\ c + k \in 0..n /\ b \in layout'[req'].head..(c + k)
    BY <1>4, <1>5, <1>6, <1>7, <1>8
<1> QED BY <1>10, <1>11 DEF InBody

(* readn_timeout() gives up on the header: what it misses is lost for this *)
(* call (cut), or the response is over.                                    *)
LEMMA TimeoutHeader ==
    ASSUME TypeOK, req \in Requests, Timeout, pc = "header", InHeader PROVE InHeader'
<1>1. PICK n \in 0..Sent : \E c \in 0..n : \E b \in 0..c : HeaderAt(b, c, n)
    BY DEF InHeader
<1>2. PICK c \in 0..n : \E b \in 0..c : HeaderAt(b, c, n)
    BY <1>1
<1>3. PICK b \in 0..c : HeaderAt(b, c, n)
    BY <1>2
<1>4. Sent \in Nat
    BY SentIs
<1>5. n \in Nat /\ c \in Nat /\ b \in Nat /\ b <= c /\ c <= n
    BY <1>4
<1>6. UNCHANGED <<layout, req, wire, buf, field>> /\ cut' = (cut \/ wire # <<>>)
    BY DEF Timeout, netVars
<1>7. Sent' = Sent
    BY <1>6 DEF Sent
<1>8. wire = <<>> => c = n
    BY <1>3, <1>5, SegEmpty DEF HeaderAt, Taken
<1>9. ASSUME Blocks(b, c, n), wire = <<>> PROVE Blocks(b, c, n)'
    BY <1>6, <1>7, <1>8, <1>9 DEF Blocks
<1>10. Taken(b, c, n)'
    BY <1>3, <1>6 DEF HeaderAt, Taken
<1>11. ~cut' => Blocks(b, c, n)'
    <2>1. ~cut' => ~cut /\ wire = <<>>
        BY <1>6
    <2> QED BY <1>3, <1>9, <2>1 DEF HeaderAt
<1>12. HeaderAt(b, c, n)'
    BY <1>3, <1>6, <1>10, <1>11 DEF HeaderAt
<1> QED BY <1>7, <1>12 DEF InHeader

(* readn_timeout() gives up on the content.                                *)
LEMMA TimeoutBody ==
    ASSUME TypeOK, req \in Requests, Timeout, pc = "body", InBody PROVE InBody'
<1> DEFINE h == layout[req].head
<1>1. PICK n \in 0..Sent : \E c \in 0..n : \E b \in h..c : BodyAt(b, c, n)
    BY DEF InBody
<1>2. PICK c \in 0..n : \E b \in h..c : BodyAt(b, c, n)
    BY <1>1
<1>3. PICK b \in h..c : BodyAt(b, c, n)
    BY <1>2
<1>4. Sent \in Nat /\ h \in Nat
    BY SentIs
<1>5. n \in Nat /\ c \in Nat /\ b \in Nat /\ b <= c /\ c <= n
    BY <1>4
<1>6. /\ UNCHANGED <<layout, req, wire, buf, field, body, need>>
      /\ cut' = (cut \/ wire # <<>>)
    BY DEF Timeout, netVars
<1>7. Sent' = Sent
    BY <1>6 DEF Sent
<1>8. wire = <<>> => c = n
    BY <1>3, <1>5, SegEmpty DEF BodyAt, Taken
<1>9. Expected(layout[req].head, layout[req].content)'
        = Expected(layout[req].head, layout[req].content)
    BY <1>6 DEF Expected, Across, ReadFor
<1>10. Taken(b, c, n)'
    BY <1>3, <1>6 DEF BodyAt, Taken
<1>11. ~cut' => ~cut /\ c = n
    BY <1>6, <1>8
<1>12. BodyAt(b, c, n)'
    BY <1>3, <1>6, <1>7, <1>9, <1>10, <1>11 DEF BodyAt
<1> QED BY <1>6, <1>7, <1>12 DEF InBody

(* recv() has the bytes up to c, and no separator is in buf: the header    *)
(* goes on in the next read, or its separator was cut in two.              *)
LEMMA NoSep ==
    ASSUME TypeOK, req \in Requests, pc = "parse", NEW n \in Nat, NEW c \in Nat, NEW b \in Nat,
           b <= c, c <= n, Taken(b, c, n), Blocks(b, c, n), FirstSep(buf) = 0
    PROVE  \/ Across(layout[req].head) /\ c = n
           \/ /\ \E q \in 0..c : c = q * READ_BUF_SIZE
              /\ Across(layout[req].head) \/ layout[req].head > c
<1> DEFINE h == layout[req].head
<1>1. PICK r \in Requests : r = req
    OBVIOUS
<1>2. h \in Nat /\ h > Sep /\ Sent >= h /\ Sent \in Nat
    BY SentIs
<1>3. ~(h - Sep >= b /\ h <= c)
    <2>1. buf = Segment(r, b + 1, c)
        BY <1>1 DEF Taken
    <2>2. FirstSep(Segment(r, b + 1, c))
             = IF layout[r].head - Sep >= b /\ layout[r].head <= c THEN layout[r].head - b ELSE 0
        BY FirstSepIs
    <2>3. layout[r].head = h
        BY <1>1
    <2>4. h - Sep >= b => h - b # 0
        BY <1>2, Sizes
    <2> QED BY <2>1, <2>2, <2>3, <2>4
<1>4. c <= b + READ_BUF_SIZE
    <2>1. Len(buf) = c - b
        BY <1>1, SegType DEF Taken
    <2>2. Len(buf) <= READ_BUF_SIZE
        BY DEF TypeOK
    <2> QED BY <2>1, <2>2, Sizes
<1>5. /\ n = Sent
      /\ c < b + READ_BUF_SIZE => c = n
      /\ \/ Across(h) /\ b = n
         \/ (\E q \in 0..b : b = q * READ_BUF_SIZE) /\ (Across(h) \/ h > b)
    BY DEF Blocks
<1> HIDE DEF h
<1>6. ASSUME NEW q \in 0..b, b = q * READ_BUF_SIZE, ~Across(h), h > b PROVE h > c
    <2>1. CASE h <= c
        <3>1. h <= b + READ_BUF_SIZE /\ q \in Nat
            BY <2>1, <1>2, <1>4, Sizes
        <3>2. h - Sep >= b
            <4>1. Across(h) <=> h - Sep < b
                BY <1>2, <1>6, <3>1, BlockOf
            <4> QED BY <4>1, <1>2, <1>6, Sizes
        <3> QED BY <2>1, <3>2, <1>3
    <2> QED BY <2>1, <1>2
<1>7. CASE Across(h) /\ b = n
    <2>1. c = n
        BY <1>7
    <2> QED BY <1>7, <2>1 DEF h
<1>8. CASE (\E q \in 0..b : b = q * READ_BUF_SIZE) /\ (Across(h) \/ h > b)
    <2>1. PICK q \in 0..b : b = q * READ_BUF_SIZE
        BY <1>8
    <2>2. Across(h) \/ h > c
        BY <1>6, <1>8, <2>1
    <2>3. CASE c = b + READ_BUF_SIZE
        <3>1. q + 1 \in 0..c
            BY <2>3, Sizes
        <3>2. c = (q + 1) * READ_BUF_SIZE
            BY <2>1, <2>3, Sizes
        <3> QED BY <2>2, <3>1, <3>2 DEF h
    <2>4. CASE c < b + READ_BUF_SIZE
        <3>1. c = n /\ c = Sent
            BY <2>4, <1>5
        <3>2. ~(h > c)
            BY <3>1, <1>2
        <3> QED BY <3>1, <3>2, <2>2 DEF h
    <2> QED BY <2>3, <2>4, <1>4, Sizes
<1> QED BY <1>5, <1>7, <1>8

(* The read had no separator and recv() reads on.                          *)
LEMMA NoHeaderGoesOn ==
    ASSUME TypeOK, req \in Requests, NoHeader, buf # <<>>, field \in {0, req}, InHeader
    PROVE  field' \in {0, req} /\ InHeader'
<1>1. PICK n \in 0..Sent : \E c \in 0..n : \E b \in 0..c : HeaderAt(b, c, n)
    BY DEF InHeader
<1>2. PICK c \in 0..n : \E b \in 0..c : HeaderAt(b, c, n)
    BY <1>1
<1>3. PICK b \in 0..c : HeaderAt(b, c, n)
    BY <1>2
<1>4. Sent \in Nat
    BY SentIs
<1>5. n \in Nat /\ c \in Nat /\ b \in Nat /\ b <= c /\ c <= n
    BY <1>4
<1>6. /\ pc = "parse" /\ FirstSep(buf) = 0 /\ pc' = "header" /\ buf' = <<>>
      /\ field' = FieldIn(buf) /\ UNCHANGED <<layout, req, wire, cut>>
    BY DEF NoHeader, netVars
<1>7. Sent' = Sent
    BY <1>6 DEF Sent
<1>8. PICK r \in Requests : r = req
    OBVIOUS
<1>9. buf = Segment(r, b + 1, c) /\ wire = Segment(r, c + 1, n)
    BY <1>3, <1>8 DEF HeaderAt, Taken
<1>10. field' = IF field # 0 THEN field
                ELSE IF b = 0 /\ c > 0 /\ layout[r].content # NoContent THEN r ELSE 0
    BY <1>5, <1>6, <1>9, FieldIs
<1>11. field' \in {0, req} /\ (field' = req => layout[req].content # NoContent)
    <2>1. field = req => layout[req].content # NoContent
        BY <1>3 DEF HeaderAt
    <2>2. r # 0
        BY Sizes DEF Requests
    <2> QED BY <2>1, <2>2, <1>8, <1>10
<1>12. Taken(c, c, n)'
    <2>1. Segment(r, c + 1, c) = <<>>
        BY <1>5, SegEmpty
    <2> QED BY <2>1, <1>6, <1>8, <1>9 DEF Taken
<1>13. ASSUME Blocks(b, c, n) PROVE Blocks(c, c, n)'
    <2>1. c > 0 /\ layout[req].content # NoContent => field' = req
        <3>1. b > 0 /\ layout[req].content # NoContent => field = req
            BY <1>13 DEF Blocks
        <3>2. b = 0 \/ b > 0
            BY <1>5
        <3>3. req # 0
            BY Sizes DEF Requests
        <3> QED BY <3>1, <3>2, <3>3, <1>8, <1>10
    <2>2. \/ Across(layout[req].head) /\ c = n
          \/ /\ \E q \in 0..c : c = q * READ_BUF_SIZE
             /\ Across(layout[req].head) \/ layout[req].head > c
        BY <1>3, <1>5, <1>6, <1>13, NoSep DEF HeaderAt
    <2>3. n = Sent
        BY <1>13 DEF Blocks
    <2>4. Across(layout[req].head)' <=> Across(layout[req].head)
        BY <1>6 DEF Across
    <2>5. /\ pc' # "parse" /\ n = Sent'
          /\ c > 0 /\ layout'[req'].content # NoContent => field' = req'
        BY <2>1, <2>3, <1>6, <1>7
    <2>6. layout'[req'].head = layout[req].head
        BY <1>6
    <2> QED BY <2>2, <2>4, <2>5, <2>6 DEF Blocks
<1>14. ~cut' => ~cut
    BY <1>6
<1>15. HeaderAt(c, c, n)'
    BY <1>3, <1>6, <1>11, <1>12, <1>13, <1>14 DEF HeaderAt
<1>16. n \in 0..Sent' /\ c \in 0..n /\ c \in 0..c
    BY <1>5, <1>7
<1> QED BY <1>11, <1>15, <1>16 DEF InHeader

(* Nothing was read: the whole response has come and its separator was     *)
(* missed.                                                                 *)
LEMMA NoHeaderFails ==
    ASSUME TypeOK, req \in Requests, NoHeader, buf = <<>>, ~cut, InHeader
    PROVE  Across(layout[req].head)
<1>1. PICK n \in 0..Sent : \E c \in 0..n : \E b \in 0..c : HeaderAt(b, c, n)
    BY DEF InHeader
<1>2. PICK c \in 0..n : \E b \in 0..c : HeaderAt(b, c, n)
    BY <1>1
<1>3. PICK b \in 0..c : HeaderAt(b, c, n)
    BY <1>2
<1>4. Sent \in Nat /\ layout[req].head \in Nat /\ Sent >= layout[req].head
    BY SentIs
<1>5. n \in Nat /\ c \in Nat /\ b \in Nat /\ b <= c /\ c <= n
    BY <1>4
<1>6. b = c
    BY <1>3, <1>5, SegEmpty DEF HeaderAt, Taken
<1>7. /\ n = Sent
      /\ c < b + READ_BUF_SIZE => c = n
      /\ Across(layout[req].head) \/ layout[req].head > b
    <2>1. pc = "parse"
        BY DEF NoHeader
    <2> QED BY <2>1, <1>3 DEF HeaderAt, Blocks
<1>8. c = n
    BY <1>5, <1>6, <1>7, Sizes
<1>9. ~(layout[req].head > b)
    BY <1>4, <1>5, <1>6, <1>7, <1>8
<1> QED BY <1>7, <1>9

(* What recv() knows when it has found the separator.                      *)
LEMMA HeaderFinds ==
    ASSUME TypeOK, req \in Requests, pc = "parse", FirstSep(buf) # 0, field \in {0, req},
           NEW n \in Nat, NEW c \in Nat, NEW b \in Nat, b <= c, c <= n, HeaderAt(b, c, n)
    PROVE  LET h == layout[req].head
               m == layout[req].content
               f == FieldIn(SubSeq(buf, 1, FirstSep(buf)))
           IN  /\ b <= h - Sep /\ h <= c /\ c <= b + READ_BUF_SIZE
               /\ SubSeq(buf, FirstSep(buf) + 1, Len(buf)) = Segment(req, h + 1, c)
               /\ f \in {0, req}
               /\ f = req => m # NoContent
               /\ ~cut => /\ f = 0 => m = NoContent
                          /\ ~Across(h) /\ ReadFor(h) = b + READ_BUF_SIZE
<1> DEFINE f == FieldIn(SubSeq(buf, 1, FirstSep(buf)))
<1>1. PICK r \in Requests : r = req
    OBVIOUS
<1>2. PICK h \in Nat : h = layout[r].head
    BY LayoutType
<1>3. h > Sep
    BY <1>2, LayoutType
<1>4. buf = Segment(r, b + 1, c) /\ Len(buf) = c - b
    BY <1>1, SegType DEF HeaderAt, Taken
<1>5. b <= h - Sep /\ h <= c /\ FirstSep(buf) = h - b
    <2>1. FirstSep(Segment(r, b + 1, c)) = IF h - Sep >= b /\ h <= c THEN h - b ELSE 0
        BY <1>2, FirstSepIs
    <2>2. h - Sep >= b /\ h <= c
        BY <2>1, <1>4
    <2> QED BY <2>1, <2>2, <1>3, <1>4, Sizes
<1>6. b <= h /\ b < h
    BY <1>3, <1>5, Sizes
<1>7. c <= b + READ_BUF_SIZE
    <2>1. Len(buf) <= READ_BUF_SIZE
        BY DEF TypeOK
    <2> QED BY <2>1, <1>4, Sizes
<1>8. SubSeq(buf, FirstSep(buf) + 1, Len(buf)) = Segment(r, h + 1, c)
    <2>1. SubSeq(Segment(r, b + 1, c), h - b + 1, Len(Segment(r, b + 1, c)))
            = Segment(r, h + 1, c)
        BY <1>5, <1>6, SegRest
    <2> QED BY <2>1, <1>4, <1>5
<1>9. f = IF field # 0 THEN field
          ELSE IF b = 0 /\ h > 0 /\ layout[r].content # NoContent THEN r ELSE 0
    <2>1. SubSeq(Segment(r, b + 1, c), 1, h - b) = Segment(r, b + 1, h)
        BY <1>5, <1>6, SegNext
    <2>2. f = FieldIn(Segment(r, b + 1, h))
        BY <2>1, <1>4, <1>5
    <2> QED BY <2>2, <1>6, FieldIs
<1> HIDE DEF f
<1>10. f \in {0, req} /\ (f = req => layout[req].content # NoContent)
    <2>1. field = req => layout[req].content # NoContent
        BY DEF HeaderAt
    <2>2. req # 0
        BY Sizes DEF Requests
    <2> QED BY <2>1, <2>2, <1>1, <1>9
<1>11. ASSUME ~cut PROVE f = 0 => layout[req].content = NoContent
    <2>1. b > 0 /\ layout[req].content # NoContent => field = req
        BY <1>11 DEF HeaderAt, Blocks
    <2>2. b = 0 \/ b > 0
        OBVIOUS
    <2>3. req # 0 /\ h > 0
        BY <1>3, Sizes DEF Requests
    <2> QED BY <2>1, <2>2, <2>3, <1>1, <1>9
<1>12. ASSUME ~cut PROVE ~Across(h) /\ ReadFor(h) = b + READ_BUF_SIZE
    <2>1. (Across(h) /\ b = n) \/ \E q \in 0..b : b = q * READ_BUF_SIZE
        BY <1>1, <1>2, <1>12 DEF HeaderAt, Blocks
    <2>2. b # n
        BY <1>5, <1>6
    <2>3. PICK q \in 0..b : b = q * READ_BUF_SIZE
        BY <2>1, <2>2
    <2>4. q \in Nat /\ h <= b + READ_BUF_SIZE
        BY <1>5, <1>7, Sizes
    <2>5. ReadFor(h) = b + READ_BUF_SIZE /\ (Across(h) <=> h - Sep < b)
        BY <2>3, <2>4, <1>3, <1>6, BlockOf
    <2>6. ~(h - Sep < b)
        BY <1>5, Sizes
    <2> QED BY <2>5, <2>6
<1> QED BY <1>1, <1>2, <1>5, <1>7, <1>8, <1>10, <1>11, <1>12 DEF f

(* The header is complete: recv() returns what the lengths of the response *)
(* say, or goes on to read the rest of its content.                        *)
LEMMA HeaderGoesOn ==
    ASSUME TypeOK, req \in Requests, Header, field \in {0, req}, InHeader
    PROVE  \/ /\ pc' = "idle" /\ ret' \in Errors
              /\ ret' = "NOTHING_LEFT" => wire = <<>>
              /\ ~cut => ret' = Expected(layout[req].head, layout[req].content)
           \/ pc' = "body" /\ ret' = ret /\ field' = req /\ InBody'
<1>1. PICK n \in 0..Sent : \E c \in 0..n : \E b \in 0..c : HeaderAt(b, c, n)
    BY DEF InHeader
<1>2. PICK c \in 0..n : \E b \in 0..c : HeaderAt(b, c, n)
    BY <1>1
<1>3. PICK b \in 0..c : HeaderAt(b, c, n)
    BY <1>2
<1> DEFINE f == FieldIn(SubSeq(buf, 1, FirstSep(buf)))
           part == SubSeq(buf, FirstSep(buf) + 1, Len(buf))
<1>4. PICK r \in Requests, h \in Nat, m \in Int :
          r = req /\ h = layout[req].head /\ m = layout[req].content
    BY SentIs
<1>5. /\ h > Sep /\ h < max_dest_len /\ Sent \in Nat /\ Sent >= h
      /\ m # NoContent => m \in Nat /\ Sent <= h + m
      /\ m # NoContent /\ h + m <= max_dest_len => Sent = h + m
      /\ m = NoContent \/ h + m > max_dest_len => Sent = h
    BY <1>4, SentIs
<1>6. n \in Nat /\ c \in Nat /\ b \in Nat /\ b <= c /\ c <= n /\ n <= Sent
    BY <1>5
<1>7. /\ pc = "parse" /\ FirstSep(buf) # 0 /\ field' = f
      /\ UNCHANGED <<connected, layout, req, wire, cut, sync>>
    BY DEF Header, netVars
<1>8. \/ f = 0 /\ Return("INVALID_HEADER")
      \/ f # 0 /\ layout[f].content > max_buf_len /\ Return("NOT_ENOUGH_BUFF")
      \/ /\ f # 0 /\ layout[f].content <= max_buf_len /\ layout[f].content <= Len(part)
         /\ Return("NOTHING_LEFT")
      \/ /\ f # 0 /\ layout[f].content <= max_buf_len /\ layout[f].content > Len(part)
         /\ body' = part /\ need' = layout[f].content - Len(part)
         /\ pc' = "body" /\ buf' = <<>> /\ UNCHANGED ret
    BY DEF Header
<1>9. /\ b <= h - Sep /\ h <= c /\ c <= b + READ_BUF_SIZE
      /\ part = Segment(r, h + 1, c)
      /\ f \in {0, r} /\ (f = r => m # NoContent)
      /\ ~cut => /\ f = 0 => m = NoContent
                 /\ ~Across(h) /\ ReadFor(h) = b + READ_BUF_SIZE
    BY <1>3, <1>4, <1>6, <1>7, HeaderFinds
<1> HIDE DEF f, part
<1>10. Len(part) = c - h
    <2>1. h <= c
        BY <1>9
    <2>2. Len(Segment(r, h + 1, c)) = c - h
        BY <2>1, SegType
    <2> QED BY <2>2, <1>9
<1>11. f # 0 => /\ f = r /\ layout[f].content = m /\ m \in Nat /\ m # NoContent
                /\ Sent <= h + m
    BY <1>4, <1>5, <1>9
<1>12. m # NoContent /\ Sent = h + m => h + m <= max_dest_len
    BY <1>5, Sizes
<1>13. CASE f = 0 /\ Return("INVALID_HEADER")
    <2>1. ~cut => Expected(h, m) = "INVALID_HEADER"
        BY <1>9, <1>13 DEF Expected
    <2>2. pc' = "idle" /\ ret' = "INVALID_HEADER"
        BY <1>13 DEF Return
    <2> QED BY <1>4, <2>1, <2>2 DEF Errors
<1>14. CASE f # 0 /\ layout[f].content > max_buf_len /\ Return("NOT_ENOUGH_BUFF")
    <2>1. m # NoContent /\ m > max_buf_len
        BY <1>11, <1>14
    <2>2. ~cut => Expected(h, m) = "NOT_ENOUGH_BUFF"
        BY <1>9, <2>1 DEF Expected
    <2>3. pc' = "idle" /\ ret' = "NOT_ENOUGH_BUFF"
        BY <1>14 DEF Return
    <2> QED BY <1>4, <2>2, <2>3 DEF Errors
<1>15. CASE /\ f # 0 /\ layout[f].content <= max_buf_len /\ layout[f].content <= Len(part)
            /\ Return("NOTHING_LEFT")
    <2>1. m \in Nat /\ m # NoContent /\ m <= max_buf_len /\ m <= c - h /\ Sent <= h + m
        BY <1>10, <1>11, <1>15
    <2>2. c = n /\ c = Sent /\ c = h + m
        BY <2>1, <1>5, <1>6
    <2>3. wire = <<>>
        <3>1. wire = Segment(r, c + 1, n)
            BY <1>3, <1>4 DEF HeaderAt, Taken
        <3> QED BY <3>1, <2>2, <1>6, SegEmpty
    <2>4. h + m <= max_dest_len
        BY <2>1, <2>2, <1>12
    <2>5. ~cut => h + m <= ReadFor(h) /\ ~Across(h)
        BY <2>2, <1>9
    <2>6. ~(m > max_buf_len) /\ ~(h + m > max_dest_len)
        BY <2>1, <2>4, Sizes
    <2>7. ~cut => Expected(h, m) = "NOTHING_LEFT"
        BY <2>1, <2>5, <2>6 DEF Expected
    <2>8. pc' = "idle" /\ ret' = "NOTHING_LEFT"
        BY <1>15 DEF Return
    <2> QED BY <1>4, <2>3, <2>7, <2>8 DEF Errors
<1>16. CASE /\ f # 0 /\ layout[f].content <= max_buf_len /\ layout[f].content > Len(part)
            /\ body' = part /\ need' = layout[f].content - Len(part)
            /\ pc' = "body" /\ buf' = <<>> /\ UNCHANGED ret
    <2>1. /\ m \in Nat /\ m # NoContent /\ m <= max_buf_len /\ m > c - h
          /\ need' = m - (c - h) /\ field' = req
        BY <1>4, <1>7, <1>10, <1>11, <1>16
    <2>2. need' = h + m - c /\ need' > 0
        BY <2>1, <1>6
    <2>3. req' = r /\ layout'[req'].head = h /\ layout'[req'].content = m /\ Sent' = Sent
        BY <1>4, <1>7 DEF Sent
    <2>4. Taken(c, c, n)'
        <3>1. wire' = Segment(r, c + 1, n)
            BY <1>3, <1>4, <1>7 DEF HeaderAt, Taken
        <3>2. Segment(r, c + 1, c) = <<>>
            BY <1>6, SegEmpty
        <3> QED BY <3>1, <3>2, <2>3, <1>16 DEF Taken
    <2>5. ASSUME ~cut
          PROVE  n = Sent /\ Expected(h, m) = IF h + m > max_dest_len THEN "READ_TIMEOUT" ELSE "ok"
        <3>1. n = Sent /\ (c < b + READ_BUF_SIZE => c = n)
            BY <1>3, <1>7, <2>5 DEF HeaderAt, Blocks
        <3>2. ~(m > max_buf_len) /\ ~Across(h) /\ m # NoContent
            BY <2>1, <2>5, <1>9, Sizes
        <3>3. h + m > max_dest_len \/ ~(h + m <= ReadFor(h))
            <4>1. CASE h + m <= max_dest_len
                <5>1. c < n
                    BY <4>1, <3>1, <2>1, <1>5, <1>6
                <5>2. c = b + READ_BUF_SIZE
                    BY <5>1, <3>1, <1>6, <1>9, Sizes
                <5> QED BY <5>2, <2>1, <2>5, <1>6, <1>9
            <4> QED BY <4>1, <2>1, Sizes
        <3> QED BY <3>1, <3>2, <3>3 DEF Expected
    <2>6. BodyAt(c, c, n)'
        <3>1. body' = Segment(r, h + 1, c) /\ pc' # "check"
            BY <1>9, <1>16
        <3>2. ~cut' => /\ n = Sent'
                       /\ Expected(h, m) = IF h + m > max_dest_len THEN "READ_TIMEOUT" ELSE "ok"
            <4>1. ~cut' => ~cut
                BY <1>7
            <4> QED BY <4>1, <2>3, <2>5
        <3> QED BY <3>1, <3>2, <2>1, <2>2, <2>3, <2>4 DEF BodyAt
    <2>7. n \in 0..Sent' /\ c \in 0..n /\ c \in layout'[req'].head..c
        BY <2>3, <1>6, <1>9
    <2>8. InBody'
        BY <2>6, <2>7 DEF InBody
    <2> QED BY <2>1, <2>8, <1>16
<1> QED BY <1>8, <1>13, <1>14, <1>15, <1>16

(* The content has come, and nothing else with it, or the server has sent  *)
(* the header alone.                                                       *)
LEMMA ContentEnds ==
    ASSUME TypeOK, req \in Requests, Content, InBody
    PROVE  /\ pc' = "idle" /\ ret' \in {"ok", "READ_TIMEOUT"}
           /\ ret' = "ok" => wire = <<>> /\ body' = ContentOf(req)
           /\ ~cut => ret' = Expected(layout[req].head, layout[req].content)
<1>1. PICK n \in 0..Sent : \E c \in 0..n : \E b \in layout[req].head..c : BodyAt(b, c, n)
    BY DEF InBody
<1>2. PICK c \in 0..n : \E b \in layout[req].head..c : BodyAt(b, c, n)
    BY <1>1
<1>3. PICK b \in layout[req].head..c : BodyAt(b, c, n)
    BY <1>2
<1>4. PICK r \in Requests, h \in Nat, m \in Int :
          r = req /\ h = layout[req].head /\ m = layout[req].content
    BY SentIs
<1>5. /\ h > Sep /\ h < max_dest_len /\ Sent \in Nat /\ Sent >= h
      /\ m # NoContent => m \in Nat /\ Sent <= h + m
      /\ m # NoContent /\ h + m <= max_dest_len => Sent = h + m
      /\ m = NoContent \/ h + m > max_dest_len => Sent = h
    BY <1>4, SentIs
<1>6. n \in Nat /\ c \in Nat /\ b \in Nat /\ h <= b /\ b <= c /\ c <= n /\ n <= Sent
    BY <1>4, <1>5
<1>7. /\ buf = Segment(r, b + 1, c) /\ wire = Segment(r, c + 1, n)
      /\ body = Segment(r, h + 1, b) /\ m # NoContent /\ m \in Nat
      /\ need = h + m - b
    BY <1>3, <1>4, <1>5 DEF BodyAt, Taken
<1>8. Len(buf) = c - b
    BY <1>6, <1>7, SegType
<1>9. pc = "check" /\ body' = body \o buf /\ pc' = "idle"
    BY DEF Content, Return
<1>10. ~cut => /\ n = Sent /\ (Len(buf) # need => c = n)
               /\ Expected(h, m) = IF h + m > max_dest_len THEN "READ_TIMEOUT" ELSE "ok"
    BY <1>3, <1>4, <1>9 DEF BodyAt
<1>11. CASE Len(buf) = need
    <2>1. ret' = "ok"
        BY <1>11 DEF Content, Return
    <2>2. c = h + m /\ n = c /\ Sent = h + m
        BY <1>5, <1>6, <1>7, <1>8, <1>11
    <2>3. wire = <<>>
        <3>1. Segment(r, c + 1, n) = <<>> <=> c = n
            BY <1>6, SegEmpty
        <3> QED BY <3>1, <2>2, <1>7
    <2>4. body' = Segment(r, h + 1, c)
        <3>1. Segment(r, h + 1, b) \o Segment(r, b + 1, c) = Segment(r, h + 1, c)
            BY <1>6, SegConcat
        <3> QED BY <3>1, <1>7, <1>9
    <2>5. body' = ContentOf(req)
        BY <2>2, <2>4, <1>4 DEF ContentOf
    <2>6. ~(h + m > max_dest_len)
        BY <2>2, <1>5, <1>7, Sizes
    <2> QED BY <2>1, <2>3, <2>5, <2>6, <1>4, <1>9, <1>10
<1>12. CASE Len(buf) # need
    <2>1. ret' = "READ_TIMEOUT"
        BY <1>12 DEF Content, Return
    <2>2. ~cut => c # h + m /\ c = Sent
        BY <1>6, <1>7, <1>8, <1>10, <1>12
    <2>3. ~cut => h + m > max_dest_len
        BY <2>2, <1>5, <1>7, Sizes
    <2> QED BY <2>1, <2>3, <1>4, <1>9, <1>10
<1> QED BY <1>11, <1>12

(* A request on a connection without old bytes.                            *)
LEMMA SendClean ==
    ASSUME TypeOK, NEW h \in Heads, NEW m \in Contents \cup {NoContent},
           NEW sent \in 0..dump_to_buff(h, m), send(h, m, sent), wire = <<>>
    PROVE  InHeader'
<1>1. /\ req < MaxRequests /\ req' = req + 1 /\ pc' = "header" /\ buf' = <<>> /\ field' = 0
      /\ layout' = [layout EXCEPT ![req + 1] = [head |-> h, content |-> m]]
      /\ wire' = wire \o Segment(req + 1, 1, sent)
      /\ cut' = (sent < dump_to_buff(h, m))
    BY DEF send
<1>2. PICK r \in Requests : r = req + 1 /\ r # 0
    BY <1>1, Sizes DEF TypeOK, Requests
<1>3. layout'[r] = [head |-> h, content |-> m] /\ req' = r
    BY <1>1, <1>2 DEF TypeOK
<1>4. h \in Nat /\ h > Sep /\ m \in Int /\ (m # NoContent => m \in Nat)
    BY ClientAssumption DEF NoContent
<1>5. dump_to_buff(h, m) \in Nat /\ Sent' = dump_to_buff(h, m)
    <2>1. dump_to_buff(h, m) \in Nat
        BY <1>4 DEF dump_to_buff
    <2> QED BY <2>1, <1>3 DEF Sent, dump_to_buff
<1>6. sent \in Nat /\ sent <= dump_to_buff(h, m)
    BY <1>5
<1>7. PICK z \in Nat : z = 0
    OBVIOUS
<1>8. Taken(z, z, sent)'
    <2>1. Segment(r, z + 1, z) = <<>>
        BY SegEmpty
    <2>2. wire' = Segment(r, 1, sent)
        <3>1. Segment(r, 1, sent) \in Seq(Bytes)
            BY <1>6, SegFirst
        <3> QED BY <3>1, <1>1, <1>2
    <2>3. z + 1 = 1
        BY <1>7
    <2> QED BY <2>1, <2>2, <2>3, <1>1, <1>3 DEF Taken
<1>9. ~cut' => Blocks(z, z, sent)'
    <2>1. ~cut' => sent = Sent'
        <3>1. ~cut' => ~(sent < dump_to_buff(h, m))
            BY <1>1, Zenon
        <3> QED BY <3>1, <1>5, <1>6
    <2>2. z \in 0..z /\ z = z * READ_BUF_SIZE
        BY <1>7, Sizes
    <2>3. layout'[req'].head > z
        BY <1>3, <1>4, <1>7, Sizes
    <2>4. ~(z > 0) /\ pc' # "parse"
        BY <1>1, <1>7
    <2> QED BY <2>1, <2>2, <2>3, <2>4 DEF Blocks
<1>10. HeaderAt(z, z, sent)'
    BY <1>1, <1>2, <1>3, <1>8, <1>9 DEF HeaderAt
<1>11. sent \in 0..Sent' /\ z \in 0..sent /\ z \in 0..z
    BY <1>5, <1>6, <1>7
<1> QED BY <1>10, <1>11 DEF InHeader

-----------------------------------------------------------------------------
(***************************************************************************)
(* Every step keeps RecvInv.                                               *)
(***************************************************************************)
(* During a call of recv() the invariant is about the bytes alone.         *)
LEMMA Reading ==
    ASSUME pc' # "idle", ret' = "none", req' \in Requests, connected', sync' => InSync'
    PROVE  RecvInv'
BY DEF RecvInv, StreamInv, AnswerOfRequest, ResultByLength

(* What RecvInv says while recv() is at work.                              *)
LEMMA AtWork ==
    ASSUME TypeOK, RecvInv, pc # "idle"
    PROVE  /\ connected /\ ret = "none" /\ req \in Requests
           /\ sync /\ pc \in {"header", "parse"} => field \in {0, req} /\ InHeader
           /\ sync /\ pc \in {"body", "check"} => field = req /\ InBody
BY DEF RecvInv, StreamInv, InSync

(* read() keeps RecvInv.                                                   *)
LEMMA ReadKept ==
    ASSUME LimitInv, RecvInv, NEW k \in 1..READ_BUF_SIZE, read_data(k) PROVE RecvInv'
<1>1. TypeOK
    BY TypeHalves DEF LimitInv
<1>2. /\ pc \in {"header", "body"}
      /\ UNCHANGED <<connected, req, field, ret, sync>>
    BY DEF read_data
<1>3. /\ connected /\ ret = "none" /\ req \in Requests
      /\ sync /\ pc = "header" => field \in {0, req} /\ InHeader
      /\ sync /\ pc = "body" => field = req /\ InBody
    BY <1>1, <1>2, AtWork
<1>4. pc' \in IF pc = "header" THEN {"header", "parse"} ELSE {"body", "check"}
    <2>1. Left \in Int /\ k <= Left /\ k \in Int
        <3>1. Left \in Int /\ Len(wire) \in Int
            BY <1>1, Sizes DEF Left, TypeOK
        <3>2. k <= Least(Least(Left, READ_BUF_SIZE), Len(wire))
            BY DEF read_data
        <3> HIDE DEF Left
        <3> QED BY <3>1, <3>2, Sizes DEF Least
    <2> QED BY <2>1, <1>2 DEF read_data
<1>5. CASE pc = "header"
    <2>1. sync' => InSync'
        BY <1>1, <1>2, <1>3, <1>4, <1>5, ReadHeader DEF InSync
    <2> QED BY <2>1, <1>2, <1>3, <1>4, <1>5, Reading
<1>6. CASE pc = "body"
    <2>1. sync' => InSync'
        BY <1>1, <1>2, <1>3, <1>4, <1>6, ReadBody DEF InSync
    <2> QED BY <2>1, <1>2, <1>3, <1>4, <1>6, Reading
<1> QED BY <1>2, <1>5, <1>6

(* A timeout keeps RecvInv.                                                *)
LEMMA TimeoutKept == ASSUME LimitInv, RecvInv, Timeout PROVE RecvInv'
<1>1. TypeOK
    BY TypeHalves DEF LimitInv
<1>2. /\ pc \in {"header", "body"} /\ pc' = IF pc = "header" THEN "parse" ELSE "check"
      /\ UNCHANGED <<connected, req, field, ret, sync>>
    BY DEF Timeout, netVars
<1>3. /\ connected /\ ret = "none" /\ req \in Requests
      /\ sync /\ pc = "header" => field \in {0, req} /\ InHeader
      /\ sync /\ pc = "body" => field = req /\ InBody
    BY <1>1, <1>2, AtWork
<1>4. CASE pc = "header"
    <2>1. sync' => InSync'
        BY <1>1, <1>2, <1>3, <1>4, TimeoutHeader DEF InSync
    <2> QED BY <2>1, <1>2, <1>3, <1>4, Reading
<1>5. CASE pc = "body"
    <2>1. sync' => InSync'
        BY <1>1, <1>2, <1>3, <1>5, TimeoutBody DEF InSync
    <2> QED BY <2>1, <1>2, <1>3, <1>5, Reading
<1> QED BY <1>2, <1>4, <1>5

(* When recv() returns, the invariant is about its result.                 *)
LEMMA Returning ==
    ASSUME TypeOK, pc' = "idle", connected', req' \in Requests, ret' # "none",
           UNCHANGED <<layout, req, wire, cut, sync>>,
           sync => /\ ret' \in {"ok", "NOTHING_LEFT"} => wire = <<>>
                   /\ ret' = "ok" => body' = ContentOf(req)
                   /\ ~cut => ret' = Expected(layout[req].head, layout[req].content)
    PROVE  RecvInv'
<1>1. StreamInv'
    BY DEF StreamInv, InSync
<1>2. AnswerOfRequest'
    BY DEF AnswerOfRequest, ContentOf
<1>3. ResultByLength'
    <2>1. Expected(layout[req].head, layout[req].content)'
            = Expected(layout[req].head, layout[req].content)
        BY DEF Expected, Across, ReadFor
    <2> QED BY <2>1 DEF ResultByLength
<1> QED BY <1>1, <1>2, <1>3 DEF RecvInv

(* A read without a separator keeps RecvInv.                               *)
LEMMA NoHeaderKept == ASSUME LimitInv, RecvInv, NoHeader PROVE RecvInv'
<1>1. TypeOK
    BY TypeHalves DEF LimitInv
<1>2. pc = "parse" /\ UNCHANGED <<connected, layout, req, wire, cut, sync>>
    BY DEF NoHeader, netVars
<1>3. /\ connected /\ ret = "none" /\ req \in Requests
      /\ sync => field \in {0, req} /\ InHeader
    BY <1>1, <1>2, AtWork
<1>4. CASE buf = <<>>
    <2>1. pc' = "idle" /\ ret' = "INVALID_HEADER"
        BY <1>4 DEF NoHeader, Return
    <2>2. sync /\ ~cut => ret' = Expected(layout[req].head, layout[req].content)
        <3>1. sync /\ ~cut => Across(layout[req].head)
            BY <1>1, <1>3, <1>4, NoHeaderFails
        <3> QED BY <2>1, <3>1 DEF Expected
    <2>3. sync => /\ ret' \in {"ok", "NOTHING_LEFT"} => wire = <<>>
                  /\ ret' = "ok" => body' = ContentOf(req)
                  /\ ~cut => ret' = Expected(layout[req].head, layout[req].content)
        BY <2>1, <2>2
    <2> QED BY <2>1, <2>3, <1>1, <1>2, <1>3, Returning
<1>5. CASE buf # <<>>
    <2>1. pc' = "header" /\ ret' = ret
        BY <1>5 DEF NoHeader
    <2>2. sync => field' \in {0, req} /\ InHeader'
        BY <1>1, <1>3, <1>5, NoHeaderGoesOn
    <2>3. sync' => InSync'
        BY <2>1, <2>2, <1>2 DEF InSync
    <2> QED BY <2>1, <2>3, <1>2, <1>3, Reading
<1> QED BY <1>4, <1>5

(* A complete header keeps RecvInv.                                        *)
LEMMA HeaderKept == ASSUME LimitInv, RecvInv, Header PROVE RecvInv'
<1>1. TypeOK
    BY TypeHalves DEF LimitInv
<1>2. pc = "parse" /\ UNCHANGED <<connected, layout, req, wire, cut, sync>>
    BY DEF Header, netVars
<1>3. /\ connected /\ ret = "none" /\ req \in Requests
      /\ sync => field \in {0, req} /\ InHeader
    BY <1>1, <1>2, AtWork
<1>4. \/ pc' = "idle" /\ ret' \in Errors
      \/ pc' = "body" /\ ret' = ret
    BY DEF Header, Return, Errors
<1>5. sync =>
         \/ /\ pc' = "idle" /\ ret' \in Errors
            /\ ret' = "NOTHING_LEFT" => wire = <<>>
            /\ ~cut => ret' = Expected(layout[req].head, layout[req].content)
         \/ pc' = "body" /\ ret' = ret /\ field' = req /\ InBody'
    BY <1>1, <1>3, HeaderGoesOn
<1>6. CASE pc' = "idle" /\ ret' \in Errors
    <2>1. ret' # "none" /\ ret' # "ok"
        BY <1>6 DEF Errors
    <2>2. sync => /\ ret' \in {"ok", "NOTHING_LEFT"} => wire = <<>>
                  /\ ret' = "ok" => body' = ContentOf(req)
                  /\ ~cut => ret' = Expected(layout[req].head, layout[req].content)
        BY <2>1, <1>5, <1>6
    <2> QED BY <2>1, <2>2, <1>1, <1>2, <1>3, <1>6, Returning
<1>7. CASE pc' = "body" /\ ret' = ret
    <2>1. sync' => InSync'
        BY <1>2, <1>5, <1>7 DEF InSync
    <2> QED BY <2>1, <1>2, <1>3, <1>7, Reading
<1> QED BY <1>4, <1>6, <1>7

(* The end of the content keeps RecvInv.                                   *)
LEMMA ContentKept == ASSUME LimitInv, RecvInv, Content PROVE RecvInv'
<1>1. TypeOK
    BY TypeHalves DEF LimitInv
<1>2. /\ pc = "check" /\ UNCHANGED <<connected, layout, req, wire, cut, sync>>
      /\ pc' = "idle" /\ ret' \in {"ok", "READ_TIMEOUT"}
    BY DEF Content, netVars, Return
<1>3. connected /\ req \in Requests /\ (sync => InBody)
    BY <1>1, <1>2, AtWork
<1>4. sync => /\ ret' = "ok" => wire = <<>> /\ body' = ContentOf(req)
              /\ ~cut => ret' = Expected(layout[req].head, layout[req].content)
    BY <1>1, <1>3, ContentEnds
<1>5. sync => /\ ret' \in {"ok", "NOTHING_LEFT"} => wire = <<>>
              /\ ret' = "ok" => body' = ContentOf(req)
              /\ ~cut => ret' = Expected(layout[req].head, layout[req].content)
    BY <1>2, <1>4
<1> QED BY <1>1, <1>2, <1>3, <1>5, Returning

(* send() keeps RecvInv.                                                   *)
LEMMA SendKept ==
    ASSUME LimitInv, RecvInv, NEW h \in Heads, NEW m \in Contents \cup {NoContent},
           NEW sent \in 0..dump_to_buff(h, m), send(h, m, sent)
    PROVE  RecvInv'
<1>1. TypeOK
    BY TypeHalves DEF LimitInv
<1>2. /\ pc = "idle" /\ connected /\ req < MaxRequests /\ req' = req + 1
      /\ pc' = "header" /\ field' = 0 /\ ret' = "none" /\ connected' = connected
      /\ sync' = (sync /\ ret \in {"none", "ok", "NOTHING_LEFT"})
    BY DEF send
<1>3. sync' => wire = <<>>
    BY <1>2 DEF RecvInv, StreamInv, InSync
<1>4. sync' => InHeader'
    BY <1>1, <1>3, SendClean
<1>5. sync' => InSync'
    BY <1>2, <1>4 DEF InSync
<1>6. req' \in Requests
    BY <1>1, <1>2, Sizes DEF TypeOK, Requests
<1> QED BY <1>2, <1>5, <1>6, Reading

(* A new connection, and the end of one, keep RecvInv.                     *)
LEMMA OpenKept == ASSUME LimitInv, RecvInv, connect_server \/ disconnect PROVE RecvInv'
<1>1. TypeOK
    BY TypeHalves DEF LimitInv
<1>2. CASE connect_server
    <2>1. /\ pc = "idle" /\ ~connected /\ connected' /\ ret' = "none"
          /\ UNCHANGED <<req, wire, pc>>
        BY <1>2 DEF connect_server
    <2>2. wire = <<>>
        BY <2>1 DEF RecvInv, StreamInv
    <2> QED BY <2>1, <2>2 DEF RecvInv, StreamInv, InSync, AnswerOfRequest, ResultByLength
<1>3. CASE disconnect
    <2>1. /\ pc = "idle" /\ wire' = <<>>
          /\ UNCHANGED <<layout, req, pc, body, ret, cut, sync>>
        BY <1>3 DEF disconnect, recvVars
    <2>2. StreamInv'
        BY <2>1 DEF RecvInv, StreamInv, InSync
    <2>3. AnswerOfRequest'
        BY <2>1 DEF RecvInv, AnswerOfRequest, ContentOf
    <2>4. ResultByLength'
        <3>1. Expected(layout[req].head, layout[req].content)'
                = Expected(layout[req].head, layout[req].content)
            BY <2>1 DEF Expected, Across, ReadFor
        <3> QED BY <2>1, <3>1 DEF RecvInv, ResultByLength
    <2> QED BY <2>2, <2>3, <2>4 DEF RecvInv
<1> QED BY <1>2, <1>3

(* A step that changes nothing keeps RecvInv.                              *)
LEMMA StutterKept == ASSUME RecvInv, UNCHANGED vars PROVE RecvInv'
<1>1. UNCHANGED <<connected, layout, req, wire, pc, buf, field, body, need, ret, cut, sync>>
    BY DEF vars, netVars, recvVars
<1>2. Expected(layout[req].head, layout[req].content)'
        = Expected(layout[req].head, layout[req].content)
    BY <1>1 DEF Expected, Across, ReadFor
<1>3. AnswerOfRequest' /\ ResultByLength'
    BY <1>1, <1>2 DEF RecvInv, AnswerOfRequest, ContentOf, ResultByLength
<1>4. Sent' = Sent /\ layout'[req'].head = layout[req].head
    BY <1>1 DEF Sent
<1>5. ASSUME NEW n, NEW c, NEW b
      PROVE  /\ Taken(b, c, n)' <=> Taken(b, c, n)
             /\ Blocks(b, c, n)' <=> Blocks(b, c, n)
    BY <1>1, <1>4 DEF Taken, Blocks, Across
<1>6. ASSUME NEW n, NEW c, NEW b PROVE HeaderAt(b, c, n)' <=> HeaderAt(b, c, n)
    BY <1>1, <1>5 DEF HeaderAt
<1>7. ASSUME NEW n, NEW c, NEW b PROVE BodyAt(b, c, n)' <=> BodyAt(b, c, n)
    BY <1>1, <1>2, <1>4, <1>5 DEF BodyAt
<1>8. InHeader' <=> InHeader
    BY <1>4, <1>6 DEF InHeader
<1>9. InBody' <=> InBody
    BY <1>4, <1>7 DEF InBody
<1>10. StreamInv'
    BY <1>1, <1>8, <1>9 DEF RecvInv, StreamInv, InSync
<1> QED BY <1>3, <1>10 DEF RecvInv

(* Within a call of recv() the bytes that were read and the bytes still on *)
(* the connection are one piece of the response to the last request, cut   *)
(* at whole reads; between two calls nothing is left over.                 *)
THEOREM RecvInvariant == Spec => []RecvInv
<1>1. Init => RecvInv
    BY DEF Init, RecvInv, StreamInv, InSync, AnswerOfRequest, ResultByLength
<1>2. LimitInv /\ RecvInv /\ [Next]_vars => RecvInv'
    <2> SUFFICES ASSUME LimitInv, RecvInv, [Next]_vars PROVE RecvInv'
        OBVIOUS
    <2>1. CASE Next
        BY <2>1, SendKept, OpenKept, ReadKept, TimeoutKept, NoHeaderKept, HeaderKept,
           ContentKept DEF Next, recv
    <2>2. CASE UNCHANGED vars
        BY <2>2, StutterKept
    <2> QED BY <2>1, <2>2
<1> QED BY <1>1, <1>2, LimitInvariant, PTL DEF Spec

(* recv() returns 0 with the content of the response to the request just   *)
(* sent and with nothing else.                                             *)
THEOREM AnswerBelongs == Spec => []AnswerOfRequest
<1>1. RecvInv => AnswerOfRequest
    BY DEF RecvInv
<1> QED BY <1>1, RecvInvariant, PTL

(* The lengths of a response that comes without a gap decide the result of *)
(* recv(), however read() cuts it.                                         *)
THEOREM LengthsDecide == Spec => []ResultByLength
<1>1. RecvInv => ResultByLength
    BY DEF RecvInv
<1> QED BY <1>1, RecvInvariant, PTL
=============================================================================
