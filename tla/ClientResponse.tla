----------------------------- MODULE ClientResponse -----------------------------
(***************************************************************************)
(* A response on its way: HttpResponse::dump_to_buff() and                 *)
(* Http_Server::retrieve_worker() on the server, the network, and          *)
(* HttpClient (src/http_client, the same file in src/http_client.babyEasy) *)
(* with the callers' loop of main.cpp: send, recv, and again.              *)
(*                                                                         *)
(* A byte is <<r, i>>, the i-th byte of the response to request r.  The    *)
(* header ends in the Sep bytes "\r\n\r\n"; its first byte stands for the  *)
(* status line and the Content-Length field.  Nothing follows the content. *)
(***************************************************************************)
EXTENDS Integers, Sequences

CONSTANTS
    READ_BUF_SIZE,   \* of the client: 64
    Sep,             \* strlen("\r\n\r\n"): 4
    max_buf_len,     \* the caller's buffer: 40960
    max_dest_len,    \* response_buf of the server: 40960
    Heads, Contents, \* lengths of headers and contents
    MaxRequests      \* bound on the requests

ASSUME ClientAssumption ==
    /\ Sep \in Nat \ {0} /\ READ_BUF_SIZE \in Nat /\ Sep < READ_BUF_SIZE
    /\ max_buf_len \in Nat /\ READ_BUF_SIZE <= max_buf_len
    /\ max_dest_len \in Nat /\ MaxRequests \in Nat
    /\ Heads # {} /\ \A h \in Heads : h \in Nat /\ h > Sep /\ h < max_dest_len
    /\ Contents \subseteq Nat

Requests == 1..MaxRequests
NoContent == -1    \* the handler has not called fillContent()
Errors == {"INVALID_HEADER", "NOT_ENOUGH_BUFF", "READ_TIMEOUT", "NOTHING_LEFT"}

VARIABLES
    connected,
    layout,   \* per request: lengths of header and content of its response
    req,      \* requests sent so far
    wire,     \* bytes on the connection that the client has not read
    pc,       \* recv(): "idle", "header", "parse", "body", "check"
    buf,      \* what readn_timeout() has read
    field,    \* the response whose Content-Length is in the header, or 0
    body,     \* body_buf
    need,     \* need_to_read
    ret,      \* what recv() has returned: "none", "ok" or an error
    cut,      \* bytes of the last response were delayed or lost
    sync      \* no earlier recv() on this connection has given up

netVars == <<connected, layout, req, wire>>
recvVars == <<pc, buf, field, body, need, ret>>
vars == <<netVars, recvVars, cut, sync>>

Bytes == Requests \X Nat

TypeOK ==
    /\ connected \in BOOLEAN /\ cut \in BOOLEAN /\ sync \in BOOLEAN
    /\ layout \in [Requests -> [head : Heads, content : Contents \cup {NoContent}]]
    /\ req \in 0..MaxRequests
    /\ wire \in Seq(Bytes) /\ buf \in Seq(Bytes) /\ body \in Seq(Bytes)
    /\ pc \in {"idle", "header", "parse", "body", "check"}
    /\ field \in 0..MaxRequests
    /\ need \in 0..max_buf_len
    /\ ret \in Errors \cup {"none", "ok"}
    /\ Len(buf) <= IF pc \in {"header", "parse"} THEN READ_BUF_SIZE ELSE need

Init ==
    /\ connected = FALSE
    /\ layout = [r \in Requests |-> [head |-> CHOOSE h \in Heads : TRUE, content |-> NoContent]]
    /\ req = 0 /\ wire = <<>>
    /\ pc = "idle" /\ buf = <<>> /\ field = 0 /\ body = <<>> /\ need = 0 /\ ret = "none"
    /\ cut = FALSE /\ sync = TRUE

-----------------------------------------------------------------------------
(***************************************************************************)
(* The server and the connection.                                          *)
(***************************************************************************)
Segment(r, a, b) == [i \in 1..(b - a + 1) |-> <<r, a + i - 1>>]

\* dump_to_buff() leaves the length of the header in len when the content
\* does not fit; retrieve_worker() sends len bytes without looking at the
\* result.
dump_to_buff(h, c) ==
    IF c = NoContent \/ h + c > max_dest_len THEN h ELSE h + c

\* HttpClient::send(); the server answers, and may give up writing half-way
\* (REPLY_TIMEOUT).
send(h, c, sent) ==
    /\ pc = "idle" /\ connected /\ req < MaxRequests
    /\ sent \in 0..dump_to_buff(h, c)
    /\ req' = req + 1
    /\ layout' = [layout EXCEPT ![req + 1] = [head |-> h, content |-> c]]
    /\ wire' = wire \o Segment(req + 1, 1, sent)
    /\ cut' = (sent < dump_to_buff(h, c))
    /\ pc' = "header" /\ buf' = <<>> /\ field' = 0 /\ body' = <<>> /\ need' = 0 /\ ret' = "none"
    /\ sync' = (sync /\ ret \in {"none", "ok", "NOTHING_LEFT"})
    /\ UNCHANGED connected

\* A failed attempt leaves the client as it was.
connect_server ==
    /\ pc = "idle" /\ ~connected
    /\ connected' = TRUE /\ sync' = TRUE /\ ret' = "none"
    /\ UNCHANGED <<layout, req, wire, pc, buf, field, body, need, cut>>

\* Variant: bytes in flight are found again on the next connection.
disconnect_Keeps ==
    /\ pc = "idle" /\ connected
    /\ connected' = FALSE
    /\ UNCHANGED <<layout, req, wire, recvVars, cut, sync>>

\* HttpClient::disconnect(): bytes in flight go with the connection.
disconnect ==
    /\ pc = "idle" /\ connected
    /\ connected' = FALSE /\ wire' = <<>>
    /\ UNCHANGED <<layout, req, recvVars, cut, sync>>

-----------------------------------------------------------------------------
(***************************************************************************)
(* HttpClient::recv().                                                     *)
(***************************************************************************)
Least(a, b) == IF a < b THEN a ELSE b
Left == (IF pc = "header" THEN READ_BUF_SIZE ELSE need) - Len(buf)

\* One read() of readn_timeout(), of as many bytes as have arrived.
read_data(k) ==
    /\ pc \in {"header", "body"}
    /\ k <= Least(Least(Left, READ_BUF_SIZE), Len(wire))
    /\ buf' = buf \o SubSeq(wire, 1, k)
    /\ wire' = SubSeq(wire, k + 1, Len(wire))
    /\ pc' = CASE k < Left -> pc
               [] k = Left /\ pc = "header" -> "parse"
               [] k = Left /\ pc = "body" -> "check"
    /\ UNCHANGED <<connected, layout, req, field, body, need, ret, cut, sync>>

\* poll() times out, or the server has closed the connection:
\* readn_timeout() returns what it has got.
Timeout ==
    /\ pc \in {"header", "body"}
    /\ pc' = IF pc = "header" THEN "parse" ELSE "check"
    /\ cut' = (cut \/ wire # <<>>)
    /\ UNCHANGED <<netVars, buf, field, body, need, ret, sync>>

Return(r) == pc' = "idle" /\ buf' = <<>> /\ ret' = r

\* strstr(read_buf, "\r\n\r\n"): where the first whole separator ends, or 0.
SepEnds(s) ==
    {j \in Sep..Len(s) :
        \E r \in Requests : SubSeq(s, j - Sep + 1, j)
                            = Segment(r, layout[r].head - Sep + 1, layout[r].head)}
FirstSep(s) == IF SepEnds(s) = {} THEN 0
               ELSE CHOOSE j \in SepEnds(s) : \A k \in SepEnds(s) : j <= k

\* header.find("Content-Length:") in a header that goes on with s.
FieldIn(s) ==
    LET at == {j \in 1..Len(s) : s[j][2] = 1 /\ layout[s[j][1]].content # NoContent}
    IN  IF field # 0 \/ at = {} THEN field
        ELSE s[CHOOSE j \in at : \A k \in at : j <= k][1]

\* Variant: an empty read is taken for a slow server.
NoHeader_Waits ==
    /\ pc = "parse" /\ FirstSep(buf) = 0
    /\ pc' = "header" /\ buf' = <<>> /\ field' = FieldIn(buf)
    /\ UNCHANGED <<netVars, body, need, ret, cut, sync>>

\* read_http_header_timeout() without a separator in what was read.
NoHeader ==
    /\ pc = "parse" /\ FirstSep(buf) = 0
    /\ \/ /\ buf = <<>> /\ Return("INVALID_HEADER")
          /\ UNCHANGED field
       \/ /\ buf # <<>> /\ pc' = "header" /\ buf' = <<>> /\ field' = FieldIn(buf)
          /\ UNCHANGED ret
    /\ UNCHANGED <<netVars, body, need, cut, sync>>

\* Variant: the length of the content is not compared with the buffer.
Header_NoLimit ==
    /\ pc = "parse" /\ FirstSep(buf) # 0
    /\ LET n == FirstSep(buf)
           f == FieldIn(SubSeq(buf, 1, n))
           part == SubSeq(buf, n + 1, Len(buf))
       IN  /\ field' = f
           /\ \/ f = 0 /\ Return("INVALID_HEADER") /\ UNCHANGED <<body, need>>
              \/ /\ f # 0 /\ body' = part /\ need' = layout[f].content - Len(part)
                 /\ pc' = "body" /\ buf' = <<>> /\ UNCHANGED ret
    /\ UNCHANGED <<netVars, cut, sync>>

\* The header is complete; the rest of what was read is the first part of
\* the content.
Header ==
    /\ pc = "parse" /\ FirstSep(buf) # 0
    /\ LET n == FirstSep(buf)
           f == FieldIn(SubSeq(buf, 1, n))
           part == SubSeq(buf, n + 1, Len(buf))
       IN  /\ field' = f
           /\ \/ /\ f = 0 /\ Return("INVALID_HEADER")
                 /\ UNCHANGED <<body, need>>
              \/ /\ f # 0 /\ layout[f].content > max_buf_len
                 /\ Return("NOT_ENOUGH_BUFF")
                 /\ UNCHANGED <<body, need>>
              \/ /\ f # 0 /\ layout[f].content <= max_buf_len
                 /\ body' = part
                 /\ \/ /\ layout[f].content <= Len(part)
                       /\ Return("NOTHING_LEFT")
                       /\ UNCHANGED need
                    \/ /\ layout[f].content > Len(part)
                       /\ need' = layout[f].content - Len(part)
                       /\ pc' = "body" /\ buf' = <<>>
                       /\ UNCHANGED ret
    /\ UNCHANGED <<netVars, cut, sync>>

\* Variant: a short read is not noticed.
Content_Short ==
    /\ pc = "check"
    /\ body' = body \o buf /\ Return("ok")
    /\ UNCHANGED <<netVars, field, need, cut, sync>>

\* The rest of the content has come, or has not come in time.
Content ==
    /\ pc = "check"
    /\ body' = body \o buf
    /\ \/ Len(buf) = need /\ Return("ok")
       \/ Len(buf) # need /\ Return("READ_TIMEOUT")
    /\ UNCHANGED <<netVars, field, need, cut, sync>>

recv == (\E k \in 1..READ_BUF_SIZE : read_data(k)) \/ Timeout \/ NoHeader \/ Header \/ Content

Next ==
    \/ recv \/ connect_server \/ disconnect
    \/ \E h \in Heads, c \in Contents \cup {NoContent} :
          \E sent \in 0..dump_to_buff(h, c) : send(h, c, sent)

Spec == Init /\ [][Next]_vars

\* recv_timeout bounds every poll().
FairSpec == Spec /\ WF_vars(recv)

-----------------------------------------------------------------------------
ContentOf(r) == Segment(r, layout[r].head + 1, layout[r].head + layout[r].content)

(* recv() returns 0 only with the whole content of the response to the     *)
(* request just sent, however the network cuts the bytes and whatever      *)
(* became of the responses before, as long as no recv() on the connection  *)
(* has given up with bytes of its response still to come.                  *)
AnswerOfRequest ==
    pc = "idle" /\ ret = "ok" /\ sync => body = ContentOf(req)

\* The separator of a header of h bytes lies across two reads.
Across(h) == (h - Sep) \div READ_BUF_SIZE # (h - 1) \div READ_BUF_SIZE

\* What has been read when the header of h bytes is complete.
ReadFor(h) == ((h + READ_BUF_SIZE - 1) \div READ_BUF_SIZE) * READ_BUF_SIZE

\* What recv() makes of a response that arrives without a gap.
Expected(h, c) ==
    IF Across(h) \/ c = NoContent THEN "INVALID_HEADER"
    ELSE IF c > max_buf_len THEN "NOT_ENOUGH_BUFF"
    ELSE IF h + c > max_dest_len THEN "READ_TIMEOUT"
    ELSE IF h + c <= ReadFor(h) THEN "NOTHING_LEFT" ELSE "ok"

(* For a response without gaps the result of recv() depends on its lengths *)
(* alone, not on how read() cuts it: it fails when the separator lies      *)
(* across two reads of READ_BUF_SIZE bytes, when the content came along    *)
(* with the header, or when it is too long for either buffer.              *)
ResultByLength ==
    pc = "idle" /\ ret # "none" /\ ~cut /\ sync =>
        ret = Expected(layout[req].head, layout[req].content)

(* recv() never writes behind the caller's buffer or its own (TypeOK), not *)
(* even when late bytes of one response are taken for the next.            *)
BufferSafe == TypeOK /\ Len(body) + (IF pc = "body" THEN need ELSE 0) <= max_buf_len

(* Every recv() returns, although read_http_header_timeout() has no limit  *)
(* on the length of a header.                                              *)
RecvReturns == pc # "idle" ~> pc = "idle"
=============================================================================
