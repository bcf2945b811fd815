------------------------------- MODULE Database -------------------------------
(***************************************************************************)
(* CMysql, CMysqlExecute and CMysqlQuery (src/common_base/database.cpp).   *)
(*                                                                         *)
(* Every client is a process with one CMysql, one CMysqlExecute and one    *)
(* CMysqlQuery on it, as in common_base_test.cpp.  The MySQL server and    *)
(* libmysqlclient are external: a session may be dropped at any time,      *)
(* between statements (mysql_query() then reports CR_SERVER_GONE_ERROR or  *)
(* CR_SERVER_LOST), while the server works on one, or while its answer is  *)
(* on the way (CR_SERVER_LOST, if the answer has not come through).  All   *)
(* statements are about one table, which sessions may have locked.         *)
(***************************************************************************)
EXTENDS Integers

CONSTANTS
    Clients,
    Lockers,    \* the clients that only lock and unlock the table for writing
    MaxRows     \* bound on the rows of a result

ASSUME DatabaseAssumption == MaxRows \in Nat \ {0} /\ Lockers \subseteq Clients

Objects == {"exec", "query"}
Modes == {"read", "write"}
Stmts == Modes \cup {"update", "select", "unlock"}
InCall == {"query", "server", "answer", "reconnect"}
NoResult == -1
NoOp == [obj |-> "exec", stmt |-> "update", attempt |-> 1]

VARIABLES
    calm,      \* from now on the server drops no session and accepts connections
    link,      \* m_handle: "closed", "init" (not connected), "up", "dead"
               \* (dropped, the client has not noticed), "nodb" (no database)
    locks,     \* the table lock the session of c holds on the server
    op,        \* the statement in hand: its object, kind and attempt
    pc,        \* "idle"; in a call: "query" (about to send), "server" (sent),
               \* "answer" (has taken effect), "reconnect"; "crashed"
    times,     \* how often the statement has taken effect on the server
    ret,       \* what the last call returned; "any": execute() has left
               \* without a return statement
    fetchable, \* the caller has seen the last execute() of the CMysqlQuery
               \* return 0: "yes", or "blind" if nothing was returned, or "no"
    m_pTable,  \* per client and object: lock() has succeeded
    m_pResult, \* rows of the stored result not fetched yet, or NoResult
    m_bEnd,
    m_rows,
    given      \* rows that fetch() has returned since execute()

sessionVars == <<calm, link, locks>>
callVars == <<op, pc, times, ret, m_pTable, fetchable>>
cursorVars == <<m_pResult, m_bEnd, m_rows, given>>
vars == <<sessionVars, callVars, cursorVars>>

TypeOK ==
    /\ calm \in BOOLEAN
    /\ link \in [Clients -> {"closed", "init", "up", "dead", "nodb"}]
    /\ locks \in [Clients -> Modes \cup {"none"}]
    /\ op \in [Clients -> [obj : Objects, stmt : Stmts, attempt : 1..2]]
    /\ pc \in [Clients -> InCall \cup {"idle", "crashed"}]
    /\ times \in [Clients -> 0..2]
    /\ ret \in [Clients -> {"none", "ok", "fail", "any"}]
    /\ fetchable \in [Clients -> {"no", "yes", "blind"}]
    /\ m_pTable \in [Clients -> [Objects -> BOOLEAN]]
    /\ m_pResult \in [Clients -> NoResult..MaxRows]
    /\ m_bEnd \in [Clients -> BOOLEAN]
    /\ m_rows \in [Clients -> 0..MaxRows]
    /\ given \in [Clients -> 0..MaxRows]

Init ==
    /\ calm = FALSE
    /\ link = [c \in Clients |-> "init"]
    /\ locks = [c \in Clients |-> "none"]
    /\ op = [c \in Clients |-> NoOp]
    /\ pc = [c \in Clients |-> "idle"]
    /\ times = [c \in Clients |-> 0]
    /\ ret = [c \in Clients |-> "none"]
    /\ fetchable = [c \in Clients |-> "no"]
    /\ m_pTable = [c \in Clients |-> [o \in Objects |-> FALSE]]
    /\ m_pResult = [c \in Clients |-> NoResult]
    /\ m_bEnd = [c \in Clients |-> FALSE]
    /\ m_rows = [c \in Clients |-> 0]
    /\ given = [c \in Clients |-> 0]

-----------------------------------------------------------------------------
(***************************************************************************)
(* The server and the library.                                             *)
(***************************************************************************)
Unlocked(c) == [locks EXCEPT ![c] = "none"]

\* The other sessions whose table lock makes the statement of c wait.
InTheWay(c) ==
    {d \in Clients \ {c} :
        IF op[c].stmt \in {"write", "update"} THEN locks[d] # "none" ELSE locks[d] = "write"}

ReadLocked(c) == op[c].stmt = "update" /\ locks[c] = "read"

\* The server drops the session of c: its locks go with it.
Drop(c) ==
    /\ ~calm /\ link[c] \in {"up", "nodb"}
    /\ link' = [link EXCEPT ![c] = "dead"]
    /\ locks' = Unlocked(c)
    /\ UNCHANGED <<calm, callVars, cursorVars>>

\* The last disturbance is over.
Calm ==
    /\ ~calm /\ calm' = TRUE
    /\ UNCHANGED <<link, locks, callVars, cursorVars>>

-----------------------------------------------------------------------------
(***************************************************************************)
(* How a statement ends: what execute(), lock() and unlock() return.       *)
(***************************************************************************)
\* CMysqlQuery::execute() has no return statement when there is no result
\* set: the caller then takes any number for success (taken) or failure.
Returns(c, r) ==
    LET o == op[c].obj
        seen == IF o = "query" /\ r = "ok" /\ op[c].stmt # "select" THEN "any" ELSE r
    IN  /\ pc' = [pc EXCEPT ![c] = "idle"]
        /\ ret' = [ret EXCEPT ![c] = seen]
        /\ op' = [op EXCEPT ![c] = NoOp]
        /\ \E taken \in {x \in BOOLEAN : seen = "any" \/ x = (seen = "ok")} :
              /\ m_pTable' = IF taken /\ op[c].stmt \in Modes
                             THEN [m_pTable EXCEPT ![c][o] = TRUE] ELSE m_pTable
              /\ fetchable' = IF taken /\ o = "query" /\ op[c].stmt \in {"update", "select"}
                              THEN [fetchable EXCEPT ![c] = IF seen = "ok" THEN "yes" ELSE "blind"]
                              ELSE fetchable

\* Variant: a statement whose answer was lost is sent again, too.
Fails_RetriesLost(c, err) ==
    IF op[c].attempt = 1 /\ err \in {"gone", "lost"}
    THEN pc' = [pc EXCEPT ![c] = "reconnect"] /\ UNCHANGED <<op, ret, m_pTable, fetchable>>
    ELSE Returns(c, "fail")

\* mysql_query() # 0: only CR_SERVER_GONE_ERROR is worth a second attempt.
Fails(c, err) ==
    IF op[c].attempt = 1 /\ err = "gone"
    THEN pc' = [pc EXCEPT ![c] = "reconnect"] /\ UNCHANGED <<op, ret, m_pTable, fetchable>>
    ELSE Returns(c, "fail")

\* CMysqlQuery::clear().
Cleared(c, end) ==
    /\ m_pResult' = [m_pResult EXCEPT ![c] = NoResult]
    /\ m_bEnd' = [m_bEnd EXCEPT ![c] = end]
    /\ m_rows' = [m_rows EXCEPT ![c] = 0]

\* CMysql::connect() and open() by the caller.
Connect(c) ==
    /\ pc[c] = "idle" /\ link[c] = "init"
    /\ \E l \in {"up", "nodb"} : link' = [link EXCEPT ![c] = l]
    /\ UNCHANGED <<calm, locks, callVars, cursorVars>>

\* CMysql::close(); the destructors of the objects call unlock() first.
Close(c) ==
    /\ pc[c] = "idle" /\ link[c] # "closed"
    /\ \A o \in Objects : ~m_pTable[c][o]
    /\ link' = [link EXCEPT ![c] = "closed"]
    /\ locks' = Unlocked(c)
    /\ UNCHANGED <<calm, callVars, cursorVars>>

\* A call of execute(), lock() or unlock().  unlock() forgets the table
\* before it sends its statement, and returns at once without one.
Call(c, o, s) ==
    /\ pc[c] = "idle"
    /\ s = "select" => o = "query"
    /\ s = "unlock" => m_pTable[c][o]
    /\ op' = [op EXCEPT ![c] = [obj |-> o, stmt |-> s, attempt |-> 1]]
    /\ pc' = [pc EXCEPT ![c] = "query"]
    /\ times' = [times EXCEPT ![c] = 0]
    /\ ret' = [ret EXCEPT ![c] = "none"]
    /\ fetchable' = IF o = "query" THEN [fetchable EXCEPT ![c] = "no"] ELSE fetchable
    /\ m_pTable' = IF s = "unlock" THEN [m_pTable EXCEPT ![c][o] = FALSE] ELSE m_pTable
    /\ IF o = "query" THEN Cleared(c, FALSE) /\ given' = [given EXCEPT ![c] = 0]
                      ELSE UNCHANGED cursorVars
    /\ UNCHANGED sessionVars

\* mysql_query() reaches the server, or finds that there is no session.
Send(c) ==
    /\ pc[c] = "query"
    /\ \/ /\ link[c] \in {"up", "nodb"}
          /\ pc' = [pc EXCEPT ![c] = "server"]
          /\ locks' = IF link[c] = "up" /\ op[c].stmt \in Modes THEN Unlocked(c) ELSE locks
          /\ UNCHANGED <<link, op, ret, m_pTable, fetchable>>
       \/ /\ link[c] \in {"init", "closed"} /\ Fails(c, "gone")
          /\ UNCHANGED <<link, locks>>
       \/ /\ link[c] = "dead" /\ link' = [link EXCEPT ![c] = "init"]
          /\ \E err \in {"gone", "lost"} : Fails(c, err)
          /\ UNCHANGED locks
    /\ UNCHANGED <<calm, times, cursorVars>>

\* The statement takes effect once no other session is in the way; a lock
\* is granted.  The answer is on its way to the client.
Effect(c) ==
    /\ pc[c] = "server" /\ link[c] = "up" /\ op[c].stmt # "unlock"
    /\ ~ReadLocked(c) /\ InTheWay(c) = {}
    /\ times' = [times EXCEPT ![c] = @ + 1]
    /\ locks' = IF op[c].stmt \in Modes THEN [locks EXCEPT ![c] = op[c].stmt] ELSE locks
    /\ pc' = [pc EXCEPT ![c] = "answer"]
    /\ UNCHANGED <<calm, link, op, ret, m_pTable, fetchable, cursorVars>>

\* mysql_query() = 0: the answer has come through, though the session may be
\* gone by now.  A select brings its rows.
Succeeds(c) ==
    /\ pc[c] = "answer" /\ Returns(c, "ok")
    /\ \/ /\ op[c].stmt = "select"
          /\ \E n \in 0..MaxRows : /\ m_pResult' = [m_pResult EXCEPT ![c] = n]
                                   /\ m_rows' = [m_rows EXCEPT ![c] = n]
          /\ UNCHANGED <<m_bEnd, given>>
       \/ op[c].stmt # "select" /\ UNCHANGED cursorVars
    /\ UNCHANGED <<sessionVars, times>>

\* The session was dropped before the answer could be read: CR_SERVER_LOST,
\* or mysql_store_result() returns NULL.
LosesAnswer(c) ==
    /\ pc[c] = "answer" /\ link[c] = "dead"
    /\ link' = [link EXCEPT ![c] = "init"]
    /\ Fails(c, "lost") \/ (op[c].stmt = "select" /\ Returns(c, "any"))
    /\ UNCHANGED <<calm, locks, times, cursorVars>>

\* The server refuses: "unlock table t write" is not a statement of MySQL
\* (UNLOCK TABLES takes no names), a table that the session itself has
\* locked for reading is not written, nothing works without a database.
Refused(c) ==
    /\ pc[c] = "server" /\ link[c] \in {"up", "nodb"}
    /\ op[c].stmt = "unlock" \/ link[c] = "nodb" \/ ReadLocked(c)
    /\ Fails(c, "sql")
    /\ UNCHANGED <<sessionVars, times, cursorVars>>

\* The session was dropped while the statement was at the server.
Broken(c) ==
    /\ pc[c] = "server" /\ link[c] = "dead"
    /\ link' = [link EXCEPT ![c] = "init"]
    /\ Fails(c, "lost")
    /\ UNCHANGED <<calm, locks, times, cursorVars>>

\* Variant: the second attempt is not made.
reconnect_NoRetry(c) ==
    /\ pc[c] = "reconnect" /\ link' = [link EXCEPT ![c] = "up"] /\ locks' = Unlocked(c)
    /\ Returns(c, "ok")
    /\ UNCHANGED <<calm, times, cursorVars>>

\* Variant: reconnect() goes on until it succeeds.
reconnect_Loops(c) ==
    /\ pc[c] = "reconnect" /\ calm
    /\ link' = [link EXCEPT ![c] = "up"] /\ locks' = Unlocked(c)
    /\ op' = [op EXCEPT ![c].attempt = 2]
    /\ pc' = [pc EXCEPT ![c] = "query"]
    /\ UNCHANGED <<calm, times, ret, m_pTable, fetchable, cursorVars>>

\* Variant: the handle is closed and not initialised again when it fails.
reconnect_StaysClosed(c) ==
    /\ pc[c] = "reconnect"
    /\ link' = [link EXCEPT ![c] = "closed"] /\ locks' = Unlocked(c)
    /\ Returns(c, "fail")
    /\ UNCHANGED <<calm, times, cursorVars>>

\* CMysql::reconnect(): close(), init(), connect(), open(), initSQL_.  Each
\* step may fail: the handle is left closed, not connected, connected without
\* a database, or connected with initSQL_ refused.
reconnect(c) ==
    /\ pc[c] = "reconnect"
    /\ locks' = Unlocked(c)
    /\ \/ /\ link' = [link EXCEPT ![c] = "up"]
          /\ op' = [op EXCEPT ![c].attempt = 2]
          /\ pc' = [pc EXCEPT ![c] = "query"]
          /\ UNCHANGED <<ret, m_pTable, fetchable>>
       \/ /\ \E l \in {"closed", "init", "nodb", "up"} :
                (calm => l = "up") /\ link' = [link EXCEPT ![c] = l]
          /\ Returns(c, "fail")
    /\ UNCHANGED <<calm, times, cursorVars>>

-----------------------------------------------------------------------------
\* Variant: the end of the result is not tested.
fetch_Overruns(c) ==
    /\ pc[c] = "idle" /\ fetchable[c] = "yes" /\ m_pResult[c] >= 0
    /\ m_pResult' = [m_pResult EXCEPT ![c] = @ - 1]
    /\ given' = [given EXCEPT ![c] = @ + 1]
    /\ UNCHANGED <<sessionVars, callVars, m_bEnd, m_rows>>

\* CMysqlQuery::fetch(), called when execute() seems to have returned 0.
fetch(c) ==
    /\ pc[c] = "idle" /\ fetchable[c] # "no"
    /\ \/ m_bEnd[c] /\ UNCHANGED cursorVars
       \/ /\ ~m_bEnd[c] /\ m_pResult[c] > 0
          /\ m_pResult' = [m_pResult EXCEPT ![c] = @ - 1]
          /\ given' = [given EXCEPT ![c] = @ + 1]
          /\ UNCHANGED <<m_bEnd, m_rows>>
       \/ ~m_bEnd[c] /\ m_pResult[c] = 0 /\ Cleared(c, TRUE) /\ UNCHANGED given
    /\ UNCHANGED <<sessionVars, callVars>>

\* fetch() hands a NULL m_pResult to mysql_fetch_row(): the process dies, and
\* the server ends its session.
FetchNull(c) ==
    /\ pc[c] = "idle" /\ fetchable[c] # "no" /\ ~m_bEnd[c] /\ m_pResult[c] = NoResult
    /\ pc' = [pc EXCEPT ![c] = "crashed"]
    /\ link' = [link EXCEPT ![c] = "closed"] /\ locks' = Unlocked(c)
    /\ UNCHANGED <<calm, op, times, ret, m_pTable, fetchable, cursorVars>>

-----------------------------------------------------------------------------
Statement(c) == Send(c) \/ Effect(c) \/ Succeeds(c) \/ LosesAnswer(c)
                \/ Refused(c) \/ Broken(c) \/ reconnect(c)
Caller(c) == \E o \in Objects, s \in Stmts :
                /\ c \in Lockers => o = "exec" /\ s \in {"write", "unlock"}
                /\ Call(c, o, s)

Next == \/ Calm
        \/ \E c \in Clients : \/ Statement(c) \/ Caller(c) \/ fetch(c) \/ FetchNull(c)
                               \/ Connect(c) \/ Close(c) \/ Drop(c)

Spec == Init /\ [][Next]_vars

\* Every process runs, the server works on a statement that nothing is in the
\* way of, and a client that is done with one statement has another.
FairSpec == Spec /\ \A c \in Clients : WF_vars(Statement(c)) /\ WF_vars(Caller(c))

(* A statement that execute() reports as done has taken effect once, and   *)
(* none ever takes effect twice, although execute() sends a statement      *)
(* again after it has reconnected.                                         *)
ExactlyOnce ==
    \A c \in Clients :
        /\ times[c] <= 1
        /\ pc[c] = "idle" /\ ret[c] \in {"ok", "any"} => times[c] = 1

(* When lock() returns true after execute() has returned a count, the lock *)
(* belongs to the session that m_handle denotes now, possibly a new one:   *)
(* it is still held, unless the server has dropped that very session while *)
(* the answer was on its way.                                              *)
LockHeldOnReturn ==
    [][\A c \in Clients :
         /\ pc[c] \in InCall /\ pc'[c] = "idle" /\ op[c].stmt \in Modes
         /\ ret'[c] = "ok"
         => \/ link'[c] = "up" /\ locks'[c] = op[c].stmt
            \/ link'[c] = "dead"]_vars

(* A caller that has seen a true 0 fetches every row of the result before  *)
(* the end is reported, whatever happens to the session and to the other   *)
(* object of the connection meanwhile.  fetch() reads through a NULL       *)
(* m_pResult, and the process dies, only where execute() has ended without *)
(* a return statement, and even then rows() says that there is nothing to  *)
(* fetch.                                                                  *)
CursorSafe ==
    \A c \in Clients :
        /\ fetchable[c] = "yes" =>
              IF m_bEnd[c] THEN m_pResult[c] = NoResult
              ELSE m_pResult[c] >= 0 /\ given[c] + m_pResult[c] = m_rows[c]
        /\ fetchable[c] = "blind" => m_rows[c] = 0 /\ given[c] = 0
        /\ pc[c] = "crashed" => fetchable[c] = "blind"

\* The server holds back the statement of c: another session has the table.
Waits(c) == pc[c] = "server" /\ link[c] = "up" /\ InTheWay(c) # {}

(* Every call returns, whatever becomes of the connection: one that never  *)
(* does finds the table locked by another session again and again.         *)
StatementReturns ==
    \A c \in Clients : <>[](pc[c] \in InCall) => []<>Waits(c)

(* Once the server can be reached, a handle is never left closed or        *)
(* without a session for good, as a dropped connection or a failed         *)
(* reconnect() left it: the next calls connect it again.                   *)
Recovers ==
    \A c \in Clients :
        []<>(calm => link[c] \in {"up", "nodb"} \/ pc[c] = "crashed")
=============================================================================
