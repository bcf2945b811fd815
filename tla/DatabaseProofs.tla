---------------------------- MODULE DatabaseProofs ----------------------------
(***************************************************************************)
(* For any number of clients and rows: no statement takes effect twice, a  *)
(* lock that execute() reports belongs to the session in use, and fetch()  *)
(* stays in its result wherever execute() has really returned 0.           *)
(*                                                                         *)
(* CallInv is the strengthening.  A statement in hand has taken effect     *)
(* only when its answer is on the way, a lock that was granted is then     *)
(* held by the session unless that is dead, and the cursor of a query in   *)
(* hand has been cleared.                                                  *)
(***************************************************************************)
EXTENDS Database, TLAPS

CallInv ==
    \A c \in Clients : pc[c] \in InCall =>
        /\ times[c] = IF pc[c] = "answer" THEN 1 ELSE 0
        /\ op[c].stmt = "select" => op[c].obj = "query"
        /\ op[c].obj = "query" => /\ fetchable[c] = "no" /\ ~m_bEnd[c] /\ given[c] = 0
                                  /\ m_rows[c] = 0 /\ m_pResult[c] = NoResult
        /\ pc[c] = "answer" =>
              \/ link[c] = "up" /\ (op[c].stmt \in Modes => locks[c] = op[c].stmt)
              \/ link[c] = "dead"

BlindInv == \A c \in Clients : fetchable[c] = "blind" => m_pResult[c] = NoResult /\ ~m_bEnd[c]

DbInv == TypeOK /\ ExactlyOnce /\ CursorSafe /\ CallInv /\ BlindInv

LEMMA InitDb == Init => DbInv
  <1> SUFFICES ASSUME Init PROVE DbInv
    OBVIOUS
  <1>1. TypeOK
    <2>1. NoOp \in [obj : Objects, stmt : Stmts, attempt : 1..2]
      BY DEF NoOp, Objects, Stmts, Modes
    <2>2. /\ m_bEnd \in [Clients -> BOOLEAN]
          /\ m_pTable \in [Clients -> [Objects -> BOOLEAN]] /\ calm \in BOOLEAN
      BY Zenon DEF Init
    <2>3. QED
      BY <2>1, <2>2, DatabaseAssumption DEF Init, TypeOK, NoResult
  <1>2. ExactlyOnce /\ CursorSafe /\ CallInv /\ BlindInv
    BY DEF Init, ExactlyOnce, CursorSafe, CallInv, BlindInv, InCall
  <1>3. QED
    BY <1>1, <1>2 DEF DbInv

-----------------------------------------------------------------------------
(***************************************************************************)
(* A step of one client leaves session, call and cursor of the others      *)
(* alone.                                                                  *)
(***************************************************************************)
\* The parts of the state that only their own client, or the server for it, changes.
Same(d) == /\ pc'[d] = pc[d] /\ op'[d] = op[d] /\ times'[d] = times[d] /\ ret'[d] = ret[d]
           /\ fetchable'[d] = fetchable[d] /\ m_pResult'[d] = m_pResult[d]
           /\ m_bEnd'[d] = m_bEnd[d] /\ m_rows'[d] = m_rows[d] /\ given'[d] = given[d]
           /\ link'[d] = link[d] /\ locks'[d] = locks[d]

\* The invariants for one client: its cursor, its call.
GoodCursor(d) ==
    /\ fetchable[d] = "yes" =>
          IF m_bEnd[d] THEN m_pResult[d] = NoResult
          ELSE m_pResult[d] >= 0 /\ given[d] + m_pResult[d] = m_rows[d]
    /\ fetchable[d] = "blind" =>
          m_rows[d] = 0 /\ given[d] = 0 /\ m_pResult[d] = NoResult /\ ~m_bEnd[d]
    /\ pc[d] = "crashed" => fetchable[d] = "blind"

GoodCall(d) ==
    /\ times[d] <= 1
    /\ pc[d] = "idle" /\ ret[d] \in {"ok", "any"} => times[d] = 1
    /\ pc[d] \in InCall =>
          /\ times[d] = IF pc[d] = "answer" THEN 1 ELSE 0
          /\ op[d].stmt = "select" => op[d].obj = "query"
          /\ op[d].obj = "query" => /\ fetchable[d] = "no" /\ ~m_bEnd[d] /\ given[d] = 0
                                    /\ m_rows[d] = 0 /\ m_pResult[d] = NoResult
          /\ pc[d] = "answer" =>
                \/ link[d] = "up" /\ (op[d].stmt \in Modes => locks[d] = op[d].stmt)
                \/ link[d] = "dead"

Good(d) == GoodCursor(d) /\ GoodCall(d)

LEMMA GoodInv == DbInv <=> TypeOK /\ \A d \in Clients : Good(d)
  BY DEF DbInv, ExactlyOnce, CursorSafe, CallInv, BlindInv, Good, GoodCursor, GoodCall

LEMMA GoodSame == ASSUME NEW d \in Clients, Good(d), Same(d) PROVE Good(d)'
  BY DEF Good, GoodCursor, GoodCall, Same

SessionType == /\ calm' \in BOOLEAN /\ link' \in [Clients -> {"closed", "init", "up", "dead", "nodb"}]
               /\ locks' \in [Clients -> Modes \cup {"none"}]

\* A step of the session of c.
SessionOf(c) == SessionType /\ \A d \in Clients \ {c} : link'[d] = link[d] /\ locks'[d] = locks[d]

Kept(c) == TypeOK' /\ Good(c)' /\ \A d \in Clients \ {c} : Same(d)

-----------------------------------------------------------------------------
(***************************************************************************)
(* How a call ends.                                                        *)
(***************************************************************************)
LEMMA ReturnsType ==
    ASSUME TypeOK, NEW c \in Clients, NEW r \in {"ok", "fail", "any"}, Returns(c, r)
    PROVE  /\ pc' = [pc EXCEPT ![c] = "idle"] /\ op' = [op EXCEPT ![c] = NoOp]
           /\ \E s \in {"ok", "fail", "any"} :
                /\ ret' = [ret EXCEPT ![c] = s]
                /\ s = "fail" <=> r = "fail"
                /\ s = "ok" => r = "ok" /\ (op[c].obj = "exec" \/ op[c].stmt = "select")
                /\ s = "any" => r = "any" \/ op[c].stmt # "select"
                /\ \/ fetchable' = fetchable
                   \/ op[c].obj = "query" /\ s = "ok" /\ fetchable' = [fetchable EXCEPT ![c] = "yes"]
                   \/ op[c].obj = "query" /\ s = "any" /\ fetchable' = [fetchable EXCEPT ![c] = "blind"]
           /\ m_pTable' \in [Clients -> [Objects -> BOOLEAN]]
  <1> DEFINE seen == IF op[c].obj = "query" /\ r = "ok" /\ op[c].stmt # "select" THEN "any" ELSE r
  <1>1. op[c].obj \in Objects
    BY DEF TypeOK
  <1>2. PICK taken \in {x \in BOOLEAN : seen = "any" \/ x = (seen = "ok")} :
              /\ m_pTable' = IF taken /\ op[c].stmt \in Modes
                             THEN [m_pTable EXCEPT ![c][op[c].obj] = TRUE] ELSE m_pTable
              /\ fetchable' = IF taken /\ op[c].obj = "query" /\ op[c].stmt \in {"update", "select"}
                              THEN [fetchable EXCEPT ![c] = IF seen = "ok" THEN "yes" ELSE "blind"]
                              ELSE fetchable
    BY DEF Returns
  <1>3. m_pTable' \in [Clients -> [Objects -> BOOLEAN]]
    <2>1. m_pTable \in [Clients -> [Objects -> BOOLEAN]]
      BY DEF TypeOK
    <2>2. ASSUME NEW f \in [Objects -> BOOLEAN], NEW o \in Objects, NEW b \in BOOLEAN
          PROVE  [f EXCEPT ![o] = b] \in [Objects -> BOOLEAN]
      BY Zenon
    <2>3. [m_pTable[c] EXCEPT ![op[c].obj] = TRUE] \in [Objects -> BOOLEAN]
      BY <1>1, <2>1, <2>2
    <2> DEFINE row == [m_pTable[c] EXCEPT ![op[c].obj] = TRUE]
    <2>4. m_pTable' = [m_pTable EXCEPT ![c] = row] \/ m_pTable' = m_pTable
      BY <1>2
    <2>5. row \in [Objects -> BOOLEAN]
      BY <2>3
    <2> HIDE DEF row
    <2>6. QED
      BY <2>1, <2>4, <2>5
  <1>4. seen \in {"ok", "fail", "any"} /\ (seen = "fail" <=> r = "fail")
        /\ (seen = "ok" => r = "ok" /\ (op[c].obj = "exec" \/ op[c].stmt = "select"))
        /\ (seen = "any" => r = "any" \/ op[c].stmt # "select")
    BY <1>1 DEF Objects
  <1>5. /\ pc' = [pc EXCEPT ![c] = "idle"] /\ op' = [op EXCEPT ![c] = NoOp]
        /\ ret' = [ret EXCEPT ![c] = seen]
    BY DEF Returns
  <1> HIDE DEF seen
  <1>6. taken => seen = "any" \/ seen = "ok"
    BY <1>2, Zenon
  <1>7. \/ fetchable' = fetchable
        \/ op[c].obj = "query" /\ seen = "ok" /\ fetchable' = [fetchable EXCEPT ![c] = "yes"]
        \/ op[c].obj = "query" /\ seen = "any" /\ fetchable' = [fetchable EXCEPT ![c] = "blind"]
    BY <1>2, <1>6
  <1>8. QED
    BY <1>3, <1>4, <1>5, <1>7

LEMMA FailsType ==
    ASSUME TypeOK, NEW c \in Clients, NEW err, Fails(c, err)
    PROVE  \/ /\ pc' = [pc EXCEPT ![c] = "reconnect"] /\ err = "gone"
              /\ UNCHANGED <<op, ret, m_pTable, fetchable>>
           \/ Returns(c, "fail")
  BY DEF Fails

\* A call that returns without a result set.
LEMMA EndKept ==
    ASSUME DbInv, NEW c \in Clients, pc[c] \in InCall,
           NEW r \in {"ok", "fail", "any"}, Returns(c, r),
           SessionOf(c), UNCHANGED cursorVars, times' = times,
           r # "fail" => pc[c] = "answer",
           r = "ok" => op[c].stmt # "select"
    PROVE  Kept(c)
  <1>1. Good(c) /\ TypeOK
    BY GoodInv
  <1>t. /\ times \in [Clients -> 0..2] /\ ret \in [Clients -> {"none", "ok", "fail", "any"}]
        /\ fetchable \in [Clients -> {"no", "yes", "blind"}]
        /\ op \in [Clients -> [obj : Objects, stmt : Stmts, attempt : 1..2]]
        /\ pc \in [Clients -> InCall \cup {"idle", "crashed"}]
    BY <1>1 DEF TypeOK
  <1>2. times[c] <= 1 /\ (r # "fail" => times[c] = 1)
    BY <1>1 DEF Good, GoodCall
  <1>4. /\ pc' = [pc EXCEPT ![c] = "idle"] /\ op' = [op EXCEPT ![c] = NoOp]
        /\ m_pTable' \in [Clients -> [Objects -> BOOLEAN]]
    BY ReturnsType, <1>1
  <1>5. PICK s \in {"ok", "fail", "any"} :
                /\ ret' = [ret EXCEPT ![c] = s]
                /\ s = "fail" <=> r = "fail"
                /\ s = "ok" => r = "ok" /\ (op[c].obj = "exec" \/ op[c].stmt = "select")
                /\ s = "any" => r = "any" \/ op[c].stmt # "select"
                /\ \/ fetchable' = fetchable
                   \/ op[c].obj = "query" /\ s = "ok" /\ fetchable' = [fetchable EXCEPT ![c] = "yes"]
                   \/ op[c].obj = "query" /\ s = "any" /\ fetchable' = [fetchable EXCEPT ![c] = "blind"]
    BY ReturnsType, <1>1
  <1>6. \/ fetchable' = fetchable
        \/ op[c].obj = "query" /\ fetchable' = [fetchable EXCEPT ![c] = "blind"]
    BY <1>5
  <1>8. NoOp \in [obj : Objects, stmt : Stmts, attempt : 1..2]
    BY DEF NoOp, Objects, Stmts, Modes
  <1>9. TypeOK'
    <2>1. /\ fetchable' \in [Clients -> {"no", "yes", "blind"}]
          /\ ret' \in [Clients -> {"none", "ok", "fail", "any"}]
          /\ op' \in [Clients -> [obj : Objects, stmt : Stmts, attempt : 1..2]]
          /\ pc' \in [Clients -> InCall \cup {"idle", "crashed"}]
      BY <1>t, <1>4, <1>5, <1>6, <1>8
    <2>2. QED
      BY <1>1, <1>4, <2>1 DEF TypeOK, SessionOf, SessionType, cursorVars
  <1>10. \A d \in Clients \ {c} : Same(d)
    BY <1>t, <1>4, <1>5, <1>6 DEF Same, SessionOf, cursorVars
  <1>11. pc'[c] = "idle" /\ ret'[c] = s
    BY <1>4, <1>5, <1>t
  <1>12. GoodCall(c)'
    BY <1>2, <1>5, <1>11 DEF GoodCall, InCall
  <1>13. GoodCursor(c)'
    <2>1. CASE fetchable' = fetchable
      BY <1>1, <1>11, <2>1 DEF Good, GoodCursor, cursorVars
    <2>2. CASE op[c].obj = "query" /\ fetchable' = [fetchable EXCEPT ![c] = "blind"]
      <3>1. /\ fetchable'[c] = "blind" /\ ~m_bEnd[c] /\ given[c] = 0
            /\ m_rows[c] = 0 /\ m_pResult[c] = NoResult
        BY <1>1, <1>t, <2>2 DEF Good, GoodCall
      <3>2. QED
        BY <1>11, <3>1 DEF GoodCursor, cursorVars
    <2>3. QED
      BY <1>6, <2>1, <2>2
  <1>14. QED
    BY <1>9, <1>10, <1>12, <1>13 DEF Kept, Good

\* A statement that fails returns, or waits for reconnect().
LEMMA FailKept ==
    ASSUME DbInv, NEW c \in Clients, pc[c] \in InCall, NEW err, Fails(c, err),
           SessionOf(c), UNCHANGED cursorVars, times' = times,
           err = "gone" => pc[c] # "answer"
    PROVE  Kept(c)
  <1>1. Good(c) /\ TypeOK
    BY GoodInv
  <1>2. CASE Returns(c, "fail")
    BY <1>2, EndKept
  <1>3. CASE /\ pc' = [pc EXCEPT ![c] = "reconnect"] /\ err = "gone"
             /\ UNCHANGED <<op, ret, m_pTable, fetchable>>
    <2>2. TypeOK'
      BY <1>1, <1>3 DEF TypeOK, SessionOf, SessionType, cursorVars, InCall
    <2>3. \A d \in Clients \ {c} : Same(d)
      BY <1>1, <1>3 DEF Same, TypeOK, cursorVars, SessionOf
    <2>4. pc'[c] = "reconnect"
      BY <1>1, <1>3 DEF TypeOK
    <2>5. GoodCall(c)'
      BY <1>1, <1>3, <2>4 DEF Good, GoodCall, cursorVars
    <2>6. GoodCursor(c)'
      BY <1>1, <1>3, <2>4 DEF Good, GoodCursor, cursorVars
    <2>7. QED
      BY <2>2, <2>3, <2>5, <2>6 DEF Kept, Good
  <1>4. QED
    BY <1>1, <1>2, <1>3, FailsType

-----------------------------------------------------------------------------
(***************************************************************************)
(* One lemma per action.                                                   *)
(***************************************************************************)
LEMMA SessionKept ==
    ASSUME DbInv, NEW c \in Clients, Connect(c) \/ Close(c) \/ Drop(c) PROVE Kept(c)
  <1>1. UNCHANGED callVars /\ UNCHANGED cursorVars /\ calm' = calm
    BY DEF Connect, Close, Drop
  <1>t. /\ link \in [Clients -> {"closed", "init", "up", "dead", "nodb"}]
        /\ locks \in [Clients -> Modes \cup {"none"}] /\ calm \in BOOLEAN
    BY DEF DbInv, TypeOK
  <1>2. SessionOf(c) /\ (pc[c] = "idle" \/ link'[c] = "dead")
    <2>2. CASE Connect(c)
      BY <1>t, <1>1, <2>2 DEF Connect, SessionOf, SessionType
    <2>3. CASE Close(c)
      BY <1>t, <1>1, <2>3 DEF Close, Unlocked, SessionOf, SessionType
    <2>4. CASE Drop(c)
      BY <1>t, <1>1, <2>4 DEF Drop, Unlocked, SessionOf, SessionType
    <2>5. QED
      BY <2>2, <2>3, <2>4
  <1>3. TypeOK'
    BY <1>1, <1>2 DEF DbInv, TypeOK, callVars, cursorVars, SessionOf, SessionType
  <1>4. \A d \in Clients \ {c} : Same(d)
    BY <1>1, <1>2 DEF Same, callVars, cursorVars, SessionOf
  <1>5. Good(c)
    BY GoodInv
  <1>6. GoodCursor(c)'
    BY <1>1, <1>5 DEF Good, GoodCursor, callVars, cursorVars
  <1>7. GoodCall(c)'
    BY <1>1, <1>2, <1>5 DEF Good, GoodCall, callVars, cursorVars, InCall
  <1>8. QED
    BY <1>3, <1>4, <1>6, <1>7 DEF Kept, Good

LEMMA FetchKept == ASSUME DbInv, NEW c \in Clients, fetch(c) PROVE Kept(c)
  <1>1. Good(c) /\ TypeOK
    BY GoodInv
  <1>t. /\ m_pResult \in [Clients -> NoResult..MaxRows] /\ m_rows \in [Clients -> 0..MaxRows]
        /\ given \in [Clients -> 0..MaxRows] /\ m_bEnd \in [Clients -> BOOLEAN]
        /\ fetchable \in [Clients -> {"no", "yes", "blind"}]
    BY <1>1 DEF TypeOK
  <1>2. UNCHANGED sessionVars /\ UNCHANGED callVars /\ pc[c] = "idle" /\ fetchable[c] # "no"
    BY DEF fetch
  <1>c. GoodCall(c)'
    BY <1>1, <1>2 DEF Good, GoodCall, callVars, sessionVars, InCall
  <1>3. CASE UNCHANGED cursorVars
    <2>1. TypeOK'
      BY <1>1, <1>2, <1>3 DEF TypeOK, sessionVars, callVars, cursorVars
    <2>2. \A d \in Clients : Same(d)
      BY <1>2, <1>3 DEF Same, sessionVars, callVars, cursorVars
    <2>3. QED
      BY <2>1, <2>2, GoodSame, <1>1 DEF Kept
  <1>4. CASE /\ ~m_bEnd[c] /\ m_pResult[c] > 0
             /\ m_pResult' = [m_pResult EXCEPT ![c] = @ - 1]
             /\ given' = [given EXCEPT ![c] = @ + 1] /\ UNCHANGED <<m_bEnd, m_rows>>
    <2>0. fetchable[c] = "yes"
      BY <1>1, <1>2, <1>4, <1>t DEF Good, GoodCursor, NoResult
    <2>1. given[c] + m_pResult[c] = m_rows[c]
      BY <1>1, <2>0, <1>4 DEF Good, GoodCursor
    <2>2. given' \in [Clients -> 0..MaxRows] /\ m_pResult' \in [Clients -> NoResult..MaxRows]
      BY <1>4, <1>t, <2>1, DatabaseAssumption DEF NoResult
    <2>3. TypeOK'
      BY <1>1, <1>2, <1>4, <2>2 DEF TypeOK, sessionVars, callVars
    <2>4. \A d \in Clients \ {c} : Same(d)
      BY <1>2, <1>4, <1>t DEF Same, callVars, sessionVars
    <2>5. /\ m_pResult'[c] >= 0 /\ given'[c] + m_pResult'[c] = m_rows'[c]
          /\ fetchable'[c] = "yes" /\ pc'[c] = "idle" /\ ~m_bEnd'[c]
      BY <1>2, <1>4, <1>t, <2>0, <2>1, DatabaseAssumption DEF callVars, NoResult
    <2>6. QED
      BY <1>c, <2>3, <2>4, <2>5 DEF Kept, Good, GoodCursor
  <1>5. CASE m_pResult[c] = 0 /\ Cleared(c, TRUE) /\ UNCHANGED given
    <2>0. fetchable[c] = "yes"
      BY <1>1, <1>2, <1>5, <1>t DEF Good, GoodCursor, NoResult
    <2>1. m_bEnd' \in [Clients -> BOOLEAN]
      BY <1>5, <1>t, Zenon DEF Cleared
    <2>2. TypeOK'
      BY <1>1, <1>2, <1>5, <2>1, DatabaseAssumption DEF TypeOK, Cleared, sessionVars, callVars, NoResult
    <2>3. \A d \in Clients \ {c} : Same(d)
      BY <1>2, <1>5, <1>t DEF Same, Cleared, callVars, sessionVars
    <2>4. m_bEnd'[c] /\ m_pResult'[c] = NoResult /\ fetchable'[c] = "yes" /\ pc'[c] = "idle"
      BY <1>2, <1>5, <1>t, <2>0 DEF Cleared, callVars
    <2>6. QED
      BY <1>c, <2>2, <2>3, <2>4 DEF Kept, Good, GoodCursor
  <1>6. QED
    BY <1>3, <1>4, <1>5 DEF fetch

\* Only a caller that execute() has told nothing reads through NULL.
LEMMA FetchNullKept == ASSUME DbInv, NEW c \in Clients, FetchNull(c) PROVE Kept(c)
  <1>1. Good(c) /\ TypeOK
    BY GoodInv
  <1>t. /\ link \in [Clients -> {"closed", "init", "up", "dead", "nodb"}]
        /\ locks \in [Clients -> Modes \cup {"none"}] /\ calm \in BOOLEAN
        /\ pc \in [Clients -> InCall \cup {"idle", "crashed"}]
        /\ fetchable \in [Clients -> {"no", "yes", "blind"}]
    BY <1>1 DEF TypeOK
  <1>2. fetchable[c] = "blind" /\ pc[c] = "idle"
    BY <1>1, <1>t DEF FetchNull, Good, GoodCursor, NoResult
  <1>3. SessionOf(c) /\ pc' \in [Clients -> InCall \cup {"idle", "crashed"}]
    BY <1>t DEF FetchNull, SessionOf, SessionType, Unlocked
  <1>4. TypeOK'
    BY <1>1, <1>3 DEF FetchNull, TypeOK, SessionOf, SessionType, cursorVars
  <1>5. \A d \in Clients \ {c} : Same(d)
    BY <1>3, <1>t DEF FetchNull, Same, SessionOf, cursorVars
  <1>6. pc'[c] = "crashed" /\ UNCHANGED <<op, times, ret, fetchable, cursorVars>>
    BY <1>t DEF FetchNull
  <1>7. GoodCursor(c)'
    BY <1>1, <1>2, <1>6 DEF Good, GoodCursor, cursorVars
  <1>8. GoodCall(c)'
    BY <1>1, <1>6 DEF Good, GoodCall, InCall
  <1>9. QED
    BY <1>4, <1>5, <1>7, <1>8 DEF Kept, Good

LEMMA CallKept ==
    ASSUME DbInv, NEW c \in Clients, NEW o \in Objects, NEW s \in Stmts, Call(c, o, s)
    PROVE  Kept(c)
  <1>1. Good(c) /\ TypeOK
    BY GoodInv
  <1>t. /\ times \in [Clients -> 0..2] /\ ret \in [Clients -> {"none", "ok", "fail", "any"}]
        /\ fetchable \in [Clients -> {"no", "yes", "blind"}]
        /\ op \in [Clients -> [obj : Objects, stmt : Stmts, attempt : 1..2]]
        /\ pc \in [Clients -> InCall \cup {"idle", "crashed"}]
        /\ m_pTable \in [Clients -> [Objects -> BOOLEAN]]
        /\ m_pResult \in [Clients -> NoResult..MaxRows] /\ m_rows \in [Clients -> 0..MaxRows]
        /\ given \in [Clients -> 0..MaxRows] /\ m_bEnd \in [Clients -> BOOLEAN]
    BY <1>1 DEF TypeOK
  <1> DEFINE new == [obj |-> o, stmt |-> s, attempt |-> 1]
  <1>2. /\ op' = [op EXCEPT ![c] = new] /\ pc' = [pc EXCEPT ![c] = "query"]
        /\ times' = [times EXCEPT ![c] = 0] /\ ret' = [ret EXCEPT ![c] = "none"]
        /\ UNCHANGED sessionVars /\ (s = "select" => o = "query") /\ pc[c] = "idle"
    BY DEF Call
  <1>3. new \in [obj : Objects, stmt : Stmts, attempt : 1..2] /\ new.obj = o /\ new.stmt = s
    OBVIOUS
  <1> HIDE DEF new
  <1>4. m_pTable' \in [Clients -> [Objects -> BOOLEAN]]
    <2>1. m_pTable' = [m_pTable EXCEPT ![c][o] = FALSE] \/ m_pTable' = m_pTable
      BY DEF Call
    <2>2. ASSUME NEW f \in [Objects -> BOOLEAN] PROVE [f EXCEPT ![o] = FALSE] \in [Objects -> BOOLEAN]
      BY Zenon
    <2> DEFINE row == [m_pTable[c] EXCEPT ![o] = FALSE]
    <2>3. row \in [Objects -> BOOLEAN] /\ (m_pTable' = [m_pTable EXCEPT ![c] = row] \/ m_pTable' = m_pTable)
      BY <1>t, <2>1, <2>2
    <2> HIDE DEF row
    <2>4. QED
      BY <1>t, <2>3
  <1>5. /\ pc'[c] = "query" /\ times'[c] = 0 /\ op'[c] = new /\ "query" \in InCall
        /\ pc' \in [Clients -> InCall \cup {"idle", "crashed"}]
        /\ op' \in [Clients -> [obj : Objects, stmt : Stmts, attempt : 1..2]]
        /\ times' \in [Clients -> 0..2] /\ ret' \in [Clients -> {"none", "ok", "fail", "any"}]
    BY <1>2, <1>3, <1>t DEF InCall
  <1>6. CASE o = "query"
    <2>1. /\ m_pResult' = [m_pResult EXCEPT ![c] = NoResult] /\ m_bEnd' = [m_bEnd EXCEPT ![c] = FALSE]
          /\ m_rows' = [m_rows EXCEPT ![c] = 0] /\ given' = [given EXCEPT ![c] = 0]
          /\ fetchable' = [fetchable EXCEPT ![c] = "no"]
      BY <1>6 DEF Call, Cleared
    <2>2. m_bEnd' \in [Clients -> BOOLEAN]
      BY <2>1, <1>t, Zenon
    <2>3. /\ m_pResult' \in [Clients -> NoResult..MaxRows] /\ m_rows' \in [Clients -> 0..MaxRows]
          /\ given' \in [Clients -> 0..MaxRows] /\ fetchable' \in [Clients -> {"no", "yes", "blind"}]
      BY <2>1, <1>t, DatabaseAssumption DEF NoResult
    <2>4. TypeOK'
      BY <1>1, <1>2, <1>4, <1>5, <2>2, <2>3 DEF TypeOK, sessionVars
    <2>5. \A d \in Clients \ {c} : Same(d)
      BY <1>2, <1>t, <2>1 DEF Same, sessionVars
    <2>6. /\ fetchable'[c] = "no" /\ ~m_bEnd'[c] /\ given'[c] = 0
          /\ m_rows'[c] = 0 /\ m_pResult'[c] = NoResult
      BY <1>t, <2>1
    <2>7. GoodCall(c)'
      BY <2>6, <1>2, <1>3, <1>5 DEF GoodCall
    <2>8. GoodCursor(c)'
      BY <2>6, <1>5 DEF GoodCursor
    <2>9. QED
      BY <2>4, <2>5, <2>7, <2>8 DEF Kept, Good
  <1>7. CASE o # "query"
    <2>1. UNCHANGED cursorVars /\ fetchable' = fetchable
      BY <1>7 DEF Call
    <2>2. TypeOK'
      BY <1>1, <1>2, <1>4, <1>5, <2>1 DEF TypeOK, sessionVars, cursorVars
    <2>3. \A d \in Clients \ {c} : Same(d)
      BY <1>2, <1>t, <2>1 DEF Same, cursorVars, sessionVars
    <2>4. GoodCall(c)'
      BY <1>2, <1>3, <1>5, <1>7 DEF GoodCall
    <2>5. GoodCursor(c)'
      BY <1>1, <1>5, <2>1 DEF Good, GoodCursor, cursorVars
    <2>6. QED
      BY <2>2, <2>3, <2>4, <2>5 DEF Kept, Good
  <1>8. QED
    BY <1>6, <1>7

LEMMA SendKept == ASSUME DbInv, NEW c \in Clients, Send(c) PROVE Kept(c)
  <1>1. /\ Good(c) /\ TypeOK /\ pc[c] = "query" /\ "query" \in InCall /\ calm' = calm
        /\ times' = times /\ UNCHANGED cursorVars
    BY GoodInv DEF Send, InCall
  <1>2. SessionOf(c)
    <2>1. locks' = locks \/ locks' = [locks EXCEPT ![c] = "none"]
      BY DEF Send, Unlocked
    <2>2. link' = link \/ link' = [link EXCEPT ![c] = "init"]
      BY DEF Send
    <2>3. QED
      BY <1>1, <2>1, <2>2 DEF SessionOf, SessionType, TypeOK
  <1>3. ASSUME NEW err, Fails(c, err) PROVE Kept(c)
    BY <1>1, <1>2, <1>3, FailKept
  <1>4. CASE pc' = [pc EXCEPT ![c] = "server"] /\ UNCHANGED <<op, ret, m_pTable, fetchable>>
    <2>1. TypeOK'
      BY <1>1, <1>2, <1>4 DEF TypeOK, SessionOf, SessionType, cursorVars, InCall
    <2>2. \A d \in Clients \ {c} : Same(d)
      BY <1>1, <1>2, <1>4 DEF Same, TypeOK, cursorVars, SessionOf
    <2>3. pc'[c] = "server"
      BY <1>1, <1>4 DEF TypeOK
    <2>4. GoodCall(c)'
      BY <1>1, <1>4, <2>3 DEF Good, GoodCall, cursorVars
    <2>5. GoodCursor(c)'
      BY <1>1, <1>4, <2>3 DEF Good, GoodCursor, cursorVars
    <2>6. QED
      BY <2>1, <2>2, <2>4, <2>5 DEF Kept, Good
  <1>5. QED
    BY <1>3, <1>4 DEF Send

LEMMA EffectKept == ASSUME DbInv, NEW c \in Clients, Effect(c) PROVE Kept(c)
  <1>1. /\ Good(c) /\ TypeOK /\ pc[c] = "server" /\ "server" \in InCall /\ link[c] = "up"
        /\ UNCHANGED <<calm, link, op, ret, m_pTable, fetchable, cursorVars>>
    BY GoodInv DEF Effect, InCall
  <1>t. /\ times \in [Clients -> 0..2] /\ locks \in [Clients -> Modes \cup {"none"}]
        /\ pc \in [Clients -> InCall \cup {"idle", "crashed"}]
    BY <1>1 DEF TypeOK
  <1>2. times[c] = 0
    BY <1>1 DEF Good, GoodCall
  <1>3. /\ times' = [times EXCEPT ![c] = @ + 1] /\ pc' = [pc EXCEPT ![c] = "answer"]
        /\ locks' = IF op[c].stmt \in Modes THEN [locks EXCEPT ![c] = op[c].stmt] ELSE locks
    BY DEF Effect
  <1>4. /\ times' \in [Clients -> 0..2] /\ locks' \in [Clients -> Modes \cup {"none"}]
        /\ pc' \in [Clients -> InCall \cup {"idle", "crashed"}]
    BY <1>2, <1>3, <1>t DEF InCall
  <1>5. TypeOK'
    BY <1>1, <1>4 DEF TypeOK, cursorVars
  <1>6. \A d \in Clients \ {c} : Same(d)
    BY <1>1, <1>3, <1>t DEF Same, cursorVars
  <1>7. /\ times'[c] = 1 /\ pc'[c] = "answer" /\ link'[c] = "up"
        /\ (op[c].stmt \in Modes => locks'[c] = op[c].stmt)
    BY <1>1, <1>2, <1>3, <1>t
  <1>8. GoodCall(c)'
    BY <1>1, <1>7 DEF Good, GoodCall, cursorVars
  <1>9. GoodCursor(c)'
    BY <1>1, <1>7 DEF Good, GoodCursor, cursorVars
  <1>10. QED
    BY <1>5, <1>6, <1>8, <1>9 DEF Kept, Good

LEMMA ReconnectKept == ASSUME DbInv, NEW c \in Clients, reconnect(c) PROVE Kept(c)
  <1>1. /\ Good(c) /\ TypeOK /\ pc[c] = "reconnect" /\ "reconnect" \in InCall
        /\ calm' = calm /\ times' = times /\ UNCHANGED cursorVars
    BY GoodInv DEF reconnect, InCall
  <1>2. SessionOf(c)
    <2>1. \E l \in {"closed", "up", "init", "nodb"} : link' = [link EXCEPT ![c] = l]
      BY DEF reconnect
    <2>2. locks' = [locks EXCEPT ![c] = "none"]
      BY DEF reconnect, Unlocked
    <2>3. QED
      BY <1>1, <2>1, <2>2 DEF SessionOf, SessionType, TypeOK
  <1>3. CASE Returns(c, "fail")
    BY <1>1, <1>2, <1>3, EndKept
  <1>4. CASE /\ op' = [op EXCEPT ![c].attempt = 2] /\ pc' = [pc EXCEPT ![c] = "query"]
             /\ UNCHANGED <<ret, m_pTable, fetchable>>
    <2>1. op' \in [Clients -> [obj : Objects, stmt : Stmts, attempt : 1..2]]
          /\ op'[c].obj = op[c].obj /\ op'[c].stmt = op[c].stmt
      <3> DEFINE row == [op[c] EXCEPT !.attempt = 2]
      <3>1. /\ row \in [obj : Objects, stmt : Stmts, attempt : 1..2]
            /\ row.obj = op[c].obj /\ row.stmt = op[c].stmt
        <4>1. op[c] \in [obj : Objects, stmt : Stmts, attempt : 1..2]
          BY <1>1 DEF TypeOK
        <4>2. row = [obj |-> op[c].obj, stmt |-> op[c].stmt, attempt |-> 2]
          BY <4>1
        <4>3. QED
          BY <4>1, <4>2
      <3>2. op' = [op EXCEPT ![c] = row]
        BY <1>4
      <3> HIDE DEF row
      <3>3. QED
        BY <1>1, <3>1, <3>2 DEF TypeOK
    <2>2. TypeOK'
      BY <1>1, <1>2, <1>4, <2>1 DEF TypeOK, SessionOf, SessionType, cursorVars, InCall
    <2>3. \A d \in Clients \ {c} : Same(d)
      BY <1>1, <1>2, <1>4 DEF Same, TypeOK, cursorVars, SessionOf
    <2>4. pc'[c] = "query"
      BY <1>1, <1>4 DEF TypeOK
    <2>5. GoodCall(c)'
      BY <1>1, <1>4, <2>1, <2>4 DEF Good, GoodCall, cursorVars
    <2>6. GoodCursor(c)'
      BY <1>1, <1>4, <2>4 DEF Good, GoodCursor, cursorVars
    <2>7. QED
      BY <2>2, <2>3, <2>5, <2>6 DEF Kept, Good
  <1>5. QED
    BY <1>3, <1>4 DEF reconnect

LEMMA BrokenKept == ASSUME DbInv, NEW c \in Clients, Broken(c) \/ Refused(c) \/ LosesAnswer(c) PROVE Kept(c)
  <1>1. /\ TypeOK /\ pc[c] \in {"server", "answer"} /\ UNCHANGED cursorVars /\ calm' = calm
        /\ times' = times /\ locks' = locks /\ (link' = link \/ link' = [link EXCEPT ![c] = "init"])
    BY GoodInv DEF Broken, Refused, LosesAnswer, sessionVars
  <1>2. SessionOf(c) /\ pc[c] \in InCall
    BY <1>1 DEF SessionOf, SessionType, TypeOK, InCall
  <1>3. CASE Broken(c) \/ Refused(c)
    BY <1>1, <1>2, <1>3, FailKept DEF Broken, Refused
  <1>4. CASE LosesAnswer(c)
    <2>1. (Fails(c, "lost") \/ Returns(c, "any")) /\ pc[c] = "answer"
      BY <1>4 DEF LosesAnswer
    <2>2. QED
      BY <1>1, <1>2, <2>1, FailKept, EndKept
  <1>5. QED
    BY <1>3, <1>4

LEMMA SucceedsKept == ASSUME DbInv, NEW c \in Clients, Succeeds(c) PROVE Kept(c)
  <1>1. /\ Good(c) /\ TypeOK /\ pc[c] = "answer" /\ "answer" \in InCall /\ Returns(c, "ok")
        /\ times' = times /\ UNCHANGED sessionVars
    BY GoodInv DEF Succeeds, InCall
  <1>2. SessionOf(c)
    BY <1>1 DEF SessionOf, SessionType, TypeOK, sessionVars
  <1>3. CASE op[c].stmt # "select"
    BY <1>1, <1>2, <1>3, EndKept DEF Succeeds
  <1>4. CASE op[c].stmt = "select"
    <2>t. /\ ret \in [Clients -> {"none", "ok", "fail", "any"}]
          /\ fetchable \in [Clients -> {"no", "yes", "blind"}]
          /\ op \in [Clients -> [obj : Objects, stmt : Stmts, attempt : 1..2]]
          /\ pc \in [Clients -> InCall \cup {"idle", "crashed"}]
          /\ m_pResult \in [Clients -> NoResult..MaxRows] /\ m_rows \in [Clients -> 0..MaxRows]
      BY <1>1 DEF TypeOK
    <2>1. PICK n \in 0..MaxRows : /\ m_pResult' = [m_pResult EXCEPT ![c] = n]
                                  /\ m_rows' = [m_rows EXCEPT ![c] = n]
      BY <1>4 DEF Succeeds
    <2>2. m_bEnd' = m_bEnd /\ given' = given
      BY <1>4 DEF Succeeds
    <2>3. times[c] = 1 /\ ~m_bEnd[c] /\ given[c] = 0 /\ fetchable[c] = "no"
      BY <1>1, <1>4 DEF Good, GoodCall
    <2>5. /\ pc' = [pc EXCEPT ![c] = "idle"] /\ op' = [op EXCEPT ![c] = NoOp]
          /\ m_pTable' \in [Clients -> [Objects -> BOOLEAN]]
      BY ReturnsType, <1>1
    <2>6. PICK s \in {"ok", "fail", "any"} :
                /\ ret' = [ret EXCEPT ![c] = s]
                /\ s = "any" => "ok" = "any" \/ op[c].stmt # "select"
                /\ \/ fetchable' = fetchable
                   \/ op[c].obj = "query" /\ s = "ok" /\ fetchable' = [fetchable EXCEPT ![c] = "yes"]
                   \/ op[c].obj = "query" /\ s = "any" /\ fetchable' = [fetchable EXCEPT ![c] = "blind"]
      BY ReturnsType, <1>1
    <2>7. fetchable' = fetchable \/ fetchable' = [fetchable EXCEPT ![c] = "yes"]
      BY <1>4, <2>6
    <2>8. NoOp \in [obj : Objects, stmt : Stmts, attempt : 1..2]
      BY DEF NoOp, Objects, Stmts, Modes
    <2>9. /\ m_pResult' \in [Clients -> NoResult..MaxRows] /\ m_rows' \in [Clients -> 0..MaxRows]
          /\ fetchable' \in [Clients -> {"no", "yes", "blind"}]
          /\ ret' \in [Clients -> {"none", "ok", "fail", "any"}]
          /\ op' \in [Clients -> [obj : Objects, stmt : Stmts, attempt : 1..2]]
          /\ pc' \in [Clients -> InCall \cup {"idle", "crashed"}]
      BY <2>1, <2>5, <2>6, <2>7, <2>8, <2>t, DatabaseAssumption DEF NoResult
    <2>10. TypeOK'
      BY <1>1, <2>2, <2>5, <2>9 DEF TypeOK, sessionVars
    <2>11. \A d \in Clients \ {c} : Same(d)
      BY <2>t, <1>1, <2>1, <2>2, <2>5, <2>6, <2>7 DEF Same, sessionVars
    <2>12. /\ pc'[c] = "idle" /\ m_pResult'[c] = n /\ m_rows'[c] = n
           /\ fetchable'[c] \in {"no", "yes"} /\ ~m_bEnd'[c] /\ given'[c] = 0 /\ times'[c] = 1
      BY <1>1, <2>1, <2>2, <2>3, <2>5, <2>7, <2>t
    <2>13. GoodCall(c)' /\ GoodCursor(c)'
      BY <2>12 DEF GoodCall, GoodCursor, InCall
    <2>14. QED
      BY <2>10, <2>11, <2>13 DEF Kept, Good
  <1>5. QED
    BY <1>3, <1>4

-----------------------------------------------------------------------------
\* The steps of one client, and of the server for it.
Step(c) == \/ Statement(c) \/ Caller(c) \/ fetch(c) \/ FetchNull(c)
           \/ Connect(c) \/ Close(c) \/ Drop(c)

LEMMA StepKept == ASSUME DbInv, NEW c \in Clients, Step(c) PROVE Kept(c)
  BY SendKept, EffectKept, SucceedsKept, BrokenKept, ReconnectKept, CallKept, FetchKept,
     FetchNullKept, SessionKept DEF Step, Statement, Caller

(* The inductive invariant holds in every reachable state.                 *)
THEOREM DbInvariant == Spec => []DbInv
  <1>1. DbInv /\ [Next]_vars => DbInv'
    <2> SUFFICES ASSUME DbInv, [Next]_vars PROVE DbInv'
      OBVIOUS
    <2>1. ASSUME NEW c \in Clients, Kept(c) PROVE DbInv'
      <3>1. \A d \in Clients : Good(d)'
        BY <2>1, GoodInv, GoodSame DEF Kept
      <3>2. QED
        BY <2>1, <3>1 DEF Kept, DbInv, ExactlyOnce, CursorSafe, CallInv, BlindInv, Good, GoodCursor, GoodCall
    <2>3. ASSUME UNCHANGED <<link, locks, callVars, cursorVars>>, calm' \in BOOLEAN PROVE DbInv'
      BY <2>3 DEF DbInv, TypeOK, ExactlyOnce, CursorSafe, CallInv, BlindInv, callVars, cursorVars
    <2>4. CASE Calm
      BY <2>3, <2>4 DEF Calm
    <2>5. CASE UNCHANGED vars
      BY <2>3, <2>5 DEF vars, sessionVars, DbInv, TypeOK
    <2>6. QED
      BY <2>1, StepKept, <2>4, <2>5 DEF Next, Step
  <1>2. QED
    BY InitDb, <1>1, PTL DEF Spec

(* Type correctness of the clients, their cursors and the server.          *)
THEOREM DbTypeCorrect == Spec => []TypeOK
  <1>1. DbInv => TypeOK
    BY DEF DbInv
  <1>2. QED
    BY DbInvariant, <1>1, PTL

(* No statement takes effect twice although execute() sends it again after *)
(* reconnect(), and one that is reported as done has taken effect.         *)
THEOREM NeverTwice == Spec => []ExactlyOnce
  <1>1. DbInv => ExactlyOnce
    BY DEF DbInv
  <1>2. QED
    BY DbInvariant, <1>1, PTL

(* A caller that has seen a true 0 fetches every row; fetch() reads        *)
(* through a NULL result only where execute() has returned nothing.        *)
THEOREM CursorKept == Spec => []CursorSafe
  <1>1. DbInv => CursorSafe
    BY DEF DbInv
  <1>2. QED
    BY DbInvariant, <1>1, PTL

(* When execute() reports a lock, the session in use holds it, unless the  *)
(* server has dropped that session with the answer on its way.             *)
THEOREM LockReported == Spec => LockHeldOnReturn
  <1>1. DbInv /\ [Next]_vars =>
          [\A c \in Clients :
             /\ pc[c] \in InCall /\ pc'[c] = "idle" /\ op[c].stmt \in Modes
             /\ ret'[c] = "ok"
             => \/ link'[c] = "up" /\ locks'[c] = op[c].stmt
                \/ link'[c] = "dead"]_vars
    <2> SUFFICES ASSUME DbInv, Next, NEW c \in Clients, pc[c] \in InCall, pc'[c] = "idle",
                        op[c].stmt \in Modes, ret'[c] = "ok"
                 PROVE  \/ link'[c] = "up" /\ locks'[c] = op[c].stmt
                        \/ link'[c] = "dead"
      BY DEF vars, callVars
    <2>t. TypeOK /\ pc[c] # "idle"
      BY DEF DbInv, InCall
    <2>1. ASSUME NEW d \in Clients, Step(d), d # c PROVE FALSE
      BY <2>1, <2>t, StepKept DEF Kept, Same
    <2>2. ASSUME NEW r \in {"fail", "any"}, Returns(c, r) PROVE FALSE
      <3>1. PICK s \in {"ok", "fail", "any"} : ret' = [ret EXCEPT ![c] = s] /\ (s = "ok" => r = "ok")
        BY <2>2, <2>t, ReturnsType
      <3>2. QED
        BY <3>1, <2>t DEF TypeOK
    <2>3. ASSUME NEW err, Fails(c, err) PROVE FALSE
      BY <2>2, <2>3, <2>t, FailsType DEF TypeOK
    <2>4. CASE Succeeds(c)
      <3>1. pc[c] = "answer" /\ link' = link /\ locks' = locks
        BY <2>4 DEF Succeeds, sessionVars
      <3>2. QED
        BY <3>1 DEF DbInv, CallInv
    <2>5. CASE Send(c) \/ Effect(c) \/ Broken(c) \/ Refused(c) \/ LosesAnswer(c) \/ reconnect(c)
      BY <2>2, <2>3, <2>5, <2>t DEF Send, Effect, Broken, Refused, LosesAnswer, reconnect, TypeOK
    <2>6. CASE Caller(c) \/ fetch(c) \/ FetchNull(c) \/ Connect(c) \/ Close(c) \/ Drop(c) \/ Calm
      BY <2>6, <2>t DEF Caller, Call, fetch, FetchNull, Connect, Close, Drop, Calm, callVars
    <2>8. QED
      BY <2>1, <2>4, <2>5, <2>6 DEF Next, Statement, Step
  <1>2. QED
    BY DbInvariant, <1>1, PTL DEF Spec, LockHeldOnReturn
=============================================================================
