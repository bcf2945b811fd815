---------------------------- MODULE SimConfProofs ----------------------------
(***************************************************************************)
(* For any number of readers and any times with ReadTime < Grace, the      *)
(* reload thread never fills a half that a reader looks up in, and the     *)
(* half in use is loaded.                                                  *)
(*                                                                         *)
(* The strengthening is StaleInv: a reader of the half that is not in use  *)
(* leaves it before the thread wakes up from the sleep after the flip.     *)
(***************************************************************************)
EXTENDS SimConf, TLAPS

StaleInv ==
    \A r \in Readers :
        read[r] # NotReading /\ read[r].half # index[read[r].conf] => read[r].left < wait

AwakeInv == pc \in {"load", "fill"} => wait = 0

\* A pid comes twice in the product configuration only.
DupInv ==
    /\ \A k \in Confs : st[k] = "dup" => k = "product"
    /\ pc = "fill" /\ kind = "dup" => cur = "product"

SimInv == TypeOK /\ ActiveLoaded /\ StaleInv /\ AwakeInv /\ DupInv

\* The part of TypeOK that file_ismodify() touches.
FileType ==
    /\ ver \in [Confs -> 0..MaxEdits]
    /\ st \in [Confs -> {"whole", "dup", "part", "empty", "absent"}]
    /\ same \in [Confs -> BOOLEAN] /\ missed \in [Confs -> BOOLEAN]
    /\ seenNow \in [Confs -> BOOLEAN] /\ editNow \in [Confs -> BOOLEAN]

\* The two files are each other's other.
LEMMA OtherFile == \A k \in Confs : Other(k) \in Confs
  <1>1. ASSUME NEW k \in Confs PROVE \E l \in Confs : l # k
    BY DEF Confs
  <1>2. QED
    BY <1>1 DEF Other

\* A reader that is reading has time left.
LEMMA ReadingType ==
    ASSUME TypeOK, NEW r \in Readers, read[r] # NotReading
    PROVE  /\ read[r] \in Reading
           /\ read[r].conf \in Confs /\ read[r].half \in 0..1 /\ read[r].left \in 0..ReadTime
  BY DEF TypeOK, Reading

LEMMA InitSim == Init => SimInv
  <1> SUFFICES ASSUME Init PROVE SimInv
    OBVIOUS
  <1>2. TypeOK
    BY SimConfAssumption DEF Init, TypeOK, Confs, Empty, Cut
  <1>3. ActiveLoaded /\ StaleInv /\ AwakeInv /\ DupInv
    BY DEF Init, ActiveLoaded, StaleInv, AwakeInv, DupInv, Empty, Cut
  <1>4. QED
    BY <1>2, <1>3 DEF SimInv

\* The thread cannot be awake beside a reader of the half not in use.
LEMMA AwakeFresh ==
    ASSUME SimInv, wait = 0, NEW r \in Readers, read[r] # NotReading
    PROVE  read[r].half = index[read[r].conf]
  <1>1. read[r].left \in 0..ReadTime
    BY ReadingType DEF SimInv
  <1>2. read[r].half # index[read[r].conf] => read[r].left < 0
    BY DEF SimInv, StaleInv
  <1>3. QED
    BY <1>1, <1>2, SimConfAssumption

LEMMA TypeStep == SimInv /\ [Next]_vars => TypeOK'
  <1> SUFFICES ASSUME SimInv, [Next]_vars PROVE TypeOK'
    OBVIOUS
  <1> USE SimConfAssumption DEF SimInv, TypeOK
  <1>1. ASSUME NEW k \in Confs, NEW s \in {"whole", "dup", "part", "absent"}, Edit(k, s) PROVE TypeOK'
    BY <1>1 DEF Edit, Touched, threadVars
  <1>2. CASE Tick
    <2>1. read' \in [Readers -> Reading \cup {NotReading}]
      <3>1. ASSUME NEW r \in Readers, read[r] # NotReading
            PROVE  [read[r] EXCEPT !.left = @ - 1] \in Reading
        <4>1. read[r].left \in 1..ReadTime
          BY <1>2, <3>1, ReadingType DEF Tick
        <4>2. QED
          BY <4>1, <3>1, ReadingType DEF Reading
      <3>2. QED
        BY <3>1, <1>2 DEF Tick
    <2>2. wait' \in 0..(Grace + ReloadTime)
      BY <1>2 DEF Tick
    <2>3. QED
      BY <2>1, <2>2, <1>2 DEF Tick
  <1>3. ASSUME NEW r \in Readers, NEW k \in Confs, BeginRead(r, k) PROVE TypeOK'
    BY <1>3 DEF BeginRead, Reading, fileVars, threadVars
  <1>4. ASSUME NEW r \in Readers, EndRead(r) PROVE TypeOK'
    BY <1>4 DEF EndRead, fileVars, threadVars
  <1>5. ASSUME Absent PROVE FileType'
    BY <1>5 DEF Absent, Touched, FileType
  <1>e. ASSUME NEW m \in BOOLEAN, Seen(m) PROVE FileType'
    BY <1>e DEF Seen, FileType
  <1>6. ASSUME NEW s \in {0, Grace}, Onward(s)
        PROVE  pc' = "poll" /\ cur' \in Confs /\ wait' \in 0..(Grace + ReloadTime)
    BY <1>6, OtherFile DEF Onward
  <1>s. CASE Start
    <2>1. (ver[cur] # half[cur][index[cur]]) \in BOOLEAN
      BY Zenon
    <2>2. FileType'
      BY <1>s, <1>5, <1>e, <2>1 DEF Start
    <2>3. pc' \in {"poll", "start"} /\ cur' \in Confs /\ wait' \in 0..(Grace + ReloadTime)
      BY <1>s, OtherFile DEF Start
    <2>4. QED
      BY <1>s, <2>2, <2>3 DEF Start, FileType
  <1>7. CASE Poll
    BY <1>7, <1>5, <1>6, <1>e DEF Poll, fileVars, FileType
  <1>x. CASE Exit
    BY <1>x DEF Exit, fileVars
  <1>8. Standby(cur) \in 0..1 /\ Empty \in Cut..MaxEdits /\ Cut \in Cut..MaxEdits /\ \A v \in 0..MaxEdits : v \in Cut..MaxEdits
    BY DEF Standby, Empty, Cut
  <1>9. ASSUME NEW v \in Cut..MaxEdits
        PROVE  [half EXCEPT ![cur][Standby(cur)] = v] \in [Confs -> [0..1 -> Cut..MaxEdits]]
    BY <1>8, <1>9
  <1>10. CASE Load
    BY <1>10, <1>8, <1>9 DEF Load, fileVars
  <1>11. CASE NotLoaded
    BY <1>11, <1>6, <1>8, <1>9 DEF NotLoaded, fileVars
  <1>r. CASE Refused
    BY <1>r, <1>6, <1>8, <1>9 DEF Refused, fileVars
  <1>12. CASE Flip
    BY <1>12, <1>6, <1>8, <1>9 DEF Flip, fileVars
  <1>13. CASE UNCHANGED vars
    BY <1>13 DEF vars, fileVars, threadVars
  <1>14. QED
    BY <1>1, <1>2, <1>3, <1>4, <1>s, <1>7, <1>x, <1>10, <1>11, <1>r, <1>12, <1>13 DEF Next, Reload

LEMMA DupStep == SimInv /\ [Next]_vars => DupInv'
  <1> SUFFICES ASSUME SimInv, [Next]_vars PROVE DupInv'
    OBVIOUS
  <1> USE DEF SimInv, DupInv, TypeOK
  <1>1. CASE Start \/ Poll
    BY <1>1 DEF Start, Poll, Absent, Seen, Onward, fileVars
  <1>2. CASE Exit \/ Load
    BY <1>2 DEF Exit, Load, fileVars
  <1>3. CASE NotLoaded \/ Refused \/ Flip
    BY <1>3 DEF NotLoaded, Refused, Flip, Onward, fileVars
  <1>4. ASSUME NEW k \in Confs, NEW s \in {"whole", "dup", "part", "absent"}, Edit(k, s) PROVE DupInv'
    BY <1>4 DEF Edit, threadVars
  <1>5. ASSUME Tick \/ \E r \in Readers : EndRead(r) \/ \E k \in Confs : BeginRead(r, k) PROVE DupInv'
    BY <1>5 DEF Tick, EndRead, BeginRead, fileVars, threadVars
  <1>6. CASE UNCHANGED vars
    BY <1>6 DEF vars, fileVars, threadVars
  <1>7. QED
    BY <1>1, <1>2, <1>3, <1>4, <1>5, <1>6 DEF Next, Reload

LEMMA ActiveStep == SimInv /\ [Next]_vars => ActiveLoaded'
  <1> DEFINE Good(v, k) == v # Empty /\ (v = Cut => k = "product")
  <1> SUFFICES ASSUME SimInv, [Next]_vars, NEW k \in Confs PROVE Good(half'[k][index'[k]], k)
    BY DEF ActiveLoaded
  <1>1. /\ half \in [Confs -> [0..1 -> Cut..MaxEdits]] /\ index \in [Confs -> 0..1]
        /\ cur \in Confs /\ got \in 0..MaxEdits /\ Good(half[k][index[k]], k)
    BY DEF SimInv, TypeOK, ActiveLoaded
  <1>2. Standby(cur) \in 0..1 /\ Standby(cur) # index[cur]
    BY <1>1 DEF Standby
  <1>3. ASSUME NEW v \in Cut..MaxEdits, Good(v, cur), half' = [half EXCEPT ![cur][Standby(cur)] = v],
               index' = [index EXCEPT ![cur] = Standby(cur)]
        PROVE  Good(half'[k][index'[k]], k)
    <2> HIDE DEF Good
    <2>1. CASE k = cur
      BY <1>1, <1>2, <1>3, <2>1
    <2>2. CASE k # cur
      BY <1>1, <1>2, <1>3, <2>2
    <2>3. QED
      BY <2>1, <2>2
  <1>4. ASSUME NEW v \in Cut..MaxEdits, index' = index,
               half' = half \/ half' = [half EXCEPT ![cur][Standby(cur)] = v]
        PROVE  Good(half'[k][index'[k]], k)
    <2> HIDE DEF Good
    <2>1. half'[k][index'[k]] = half[k][index[k]]
      BY <1>1, <1>2, <1>4
    <2>2. QED
      BY <2>1, <1>1
  <1>5. Empty \in Cut..MaxEdits /\ Cut \in Cut..MaxEdits /\ Good(got, cur) /\ got \in Cut..MaxEdits
    BY <1>1, SimConfAssumption DEF Empty, Cut
  <1>6. CASE Flip
    BY <1>3, <1>5, <1>6 DEF Flip
  <1>7. CASE Refused
    <2>1. kind = "dup" => Good(Cut, cur)
      BY <1>7 DEF Refused, At, SimInv, DupInv, Cut, Empty
    <2>2. QED
      BY <2>1, <1>3, <1>4, <1>5, <1>7 DEF Refused
  <1>8. CASE Load \/ NotLoaded
    BY <1>4, <1>5, <1>8 DEF Load, NotLoaded
  <1>9. [Next]_vars => Flip \/ Refused \/ Load \/ NotLoaded \/ (index' = index /\ half' = half)
    BY DEF Next, Reload, Edit, Tick, BeginRead, EndRead, Start, Poll, Exit, vars
  <1>10. QED
    BY <1>4, <1>5, <1>6, <1>7, <1>8, <1>9

LEMMA AwakeStep == SimInv /\ [Next]_vars => AwakeInv'
  <1> SUFFICES ASSUME SimInv, [Next]_vars PROVE AwakeInv'
    OBVIOUS
  <1> USE DEF SimInv, AwakeInv
  <1>1. CASE Reload
    BY <1>1 DEF Reload, Start, Poll, Exit, Load, NotLoaded, Refused, Flip, Onward, At
  <1>2. CASE ~Reload
    BY <1>2 DEF Next, Edit, Tick, BeginRead, EndRead, threadVars, vars
  <1>3. QED
    BY <1>1, <1>2

LEMMA StaleStep == SimInv /\ [Next]_vars => StaleInv'
  <1> SUFFICES ASSUME SimInv, [Next]_vars, NEW r \in Readers,
                      read'[r] # NotReading, read'[r].half # index'[read'[r].conf]
               PROVE  read'[r].left < wait'
    BY DEF StaleInv
  <1> USE DEF SimInv
  <1>t. /\ index \in [Confs -> 0..1] /\ read \in [Readers -> Reading \cup {NotReading}]
        /\ cur \in Confs /\ wait \in Nat
    BY SimConfAssumption DEF TypeOK
  <1>1. CASE Tick
    <2>1. read[r] # NotReading /\ read' [r] = [read[r] EXCEPT !.left = @ - 1] /\ index' = index
      BY <1>1, <1>t DEF Tick
    <2>2. /\ read[r].left \in 1..ReadTime
          /\ read'[r].left = read[r].left - 1
          /\ read'[r].half = read[r].half /\ read'[r].conf = read[r].conf
      BY <1>1, <2>1, ReadingType, SimConfAssumption DEF Tick, Reading
    <2>3. read[r].left < wait
      BY <2>1, <2>2 DEF StaleInv
    <2>4. QED
      BY <2>2, <2>3, <1>1, <1>t, SimConfAssumption DEF Tick
  <1>2. ASSUME NEW q \in Readers, NEW k \in Confs, BeginRead(q, k) PROVE read'[r].left < wait'
    <2>1. index' = index /\ wait' = wait
      BY <1>2 DEF BeginRead, threadVars
    <2>2. q # r
      <3>1. ASSUME q = r PROVE FALSE
        <4>1. read'[r] = [conf |-> k, half |-> index[k], left |-> ReadTime]
          BY <1>2, <3>1, <1>t DEF BeginRead
        <4>2. QED
          BY <4>1, <2>1
      <3>2. QED
        BY <3>1
    <2>3. read'[r] = read[r]
      BY <1>2, <2>2, <1>t DEF BeginRead
    <2>4. QED
      BY <2>1, <2>3 DEF StaleInv
  <1>3. ASSUME NEW q \in Readers, EndRead(q) PROVE read'[r].left < wait'
    BY <1>3, <1>t DEF EndRead, StaleInv, threadVars
  <1>4. CASE Reload
    <2>1. wait = 0 /\ read' = read
      BY <1>4 DEF Reload, Start, Poll, Exit, Load, NotLoaded, Refused, Flip, At
    <2>2. read[r].half = index[read[r].conf] /\ read[r].left \in 0..ReadTime
      BY <2>1, AwakeFresh, ReadingType
    <2>3. Flip \/ (Refused /\ Onward(Grace))
      BY <1>4, <2>1, <2>2 DEF Reload, Start, Poll, Exit, Load, NotLoaded, Refused
    <2>4. wait' \in Nat /\ wait' >= Grace
      BY <2>3, SimConfAssumption DEF Flip, Onward
    <2>5. QED
      BY <2>1, <2>2, <2>4, SimConfAssumption
  <1>5. ASSUME NEW k \in Confs, NEW s \in {"whole", "dup", "part", "absent"}, Edit(k, s) PROVE read'[r].left < wait'
    BY <1>5 DEF Edit, StaleInv, threadVars
  <1>6. CASE UNCHANGED vars
    BY <1>6 DEF vars, StaleInv, threadVars
  <1>7. QED
    BY <1>1, <1>2, <1>3, <1>4, <1>5, <1>6 DEF Next

(* The inductive invariant holds in every reachable state.                 *)
THEOREM SimInvariant == Spec => []SimInv
  <1>1. SimInv /\ [Next]_vars => SimInv'
    BY TypeStep, ActiveStep, AwakeStep, StaleStep, DupStep DEF SimInv
  <1>2. QED
    BY InitSim, <1>1, PTL DEF Spec

(* Type correctness of the reload thread, its files and its readers.       *)
THEOREM SimTypeCorrect == Spec => []TypeOK
  <1>1. SimInv => TypeOK
    BY DEF SimInv
  <1>2. QED
    BY SimInvariant, <1>1, PTL

(* load_product_conf() never clears or fills the half a reader is in, for  *)
(* any readers that stay in a half for less than the sleep after a flip.   *)
THEOREM NeverTorn == Spec => []NoTornRead
  <1>1. SimInv => NoTornRead
    <2> SUFFICES ASSUME SimInv, NEW r \in Readers, pc = "fill", read[r] # NotReading, read[r].conf = cur
                 PROVE  read[r].half = index[cur]
      BY DEF NoTornRead
    <2>1. wait = 0
      BY DEF SimInv, AwakeInv
    <2>2. QED
      BY <2>1, AwakeFresh
  <1>2. QED
    BY SimInvariant, <1>1, PTL

(* The half that g_index or ubmgr_index denotes has been loaded, whatever  *)
(* loads have failed; only a pid that comes twice may cut the product      *)
(* configuration short.                                                    *)
THEOREM AlwaysLoaded == Spec => []ActiveLoaded
  <1>1. SimInv => ActiveLoaded
    BY DEF SimInv
  <1>2. QED
    BY SimInvariant, <1>1, PTL
=============================================================================
