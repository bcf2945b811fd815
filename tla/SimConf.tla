-------------------------------- MODULE SimConf --------------------------------
(***************************************************************************)
(* The reload thread of simhash (src/simhash/sim_conf.cpp, utils.cpp).     *)
(*                                                                         *)
(* conf_ontime_reload() watches two files, the product configuration and   *)
(* client.conf.  Each has two halves (g_proconf[2] and g_index, the client *)
(* pool and ubmgr_index): the standby half is filled, then the index is    *)
(* flipped, then the thread sleeps so that readers can leave the old half. *)
(* Nothing is locked.  st_mtime counts whole seconds; a Tick is a second.  *)
(***************************************************************************)
EXTENDS Integers

CONSTANTS
    Readers,     \* threads of the service
    Grace,       \* the sleep(5) after a flip
    ReloadTime,  \* conf_reload_time
    ReadTime,    \* how long a reader may stay in a half
    MaxEdits     \* bound on the changes of each file

ASSUME SimConfAssumption ==
    /\ Grace \in Nat /\ ReloadTime \in Nat /\ ReadTime \in Nat /\ MaxEdits \in Nat
    /\ ReadTime < Grace

Confs == {"product", "client"}
Empty == -1        \* a half that has been cleared, or never loaded
Cut == -2          \* a half with the entries before the one that was refused
Reading == [conf : Confs, half : 0..1, left : 0..ReadTime]
NotReading == [conf |-> "product", half |-> 0, left |-> -1]

VARIABLES
    ver,      \* per file: how often it has been changed
    st,       \* per file: "whole", "dup" (a pid comes twice), "part" (being
              \* written, or with a wrong entry), "empty" or "absent"
    same,     \* per file: st_mtime equals the mtime the thread has kept
    seenNow,  \* per file: the mtime the thread has kept is the present second
    editNow,  \* per file: st_mtime is the present second
    missed,   \* per file: a change that st_mtime does not show
    half,     \* per file: what the two halves hold, a version, Empty or Cut
    index,    \* g_index, ubmgr_index
    pc,       \* the reload thread: "start", "poll", "load", "fill", "exited"
    cur,      \* the file it is at
    got,      \* the version that load() has read
    kind,     \* what st was when it was read
    wait,     \* seconds it still sleeps
    read      \* per reader: the half it looks up in, and for how long yet

fileVars == <<ver, st, same, seenNow, editNow, missed>>
threadVars == <<pc, cur, got, kind, wait>>
vars == <<fileVars, half, index, threadVars, read>>

TypeOK ==
    /\ ver \in [Confs -> 0..MaxEdits]
    /\ st \in [Confs -> {"whole", "dup", "part", "empty", "absent"}]
    /\ same \in [Confs -> BOOLEAN] /\ missed \in [Confs -> BOOLEAN]
    /\ seenNow \in [Confs -> BOOLEAN] /\ editNow \in [Confs -> BOOLEAN]
    /\ half \in [Confs -> [0..1 -> Cut..MaxEdits]]
    /\ index \in [Confs -> 0..1]
    /\ pc \in {"start", "poll", "load", "fill", "exited"}
    /\ cur \in Confs
    /\ got \in 0..MaxEdits /\ kind \in {"whole", "dup", "part"}
    /\ wait \in 0..(Grace + ReloadTime)
    /\ read \in [Readers -> Reading \cup {NotReading}]

\* The first load is done by the process before it starts the thread.
Init ==
    /\ ver = [k \in Confs |-> 0]
    /\ st = [k \in Confs |-> "whole"]
    /\ same = [k \in Confs |-> FALSE] /\ missed = [k \in Confs |-> FALSE]
    /\ seenNow = [k \in Confs |-> FALSE] /\ editNow = [k \in Confs |-> FALSE]
    /\ half = [k \in Confs |-> [i \in 0..1 |-> IF i = 0 THEN 0 ELSE Empty]]
    /\ index = [k \in Confs |-> 0]
    /\ pc = "start" /\ cur = "product" /\ got = 0 /\ kind = "whole" /\ wait = 0
    /\ read = [r \in Readers |-> NotReading]

-----------------------------------------------------------------------------
(***************************************************************************)
(* The file system, the clock and the readers.                             *)
(***************************************************************************)
\* st_mtime becomes the present second, which the thread may have seen.
Touched(k) ==
    /\ same' = [same EXCEPT ![k] = seenNow[k]]
    /\ editNow' = [editNow EXCEPT ![k] = TRUE]

\* The pids are those of the product configuration.
Edit(k, s) ==
    /\ ver[k] < MaxEdits /\ (s = "dup" => k = "product")
    /\ ver' = [ver EXCEPT ![k] = @ + 1]
    /\ st' = [st EXCEPT ![k] = s]
    /\ missed' = [missed EXCEPT ![k] = seenNow[k]]
    /\ Touched(k)
    /\ UNCHANGED <<seenNow, half, index, threadVars, read>>

\* No reader outlives its time in a half.
Tick ==
    /\ \A r \in Readers : read[r].left # 0
    /\ wait' = IF wait > 0 THEN wait - 1 ELSE 0
    /\ read' = [r \in Readers |-> IF read[r] = NotReading THEN NotReading
                                  ELSE [read[r] EXCEPT !.left = @ - 1]]
    /\ seenNow' = [k \in Confs |-> FALSE] /\ editNow' = [k \in Confs |-> FALSE]
    /\ UNCHANGED <<ver, st, same, missed, half, index, pc, cur, got, kind>>

\* g_proconf[g_index].get(): the index is read once, the half for a while.
BeginRead(r, k) ==
    /\ read[r] = NotReading
    /\ read' = [read EXCEPT ![r] = [conf |-> k, half |-> index[k], left |-> ReadTime]]
    /\ UNCHANGED <<fileVars, half, index, threadVars>>

EndRead(r) ==
    /\ read[r] # NotReading
    /\ read' = [read EXCEPT ![r] = NotReading]
    /\ UNCHANGED <<fileVars, half, index, threadVars>>

-----------------------------------------------------------------------------
(***************************************************************************)
(* conf_ontime_reload().                                                   *)
(***************************************************************************)
Standby(k) == 1 - index[k]
Other(k) == CHOOSE l \in Confs : l # k
At(p) == pc = p /\ wait = 0

\* On to the next file after sleeping s; a new round begins with a sleep.
Onward(s) ==
    /\ pc' = "poll"
    /\ cur' = Other(cur)
    /\ wait' = IF cur = "client" THEN s + ReloadTime ELSE s

\* file_ismodify(): a file that is not there is created, which the mtime
\* kept does not show, or the process exits.
Absent ==
    /\ st[cur] = "absent"
    /\ st' = [st EXCEPT ![cur] = "empty"]
    /\ Touched(cur)
    /\ UNCHANGED <<ver, seenNow, missed>>

Exit ==
    /\ At("start") \/ At("poll")
    /\ st[cur] = "absent" /\ pc' = "exited"
    /\ UNCHANGED <<fileVars, half, index, cur, got, kind, wait, read>>

\* file_ismodify() takes the mtime over.
Seen(m) ==
    /\ same' = [same EXCEPT ![cur] = TRUE]
    /\ seenNow' = [seenNow EXCEPT ![cur] = editNow[cur]]
    /\ missed' = [missed EXCEPT ![cur] = m]
    /\ UNCHANGED <<ver, st, editNow>>

\* The calls before the loop: the files are not loaded.
Start ==
    /\ At("start")
    /\ Absent \/ (st[cur] # "absent" /\ Seen(ver[cur] # half[cur][index[cur]]))
    /\ pc' = (IF cur = "client" THEN "poll" ELSE "start") /\ cur' = Other(cur)
    /\ wait' = IF cur = "client" THEN ReloadTime ELSE 0
    /\ UNCHANGED <<half, index, got, kind, read>>

\* The calls in the loop.
Poll ==
    /\ At("poll")
    /\ \/ Absent /\ Onward(0)
       \/ st[cur] # "absent" /\ same[cur] /\ Onward(0) /\ UNCHANGED fileVars
       \/ /\ st[cur] # "absent" /\ ~same[cur] /\ Seen(FALSE)
          /\ pc' = "load" /\ UNCHANGED <<cur, wait>>
    /\ UNCHANGED <<half, index, got, kind, read>>

\* The file is parsed and the standby half cleared.
Load ==
    /\ At("load") /\ st[cur] \in {"whole", "dup", "part"}
    /\ got' = ver[cur] /\ kind' = st[cur] /\ pc' = "fill"
    /\ half' = [half EXCEPT ![cur][Standby(cur)] = Empty]
    /\ UNCHANGED <<fileVars, index, cur, wait, read>>

\* Variant: the result of a load of nothing is not tested.
NotLoaded_Flips ==
    /\ At("load") /\ st[cur] \in {"part", "empty", "absent"}
    /\ half' = [half EXCEPT ![cur][Standby(cur)] = Empty]
    /\ index' = [index EXCEPT ![cur] = Standby(cur)]
    /\ Onward(Grace)
    /\ UNCHANGED <<fileVars, got, kind, read>>

\* The file cannot be parsed, or has no products.  The mtime has been taken
\* over: the thread does not try again.
NotLoaded ==
    /\ At("load") /\ st[cur] \in {"part", "empty", "absent"}
    /\ \/ UNCHANGED half
       \/ half' = [half EXCEPT ![cur][Standby(cur)] = Empty]
    /\ Onward(0)
    /\ UNCHANGED <<fileVars, index, got, kind, read>>

\* An entry is refused.  load_product_conf() returns -1 or, after an entry
\* that was accepted, HASH_INSERT_SEC; but the code of set() itself when that
\* refuses a pid, and this may be 0: the half is then put into use.
Refused ==
    /\ At("fill") /\ kind # "whole"
    /\ half' = [half EXCEPT ![cur][Standby(cur)] = Cut]
    /\ \/ Onward(0) /\ UNCHANGED index
       \/ /\ kind = "dup" /\ Onward(Grace)
          /\ index' = [index EXCEPT ![cur] = Standby(cur)]
    /\ UNCHANGED <<fileVars, got, kind, read>>

\* Variant: no sleep after the flip.
Flip_AtOnce ==
    /\ At("fill") /\ kind # "dup"
    /\ half' = [half EXCEPT ![cur][Standby(cur)] = got]
    /\ index' = [index EXCEPT ![cur] = Standby(cur)]
    /\ Onward(0)
    /\ UNCHANGED <<fileVars, got, kind, read>>

\* Variant: the index is not flipped.
Flip_Forgotten ==
    /\ At("fill") /\ kind # "dup"
    /\ half' = [half EXCEPT ![cur][Standby(cur)] = got]
    /\ Onward(Grace)
    /\ UNCHANGED <<fileVars, index, got, kind, read>>

\* The half is filled, the index flipped, and the thread sleeps.
Flip ==
    /\ At("fill") /\ kind # "dup"
    /\ half' = [half EXCEPT ![cur][Standby(cur)] = got]
    /\ index' = [index EXCEPT ![cur] = Standby(cur)]
    /\ Onward(Grace)
    /\ UNCHANGED <<fileVars, got, kind, read>>

Reload == Start \/ Poll \/ Exit \/ Load \/ NotLoaded \/ Refused \/ Flip

Next == \/ Reload \/ Tick
        \/ \E k \in Confs, s \in {"whole", "dup", "part", "absent"} : Edit(k, s)
        \/ \E r \in Readers : EndRead(r) \/ \E k \in Confs : BeginRead(r, k)

Spec == Init /\ [][Next]_vars

\* The thread runs, time passes and readers finish.
FairSpec == Spec /\ WF_vars(Reload) /\ WF_vars(Tick)
                 /\ \A r \in Readers : WF_vars(EndRead(r))

-----------------------------------------------------------------------------
(* No reader looks up in a half while load_product_conf() clears or fills  *)
(* it: the sleep after a flip outlasts every reader of the old half.       *)
NoTornRead ==
    \A r \in Readers :
        pc = "fill" /\ read[r] # NotReading /\ read[r].conf = cur
            => read[r].half = index[cur]

(* The half that g_index or ubmgr_index denotes is loaded: a load that     *)
(* fails, even after it has cleared its half, is never seen by a reader.   *)
(* The one exception is a pid that comes twice in the product              *)
(* configuration, where the load may return 0 with the half cut off there. *)
ActiveLoaded ==
    \A k \in Confs :
        half[k][index[k]] # Empty /\ (half[k][index[k]] = Cut => k = "product")

(* Again and again the file as it is, if it is whole, is the one in use,   *)
(* unless st_mtime has hidden it: two changes within one second, or one    *)
(* before the thread has looked for the first time; or it has exited.      *)
EditLoaded ==
    \A k \in Confs :
        []<>(st[k] = "whole" => half[k][index[k]] = ver[k] \/ missed[k] \/ pc = "exited")
=============================================================================
