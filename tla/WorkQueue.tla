----------------------------- MODULE WorkQueue -----------------------------
(***************************************************************************)
(* What wait_list_t promises to its callers: a blocking queue that can be  *)
(* closed.  How a caller is put to sleep and woken is not said.            *)
(***************************************************************************)
EXTENDS Integers, Sequences

CONSTANTS Items, Threads, Null

VARIABLES items,   \* from the oldest to the newest
          open,
          call,    \* the call each thread is in, or "none"
          got      \* what its last call returned

vars == <<items, open, call, got>>

Calls == {"get", "timed", "newest"}

Init == /\ items = <<>> /\ open = TRUE
        /\ call = [t \in Threads |-> "none"]
        /\ got = [t \in Threads |-> Null]

Queued(x) == \E i \in 1..Len(items) : items[i] = x

Put(x) == /\ ~Queued(x)
          /\ items' = IF open THEN Append(items, x) ELSE items
          /\ UNCHANGED <<open, call, got>>

Invoke(t, k) == /\ call[t] = "none"
                /\ call' = [call EXCEPT ![t] = k]
                /\ UNCHANGED <<items, open, got>>

Answer(t, x) == /\ call' = [call EXCEPT ![t] = "none"]
                /\ got' = [got EXCEPT ![t] = x]
                /\ UNCHANGED open

TakeOldest(t) == /\ call[t] \in {"get", "timed"} /\ open /\ items # <<>>
                 /\ items' = Tail(items)
                 /\ Answer(t, Head(items))

TakeNewest(t) == /\ call[t] = "newest" /\ open /\ items # <<>>
                 /\ items' = SubSeq(items, 1, Len(items) - 1)
                 /\ Answer(t, items[Len(items)])

\* Only a closed queue or a timeout makes a call return nothing.
Nothing(t) == /\ call[t] # "none"
              /\ ~open \/ call[t] = "timed"
              /\ Answer(t, Null)
              /\ UNCHANGED items

Close == /\ open' = FALSE
         /\ UNCHANGED <<items, call, got>>

Next == \/ Close
        \/ \E x \in Items : Put(x)
        \/ \E t \in Threads : \/ TakeOldest(t) \/ TakeNewest(t) \/ Nothing(t)
                              \/ \E k \in Calls : Invoke(t, k)

Spec == Init /\ [][Next]_vars
=============================================================================
