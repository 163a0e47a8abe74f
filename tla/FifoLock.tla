------------------------------ MODULE FifoLock ------------------------------
(***************************************************************************)
(* What a keyed mutex promises its callers: one queue per key, served in   *)
(* order of arrival; the caller at the head owns the key, from the moment  *)
(* it is granted until its last piece of work has ended.                   *)
(***************************************************************************)
EXTENDS Naturals, Sequences

CONSTANTS Callers, Keys

VARIABLES queue,      \* queue[k]: the callers of key k, oldest first
          granted     \* the callers that own their key

vars == <<queue, granted>>

Init == /\ queue = [k \in Keys |-> <<>>]
        /\ granted = {}

InQueue(c, k) == \E i \in 1..Len(queue[k]) : queue[k][i] = c

\* A caller that waits nowhere joins the end of one queue.
Join(c, k) == /\ \A l \in Keys : ~InQueue(c, l)
              /\ queue' = [queue EXCEPT ![k] = Append(@, c)]
              /\ UNCHANGED granted

\* Only the head of a queue is granted its key.
Grant(c, k) == /\ queue[k] # <<>>
               /\ c = Head(queue[k])
               /\ c \notin granted
               /\ granted' = granted \cup {c}
               /\ UNCHANGED queue

\* Only a granted head gives its key up.
Free(c, k) == /\ queue[k] # <<>>
              /\ c = Head(queue[k])
              /\ c \in granted
              /\ queue' = [queue EXCEPT ![k] = Tail(@)]
              /\ granted' = granted \ {c}

Next == \E c \in Callers, k \in Keys : Join(c, k) \/ Grant(c, k) \/ Free(c, k)

Spec == Init /\ [][Next]_vars
=============================================================================
