------------------------------ MODULE SffQueue ------------------------------
(***************************************************************************)
(* What the buffer between the threads of a web server promises: requests  *)
(* wait in it, the one for the smallest file is taken first, of equal ones *)
(* the oldest, and each is answered once.                                  *)
(***************************************************************************)
EXTENDS Integers, FiniteSets

CONSTANTS Id, Size, Capacity

VARIABLES
    queue,      \* the requests that wait: [id, filesize]
    answered    \* the ids of the requests that were taken and answered

vars == <<queue, answered>>

Before(r, s) == \/ r.filesize < s.filesize
                \/ r.filesize = s.filesize /\ r.id < s.id

Init == queue = {} /\ answered = {}

\* Requests are numbered in the order in which they come.
Put(id) ==
    /\ Cardinality(queue) < Capacity
    /\ \A r \in queue : r.id < id
    /\ id \notin answered
    /\ \E s \in Size : queue' = queue \cup {[id |-> id, filesize |-> s]}
    /\ UNCHANGED answered

Take(r) ==
    /\ \A s \in queue \ {r} : Before(r, s)
    /\ queue' = queue \ {r}
    /\ answered' = answered \cup {r.id}

Next == (\E id \in Id : Put(id)) \/ \E r \in queue : Take(r)

Spec == Init /\ [][Next]_vars
=============================================================================
