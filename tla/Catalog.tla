------------------------------ MODULE Catalog ------------------------------
(***************************************************************************)
(* What the bucket promises its readers: a pointer names a run only after  *)
(* every object of that run is there, and the objects of a run never go.   *)
(***************************************************************************)
CONSTANTS Runs, Pointers, None

VARIABLES complete, pointer

Init ==
    /\ complete = {}
    /\ pointer = [q \in Pointers |-> None]

Complete(r) ==
    /\ r \notin complete
    /\ complete' = complete \cup {r}
    /\ UNCHANGED pointer

Point(q, r) ==
    /\ r \in complete
    /\ pointer' = [pointer EXCEPT ![q] = r]
    /\ UNCHANGED complete

Next ==
    \/ \E r \in Runs : Complete(r)
    \/ \E q \in Pointers, r \in Runs : Point(q, r)

Spec == Init /\ [][Next]_<<complete, pointer>>
=============================================================================
