------------------------------- MODULE Mutex -------------------------------
(***************************************************************************)
(* What a run lock promises: the set of holders is empty or has one member *)
(* and changes hands only through empty.                                   *)
(***************************************************************************)
CONSTANT Runs

VARIABLE holder

Init == holder = {}

Acquire(r) == holder = {} /\ holder' = {r}

\* By an exit or by a death: the promise does not tell them apart.
Release(r) == holder = {r} /\ holder' = {}

Next == \E r \in Runs : Acquire(r) \/ Release(r)

Spec == Init /\ [][Next]_holder
=============================================================================
