----------------------------- MODULE MCRunLock -----------------------------
(* Instances of RunLock for TLC. *)
EXTENDS RunLock, TLC

CONSTANTS p1, p2, p3, h1, h2, r1, r2, r3

OneHost == [r \in Runs |-> h1]
TwoHosts == [r \in Runs |-> IF r = r1 THEN h1 ELSE h2]

\* A program that is no run holds p3 on h2.
BusyOnTwo == [h \in Hosts |-> IF h = h2 THEN {p3} ELSE {}]
=============================================================================
