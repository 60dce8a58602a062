---------------------------- MODULE MCPoliteness ----------------------------
(* An instance of Politeness for TLC: two threads fetch for one provider.    *)
EXTENDS Politeness, TLC

CONSTANTS t1, t2, ashby

OneProvider == [t \in Threads |-> ashby]
TwoAndOne == (t1 :> 2 @@ t2 :> 1)
=============================================================================
