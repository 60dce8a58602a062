---------------------------- MODULE MCRetention -----------------------------
(* An instance of Retention for TLC: one provider whose name comes before     *)
(* "history" in the alphabet and one whose name comes after it.                *)
EXTENDS Retention

BeforeAndAfter == [anthropic |-> 1, history |-> 2, xai |-> 3]
=============================================================================
