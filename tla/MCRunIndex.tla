----------------------------- MODULE MCRunIndex -----------------------------
(* An instance of RunIndex for TLC. *)
EXTENDS RunIndex

CONSTANTS a, c
=============================================================================
