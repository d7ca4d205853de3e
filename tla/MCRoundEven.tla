----------------------------- MODULE MCRoundEven -----------------------------
(* Model-checking instance of RoundEven.                                   *)
EXTENDS RoundEven
=============================================================================
