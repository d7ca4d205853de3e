---------------------------- MODULE MCStartupInit ----------------------------
(* Model-checking instance of StartupInit.                                 *)
EXTENDS StartupInit

\* Two constructor functions: enough for DT_INIT and a two-entry
\* DT_INIT_ARRAY to be told apart, and for a repeated entry.
MCFnOffsets == {16, 32}

=============================================================================
