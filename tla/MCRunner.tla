------------------------------ MODULE MCRunner ------------------------------
(* An instance of Runner for TLC.                                          *)
EXTENDS Runner, TLC

CONSTANTS c1, c2, c3

MCCallers == {c1, c2, c3}
Symmetric == Permutations(MCCallers)
=============================================================================
