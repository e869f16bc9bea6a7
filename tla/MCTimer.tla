------------------------------- MODULE MCTimer -------------------------------
(* The timer list and the loops of iowa_step on small instances.           *)
EXTENDS Timer, TLC

CONSTANTS s1, s2

Symmetry == Permutations({s1, s2})

=============================================================================
