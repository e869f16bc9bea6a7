----------------------------- MODULE MCExchange -----------------------------
(* The CoAP layer of one peer on small instances.                          *)
EXTENDS Exchange, TLC

CONSTANTS r1, r2, c1, c2, t1, t2, a1, a2

Symmetry ==
  Permutations({r1, r2}) \cup Permutations({t1, t2}) \cup Permutations({a1, a2})

=============================================================================
