--------------------------- MODULE MCRegistration ---------------------------
(* Instances of Registration for TLC: the servers are model values.        *)
EXTENDS Registration

CONSTANTS s1, s2

=============================================================================
