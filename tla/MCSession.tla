----------------------------- MODULE MCSession -----------------------------
(* Instances of Session for TLC: servers, sessions and connections are     *)
(* model values.                                                           *)
EXTENDS Session, TLC

CONSTANTS v1, v2, x1, x2, k1, k2

\* The secure server with either kind of credentials, the plain one declared
\* rightly or with a mode its URI does not allow.
MCModes == (v1 :> {"PRE_SHARED_KEY", "CERTIFICATE"}) @@ (v2 :> {"NONE", "PRE_SHARED_KEY"})

=============================================================================
