----------------------------- MODULE MCObserve -----------------------------
(* Observations of two Instances on small instances.                       *)
EXTENDS Observe

CONSTANTS t1, t2, i1, i2

Res(i) == [inst |-> i, res |-> "value"]
Inst(i) == [inst |-> i, res |-> ALL]

MCTargets == [t \in Token |-> IF t = t1 THEN {Res(i1)} ELSE {Inst(i1)}]

\* Periods of the Object; a threshold of the Resource, the other one cleared.
MCQueries ==
  {[uri |-> [inst |-> ALL, res |-> ALL], options |-> <<<<"pmin", 1>>, <<"pmax", 2>>>>],
   [uri |-> Res(i1), options |-> <<<<"gt", 1>>, <<"lt", NULL>>>>]}

=============================================================================
