------------------------------- MODULE Lists -------------------------------
(***************************************************************************)
(* The linked lists of the stack as sequences: what is left of one when    *)
(* several of its elements are removed.                                    *)
(***************************************************************************)
EXTENDS Integers, FiniteSets

\* The naturals of A in ascending order.
Ascending(A) ==
  CHOOSE f \in [1..Cardinality(A) -> A] :
    \A j, k \in 1..Cardinality(A) : j < k => f[j] < f[k]

\* The elements of a list at the positions A, in their order.
Sublist(list, A) ==
  LET at == Ascending(A) IN [j \in 1..Cardinality(A) |-> list[at[j]]]

=============================================================================
