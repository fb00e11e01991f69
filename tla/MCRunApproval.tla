--------------------------- MODULE MCRunApproval ---------------------------
(* Small instances of RunApproval for TLC. *)
EXTENDS RunApproval, TLC

\* Some order of creation.
MCCreatedAt ==
  CHOOSE f \in [Payments -> 1..Cardinality(Payments)] :
    \A p, q \in Payments : f[p] = f[q] => p = q

\* Goroutines of one pool, and run ids, are interchangeable.
Symmetry == Permutations(Operators) \cup Permutations(Runs)

\* With a list limit no backlog reaches, CreatedAt decides nothing, and payments
\* are interchangeable too.
RacesSymmetry == Symmetry \cup Permutations(Payments)
=============================================================================
