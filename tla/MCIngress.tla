----------------------------- MODULE MCIngress -----------------------------
(***************************************************************************)
(* Instances of Ingress for TLC.                                           *)
(***************************************************************************)
EXTENDS Ingress, TLC

\* Goroutines, keys, bodies and ids are interchangeable (invariants only).
Symmetry ==
  Permutations(Requests) \cup Permutations(Keys) \cup
  Permutations(Bodies) \cup Permutations(Ids)
=============================================================================
