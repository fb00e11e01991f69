------------------------- MODULE MCPaymentLifecycle -------------------------
(* Small instances of PaymentLifecycle for TLC. *)
EXTENDS PaymentLifecycle, TLC

\* Some assignment of distinct idempotency keys.
MCKeyOf ==
  CHOOSE f \in [Payments -> Keys] : \A p, q \in Payments : f[p] = f[q] => p = q

\* Goroutines of one pool, and payments, are interchangeable (MCKeyOf is fixed,
\* so payments are permuted only in instances with a single one).
Symmetry == Permutations(Handlers) \cup Permutations(Workers)
=============================================================================
