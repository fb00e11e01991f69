---------------------------- MODULE MCPreAnalysis ----------------------------
(* Small instances of PreAnalysis for TLC. *)
EXTENDS PreAnalysis, TLC

CONSTANTS c1, d1

Pay(c, amount, payee) == [client |-> c, amount |-> amount, document |-> payee, beneficiary |-> payee]
Limit(daily, monthly, single) ==
  [daily |-> daily, monthly |-> monthly, single |-> single, approval |-> 0]

MCRequests == {Pay(c1, 2, d1), Pay(c1, 3, d1), Pay(c1, 4, NoPayee), Pay(NoClient, 2, d1)}
MCLimits == {Limit(5, 5, 3)}
MCRules == {[window |-> 1, action |-> "REVIEW"]}

Symmetry == Permutations(Payments)
=============================================================================
