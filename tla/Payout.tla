------------------------------- MODULE Payout -------------------------------
(***************************************************************************)
(* What the hub promises about money, with no goroutines, jobs, rows or    *)
(* faults: an approved payment is ordered at the bank at most once, the    *)
(* bank decides an order once, and whatever the hub claims about the       *)
(* outcome is the bank's decision.  A claim may be withdrawn (a stale      *)
(* writer overwrites it), never falsified.                                 *)
(***************************************************************************)
CONSTANTS Payments, Keys, KeyOf

VARIABLES
  granted,  \* payments somebody approved
  orders,   \* <<key, payment>>: orders the bank holds
  verdict,  \* what the bank decided, by key
  claim     \* what the hub says of a payment's order

vars == <<granted, orders, verdict, claim>>

Outcomes == {"paid", "refused"}

Init ==
  /\ granted = {} /\ orders = {}
  /\ verdict = [k \in Keys |-> "pending"]
  /\ claim = [p \in Payments |-> "none"]

Grant(p) ==
  /\ granted' = granted \cup {p}
  /\ claim' = [claim EXCEPT ![p] = "none"]
  /\ UNCHANGED <<orders, verdict>>

Order(p) ==
  /\ p \in granted
  /\ \A o \in orders : o[1] # KeyOf[p] /\ o[2] # p
  /\ orders' = orders \cup {<<KeyOf[p], p>>}
  /\ \E v \in {"pending", "paid"} : verdict' = [verdict EXCEPT ![KeyOf[p]] = v]
  /\ UNCHANGED <<granted, claim>>

Decide(k) ==
  /\ \E p \in Payments : <<k, p>> \in orders
  /\ verdict[k] = "pending"
  /\ \E v \in Outcomes : verdict' = [verdict EXCEPT ![k] = v]
  /\ UNCHANGED <<granted, orders, claim>>

Report(p) ==
  /\ <<KeyOf[p], p>> \in orders
  /\ verdict[KeyOf[p]] \in Outcomes
  /\ claim' = [claim EXCEPT ![p] = verdict[KeyOf[p]]]
  /\ UNCHANGED <<granted, orders, verdict>>

Withdraw(p) ==
  /\ claim' = [claim EXCEPT ![p] = "none"]
  /\ UNCHANGED <<granted, orders, verdict>>

Next ==
  \/ \E p \in Payments : Grant(p) \/ Order(p) \/ Report(p) \/ Withdraw(p)
  \/ \E k \in Keys : Decide(k)

Spec == Init /\ [][Next]_vars
=============================================================================
