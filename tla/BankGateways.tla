----------------------------- MODULE BankGateways -----------------------------
(* PIX payments driven through the adapter of their bank the way the workers *)
(* drive their gateway: prevalidate, submit with retries, poll. The bank     *)
(* books an order, decides it and answers at moments of its own, and answers *)
(* are lost.                                                                 *)
EXTENDS BankAdapters

CONSTANTS Payments,
          Amounts,      \* amounts in centavos that payments have
          MaxFaults,    \* bound: answers that are lost or incomplete
          NoOrder, NoReply

VARIABLES
  payment,  \* the hub's row: bank, amount, status, ref
  dict,     \* what the bank says of the payee's key
  order,    \* the order the bank booked under the payment's idempotency key
  reply,    \* the answer a worker holds and has not stored yet
  faults

vars == <<payment, dict, order, reply, faults>>

Status == {"VALIDATED_LOCAL", "REJECTED", "PREVALIDATED", "APPROVED", "SUBMITTING", "SENT", "SETTLED", "FAILED"}
Payment == [bank : Banks, amount : Amounts, status : Status, ref : Payments \cup {NoRef}]

Words(b) == {Pending} \cup FinalWords(b)
Word == UNION {Words(b) : b \in Banks}
Order == [word : Word, amount : Nat]
Reply == [ref : Payments \cup {NoRef}, word : Word]

ASSUME GatewaysAssumption ==
  /\ Amounts \subseteq Nat \ {0}
  /\ MaxFaults \in Nat
  /\ NoRef \notin Payments
  /\ NoOrder \notin Order
  /\ NoReply \notin Reply

Init ==
  /\ payment \in [Payments -> [bank : Banks, amount : Amounts, status : {"VALIDATED_LOCAL"}, ref : {NoRef}]]
  /\ dict \in [Payments -> UNION {KeyWords(b) : b \in Banks}]
  /\ \A p \in Payments : dict[p] \in KeyWords(payment[p].bank)
  /\ order = [p \in Payments |-> NoOrder]
  /\ reply = [p \in Payments |-> NoReply]
  /\ faults = 0

Move(p, status) == payment' = [payment EXCEPT ![p].status = status]

-----------------------------------------------------------------------------
(* The workers.                                                              *)

\* A verdict other than REJECT lets the payment pass. (The rules engine, which
\* may refuse it too, is PreAnalysis.)
Prevalidate(p) ==
  /\ payment[p].status = "VALIDATED_LOCAL"
  /\ Move(p, IF PrevalidatePix(payment[p].bank, dict[p]) = "REJECT" THEN "REJECTED" ELSE "PREVALIDATED")
  /\ UNCHANGED <<dict, order, reply, faults>>

Approve(p) ==
  /\ payment[p].status = "PREVALIDATED"
  /\ Move(p, "APPROVED")
  /\ UNCHANGED <<dict, order, reply, faults>>

\* The first attempt stores SUBMITTING. An adapter without a synchronous PIX
\* fails before any request is made, and the job is retried for nothing.
Submit(p) ==
  /\ payment[p].status = "APPROVED"
  /\ Move(p, "SUBMITTING")
  /\ UNCHANGED <<dict, order, reply, faults>>

\* The request reaches the bank, which knows the idempotency key or books.
Book(p) ==
  /\ payment[p].status = "SUBMITTING"
  /\ payment[p].bank \in Synchronous
  /\ order[p] = NoOrder
  /\ order' = [order EXCEPT ![p] =
       [word |-> Pending, amount |-> Centavos(formatValor(payment[p].amount))]]
  /\ UNCHANGED <<payment, dict, reply, faults>>

Answer(p, ref) == reply' = [reply EXCEPT ![p] = [ref |-> ref, word |-> order[p].word]]

BookAnswers(p) ==
  /\ payment[p].status = "SUBMITTING"
  /\ order[p] # NoOrder /\ reply[p] = NoReply
  /\ \/ Answer(p, p) /\ UNCHANGED faults
     \/ /\ faults < MaxFaults      \* without the order's id
        /\ faults' = faults + 1
        /\ Answer(p, NoRef)
  /\ UNCHANGED <<payment, dict, order>>

\* The job stores what its gateway made of the answer; an error is retried.
SubmitStores(p) ==
  /\ payment[p].status = "SUBMITTING" /\ reply[p] # NoReply
  /\ reply' = [reply EXCEPT ![p] = NoReply]
  /\ LET result == SendPix(payment[p].bank, reply[p]) IN
       IF result.err THEN UNCHANGED payment
       ELSE payment' = [payment EXCEPT ![p].ref = result.ref,
                          ![p].status = IF result.status = "SETTLED" THEN "SETTLED" ELSE "SENT"]
  /\ UNCHANGED <<dict, order, faults>>

\* A poll of the reconciliation, for rows with a reference.
Poll(p) ==
  /\ payment[p].status = "SENT" /\ payment[p].ref # NoRef
  /\ reply[p] = NoReply
  /\ Answer(p, p)
  /\ UNCHANGED <<payment, dict, order, faults>>

\* What the poll makes of the answer is stored over whatever the row has become
\* since it was read.
PollStores(p) ==
  /\ payment[p].status \in {"SENT", "SETTLED", "FAILED"} /\ reply[p] # NoReply
  /\ reply' = [reply EXCEPT ![p] = NoReply]
  /\ LET result == GetPixStatus(payment[p].bank, reply[p]) IN
       IF result.err \/ result.status = "SENT" THEN UNCHANGED payment
       ELSE payment' = [payment EXCEPT ![p].status = result.status,
                          ![p].ref = IF result.ref = NoRef THEN @ ELSE result.ref]
  /\ UNCHANGED <<dict, order, faults>>

\* A notification of Itau's finds its payment among the SENT ones by the id it
\* names, and is translated by a list of its own. (Concurrent and repeated
\* notifications are PaymentLifecycle's.) The endToEndId it stores is another
\* name of the same order.
HandleItau(p) ==
  /\ payment[p].bank = "341"
  /\ payment[p].status = "SENT" /\ payment[p].ref = p
  /\ ItauNotifies(order[p].word) # "SENT"
  /\ Move(p, ItauNotifies(order[p].word))
  /\ UNCHANGED <<dict, order, reply, faults>>

-----------------------------------------------------------------------------
(* The bank and the network.                                                 *)

BankDecides(p) ==
  /\ order[p] # NoOrder /\ order[p].word = Pending
  /\ \E w \in FinalWords(payment[p].bank) : order' = [order EXCEPT ![p].word = w]
  /\ UNCHANGED <<payment, dict, reply, faults>>

\* The answer does not arrive, or is not JSON (ErrBadResponse).
Lose(p) ==
  /\ reply[p] # NoReply
  /\ faults < MaxFaults
  /\ faults' = faults + 1
  /\ reply' = [reply EXCEPT ![p] = NoReply]
  /\ UNCHANGED <<payment, dict, order>>

Work(p) ==
  \/ Submit(p)
  \/ Book(p)
  \/ BookAnswers(p)
  \/ SubmitStores(p)
  \/ Poll(p)
  \/ PollStores(p)

Next ==
  \E p \in Payments :
    \/ Prevalidate(p)
    \/ Approve(p)
    \/ Work(p)
    \/ HandleItau(p)
    \/ BankDecides(p)
    \/ Lose(p)

Spec == Init /\ [][Next]_vars

-----------------------------------------------------------------------------
(* Properties.                                                               *)

TypeOK ==
  /\ payment \in [Payments -> Payment]
  /\ order \in [Payments -> Order \cup {NoOrder}]
  /\ reply \in [Payments -> Reply \cup {NoReply}]
  /\ faults \in 0..MaxFaults
  /\ \A p \in Payments :
       /\ dict[p] \in KeyWords(payment[p].bank)
       /\ order[p] # NoOrder => order[p].word \in Words(payment[p].bank)

\* A reference is never that of another payment's order. Only Itau's adapter
\* refuses an answer without one; behind the others the payment is stored
\* without, and no poll will ask for it.
Named(p, ref) == ref = p \/ (ref = NoRef /\ payment[p].bank # "341")

\* What the hub holds of a payment is the bank's own word, and so is an answer
\* on its way, however late it is stored.
RowOK(p) ==
  /\ payment[p].status \notin {"VALIDATED_LOCAL", "REJECTED"} =>
       PrevalidatePix(payment[p].bank, dict[p]) # "REJECT"
  /\ payment[p].status \in {"SENT", "SETTLED", "FAILED"} => order[p] # NoOrder /\ Named(p, payment[p].ref)
  /\ payment[p].status = "SETTLED" => order[p].word \in PaidWords(payment[p].bank)
  /\ payment[p].status = "FAILED" => order[p].word \in RefusedWords(payment[p].bank)

OrderOK(p) ==
  order[p] # NoOrder =>
    /\ payment[p].bank \in Synchronous
    /\ payment[p].status \in {"SUBMITTING", "SENT", "SETTLED", "FAILED"}
    /\ order[p].amount = payment[p].amount

ReplyOK(p) ==
  reply[p] # NoReply =>
    /\ order[p] # NoOrder
    /\ payment[p].status \in {"SUBMITTING", "SENT", "SETTLED", "FAILED"}
    /\ reply[p].word \in {Pending, order[p].word}
    /\ reply[p].ref \in {p, NoRef}
    /\ payment[p].status # "SUBMITTING" => reply[p].ref = p

\* The inductive invariant: the outcome stored for a payment and every answer
\* in flight are the bank's own word on its own order of the payment's amount.
IInv == TypeOK /\ \A p \in Payments : RowOK(p) /\ OrderOK(p) /\ ReplyOK(p)

\* What the bank books is what the client asked for: the decimal string has
\* two digits after the point whatever the centavos are.
AmountIsExact == \A p \in Payments : order[p] # NoOrder => order[p].amount = payment[p].amount

\* A key the bank calls unknown is never paid to, at any of the banks (jobs.go
\* stops at REJECT only: an adapter's WARN lets the payment pass).
UnknownKeyIsNotPaid ==
  \A p \in Payments : order[p] # NoOrder => dict[p] \notin {"INEXISTENTE", "INVALIDO"}

\* Behind every adapter the hub keeps Payout's promise: one order, for an
\* approved payment, and no outcome but the one the bank's word stands for.
Meaning(p) ==
  CASE order[p] # NoOrder /\ order[p].word \in PaidWords(payment[p].bank) -> "paid"
    [] order[p] # NoOrder /\ order[p].word \in RefusedWords(payment[p].bank) -> "refused"
    [] OTHER -> "pending"

Granted == {p \in Payments : payment[p].status \notin {"VALIDATED_LOCAL", "REJECTED", "PREVALIDATED"}}
Orders == {<<p, p>> : p \in {q \in Payments : order[q] # NoOrder}}
Verdicts == [p \in Payments |-> Meaning(p)]
Claims == [p \in Payments |-> CASE payment[p].status = "SETTLED" -> "paid"
                                [] payment[p].status = "FAILED" -> "refused"
                                [] OTHER -> "none"]

Promise == INSTANCE Payout WITH
  Keys <- Payments, KeyOf <- [p \in Payments |-> p],
  granted <- Granted, orders <- Orders, verdict <- Verdicts, claim <- Claims

AdaptersKeepPayout == Promise!Spec
=============================================================================
