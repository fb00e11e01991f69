------------------------- MODULE BankGateways_proofs -------------------------
(* Proofs about BankGateways, for any payments, amounts and lost answers.    *)
(* The adapters enter the argument through three facts only: a verdict they  *)
(* return is one the bank's word stands for, a key the bank refuses is       *)
(* refused, and the amount survives the way into the request.                *)
EXTENDS BankGateways, TLAPS

(* The decimal string of an amount is read as the same amount (formatValor). *)
LEMMA AmountSurvives ==
  ASSUME NEW n \in Nat
  PROVE  Centavos(formatValor(n)) = n
<1> DEFINE r == n % 100
<1>1. n = 100 * (n \div 100) + r /\ r \in Nat
  OBVIOUS
<1>2. r = 10 * (r \div 10) + (r % 10)
  BY <1>1
<1>3. r % 10 = n % 10
  BY <1>1, <1>2
<1>4. Len(formatValor(n).digits) = 2
  BY DEF formatValor
<1> QED BY <1>1, <1>2, <1>3, <1>4 DEF Centavos, formatValor

(* No adapter's send makes more of an answer than the bank said, and Itau's  *)
(* refuses an answer without the order's id.                                 *)
LEMMA SendIsHonest ==
  ASSUME NEW b \in Banks, NEW reply_ \in Reply, ~SendPix(b, reply_).err
  PROVE  /\ SendPix(b, reply_).ref = reply_.ref
         /\ SendPix(b, reply_).status \in {"SENT", "SETTLED"}
         /\ SendPix(b, reply_).status = "SETTLED" => reply_.word \in PaidWords(b)
         /\ b = "341" => reply_.ref # NoRef
<1> USE DEF SendPix, SendResult, Result, Failed, PaidWords
<1>1. CASE b \in {"341", "104"}
  BY <1>1 DEF ItauSendPix, CaixaSendPix
<1>2. CASE b \in {"237", "033", "001"}
  BY <1>2 DEF BradescoSendPix, SantanderSendPix, BBSendPix
<1>3. CASE b \in {"077", "756", "208"}
  BY <1>3 DEF InterSendPix, SicoobSendPix, BTGSendPix
<1> QED BY <1>1, <1>2, <1>3 DEF Banks

(* The same for the poll, which also tells refusals.                         *)
LEMMA PollIsHonest ==
  ASSUME NEW b \in Banks, NEW reply_ \in Reply, ~GetPixStatus(b, reply_).err
  PROVE  /\ GetPixStatus(b, reply_).ref = reply_.ref
         /\ GetPixStatus(b, reply_).status \in {"SENT", "SETTLED", "FAILED"}
         /\ GetPixStatus(b, reply_).status = "SETTLED" => reply_.word \in PaidWords(b)
         /\ GetPixStatus(b, reply_).status = "FAILED" => reply_.word \in RefusedWords(b)
<1> USE DEF GetPixStatus, StatusResult, Result, Failed, PaidWords, RefusedWords
<1>1. CASE b \in {"341", "104"}
  BY <1>1 DEF ItauGetPixStatus, CaixaGetPixStatus
<1>2. CASE b \in {"237", "033", "001"}
  BY <1>2 DEF BradescoGetPixStatus, SantanderGetPixStatus, BBGetPixStatus
<1>3. CASE b \in {"077", "756", "208"}
  BY <1>3 DEF InterGetPixStatus, SicoobGetPixStatus, BTGGetPixStatus
<1> QED BY <1>1, <1>2, <1>3 DEF Banks

(* A notification of Itau's is taken for no more than the bank said either.  *)
LEMMA NotificationIsHonest ==
  ASSUME NEW word
  PROVE  /\ ItauNotifies(word) \in {"SENT", "SETTLED", "FAILED"}
         /\ ItauNotifies(word) = "SETTLED" => word \in PaidWords("341")
         /\ ItauNotifies(word) = "FAILED" => word \in RefusedWords("341")
BY DEF ItauNotifies, PaidWords, RefusedWords

(* Every adapter that sends orders refuses the keys its bank does not know.  *)
LEMMA UnknownKeyIsRefused ==
  ASSUME NEW b \in Synchronous, NEW word \in {"INEXISTENTE", "INVALIDO"}
  PROVE  PrevalidatePix(b, word) = "REJECT"
BY DEF PrevalidatePix, Unless, Synchronous, Banks, ItauPrevalidatePix, BradescoPrevalidatePix,
   SantanderPrevalidatePix, BBPrevalidatePix, InterPrevalidatePix, SicoobPrevalidatePix, BTGPrevalidatePix

(* "EM_PROCESSAMENTO" decides nothing, and no word is both paid and refused. *)
LEMMA WordsDiffer ==
  ASSUME NEW b \in Banks
  PROVE  /\ Pending \notin FinalWords(b)
         /\ PaidWords(b) \cap RefusedWords(b) = {}
         /\ Words(b) \subseteq Word
         /\ Pending \in Words(b) /\ FinalWords(b) \subseteq Words(b)
<1>1. Pending \notin FinalWords(b) /\ PaidWords(b) \cap RefusedWords(b) = {}
  BY DEF Pending, FinalWords, PaidWords, RefusedWords
<1>2. Words(b) \subseteq Word
  BY DEF Word
<1> QED BY <1>1, <1>2 DEF Words

-----------------------------------------------------------------------------
OK(p) == RowOK(p) /\ OrderOK(p) /\ ReplyOK(p)

(* A step about one payment leaves the facts about the others alone.         *)
LEMMA StepLemma ==
  ASSUME IInv, NEW p \in Payments, NEW row \in Payment, NEW o \in Order \cup {NoOrder}, NEW r \in Reply \cup {NoReply},
         payment' = [payment EXCEPT ![p] = row], row.bank = payment[p].bank,
         order' = [order EXCEPT ![p] = o], o # NoOrder => o.word \in Words(row.bank),
         reply' = [reply EXCEPT ![p] = r],
         dict' = dict, faults' \in 0..MaxFaults,
         OK(p)'
  PROVE  IInv'
<1>1. \A q \in Payments : q # p => payment'[q] = payment[q] /\ order'[q] = order[q] /\ reply'[q] = reply[q]
  BY DEF IInv, TypeOK
<1>2. payment'[p] = row /\ order'[p] = o /\ reply'[p] = r
  BY DEF IInv, TypeOK
<1>3. TypeOK'
  <2>1. /\ payment' \in [Payments -> Payment] /\ order' \in [Payments -> Order \cup {NoOrder}]
        /\ reply' \in [Payments -> Reply \cup {NoReply}]
    BY DEF IInv, TypeOK
  <2>2. ASSUME NEW q \in Payments
        PROVE  /\ dict'[q] \in KeyWords(payment'[q].bank)
               /\ order'[q] # NoOrder => order'[q].word \in Words(payment'[q].bank)
    BY <1>1, <1>2 DEF IInv, TypeOK
  <2> QED BY <2>1, <2>2 DEF TypeOK
<1>4. ASSUME NEW q \in Payments, q # p PROVE OK(q)'
  <2>1. OK(q)
    BY DEF IInv, OK
  <2> QED BY <1>1, <1>4, <2>1 DEF OK, RowOK, OrderOK, ReplyOK, Named
<1> QED BY <1>3, <1>4 DEF IInv, OK

(* What the worker does to a payment.                                        *)
LEMMA WorkerPreserves ==
  ASSUME IInv, NEW p \in Payments, Prevalidate(p) \/ Approve(p) \/ Work(p)
  PROVE  IInv'
<1> DEFINE row == payment[p]
           b == row.bank
<1>0. /\ row \in Payment /\ b \in Banks /\ row.amount \in Nat
      /\ order[p] \in Order \cup {NoOrder} /\ reply[p] \in Reply \cup {NoReply}
      /\ order[p] # NoOrder => order[p].word \in Words(b)
      /\ faults \in 0..MaxFaults /\ faults \in Nat /\ MaxFaults \in Nat
      /\ OK(p)
  <2>1. row \in Payment
    BY DEF IInv, TypeOK
  <2>2. b \in Banks /\ row.amount \in Nat
    BY <2>1, GatewaysAssumption DEF Payment
  <2> QED BY <2>1, <2>2, GatewaysAssumption DEF IInv, TypeOK, OK
<1>1. CASE Prevalidate(p)
  <2> DEFINE new == [row EXCEPT !.status = IF PrevalidatePix(b, dict[p]) = "REJECT" THEN "REJECTED" ELSE "PREVALIDATED"]
  <2>1. /\ payment' = [payment EXCEPT ![p] = new] /\ dict' = dict
        /\ order' = [order EXCEPT ![p] = order[p]] /\ reply' = [reply EXCEPT ![p] = reply[p]]
        /\ new \in Payment /\ new.bank = b
    BY <1>0, <1>1 DEF Prevalidate, Move, Payment, Status, IInv, TypeOK
  <2>2. OK(p)'
    BY <1>0, <1>1, <2>1 DEF Prevalidate, OK, RowOK, OrderOK, ReplyOK, IInv, TypeOK
  <2> HIDE DEF new
  <2> QED BY <1>0, <1>1, <2>1, <2>2, StepLemma DEF Prevalidate
<1>2. CASE Approve(p) \/ Submit(p)
  <2> DEFINE new == [row EXCEPT !.status = IF row.status = "PREVALIDATED" THEN "APPROVED" ELSE "SUBMITTING"]
  <2>1. /\ payment' = [payment EXCEPT ![p] = new] /\ dict' = dict /\ faults' = faults
        /\ order' = [order EXCEPT ![p] = order[p]] /\ reply' = [reply EXCEPT ![p] = reply[p]]
        /\ new \in Payment /\ new.bank = b
    BY <1>0, <1>2 DEF Approve, Submit, Move, Payment, Status, IInv, TypeOK
  <2>2. OK(p)'
    BY <1>0, <1>2, <2>1 DEF Approve, Submit, OK, RowOK, OrderOK, ReplyOK, IInv, TypeOK
  <2> HIDE DEF new
  <2> QED BY <1>0, <2>1, <2>2, StepLemma
<1>3. CASE Book(p)
  <2> DEFINE o == [word |-> Pending, amount |-> Centavos(formatValor(row.amount))]
  <2>1. o \in Order /\ o # NoOrder /\ o.word \in Words(b) /\ o.amount = row.amount
    BY <1>0, WordsDiffer, AmountSurvives, GatewaysAssumption DEF Order
  <2>2. /\ payment' = [payment EXCEPT ![p] = row] /\ dict' = dict /\ faults' = faults
        /\ order' = [order EXCEPT ![p] = o] /\ reply' = [reply EXCEPT ![p] = reply[p]]
        /\ row.status = "SUBMITTING" /\ b \in Synchronous /\ order[p] = NoOrder
    BY <1>3 DEF Book, IInv, TypeOK
  <2>3. OK(p)'
    BY <1>0, <2>1, <2>2 DEF OK, RowOK, OrderOK, ReplyOK, IInv, TypeOK
  <2> HIDE DEF o
  <2> QED BY <1>0, <2>1, <2>2, <2>3, StepLemma
<1>4. CASE BookAnswers(p) \/ Poll(p)
  <2>1. PICK ref \in {p, NoRef} : /\ reply' = [reply EXCEPT ![p] = [ref |-> ref, word |-> order[p].word]]
                                  /\ ref = NoRef => row.status = "SUBMITTING"
    <3>1. CASE Answer(p, p)
      BY <3>1, GatewaysAssumption DEF Answer
    <3>2. CASE Answer(p, NoRef) /\ row.status = "SUBMITTING"
      BY <3>2 DEF Answer
    <3> QED BY <1>4, <3>1, <3>2 DEF BookAnswers, Poll
  <2> DEFINE r == [ref |-> ref, word |-> order[p].word]
  <2>2. order[p] # NoOrder /\ row.status \in {"SUBMITTING", "SENT"}
    BY <1>0, <1>4 DEF BookAnswers, Poll, OK, RowOK
  <2>3. r \in Reply /\ r # NoReply
    BY <1>0, <2>2, WordsDiffer, GatewaysAssumption DEF Reply, Order
  <2>4. /\ payment' = [payment EXCEPT ![p] = row] /\ dict' = dict /\ faults' \in 0..MaxFaults
        /\ order' = [order EXCEPT ![p] = order[p]] /\ reply' = [reply EXCEPT ![p] = r]
    BY <1>0, <1>4, <2>1 DEF BookAnswers, Poll, IInv, TypeOK
  <2>5. OK(p)'
    BY <1>0, <2>1, <2>2, <2>3, <2>4 DEF OK, RowOK, OrderOK, ReplyOK, Named, IInv, TypeOK
  <2> HIDE DEF r
  <2> QED BY <1>0, <2>3, <2>4, <2>5, StepLemma
<1>5. CASE SubmitStores(p) \/ PollStores(p)
  <2> DEFINE result == IF row.status = "SUBMITTING" THEN SendPix(b, reply[p]) ELSE GetPixStatus(b, reply[p])
  <2>1. /\ row.status \in {"SUBMITTING", "SENT", "SETTLED", "FAILED"} /\ reply[p] # NoReply /\ reply[p] \in Reply
        /\ reply' = [reply EXCEPT ![p] = NoReply] /\ dict' = dict /\ faults' = faults
        /\ order' = [order EXCEPT ![p] = order[p]]
    BY <1>0, <1>5 DEF SubmitStores, PollStores, IInv, TypeOK
  <2>2. order[p] # NoOrder /\ reply[p].word \in {Pending, order[p].word}
        /\ reply[p].ref \in {p, NoRef} /\ (row.status # "SUBMITTING" => reply[p].ref = p)
    BY <1>0, <2>1 DEF OK, ReplyOK
  <2>3. CASE payment' = payment
    <3>1. OK(p)'
      BY <1>0, <2>1, <2>3 DEF OK, RowOK, OrderOK, ReplyOK, IInv, TypeOK, Named
    <3>2. payment' = [payment EXCEPT ![p] = row]
      BY <2>3 DEF IInv, TypeOK
    <3> QED BY <1>0, <2>1, <3>1, <3>2, StepLemma
  <2>4. CASE payment' # payment
    <3>1. /\ ~result.err /\ result.status \in {"SENT", "SETTLED", "FAILED"}
          /\ result.status = "SETTLED" => reply[p].word \in PaidWords(b)
          /\ result.status = "FAILED" => reply[p].word \in RefusedWords(b)
          /\ result.ref = reply[p].ref
          /\ row.status = "SUBMITTING" => result.status # "FAILED" /\ (b = "341" => result.ref # NoRef)
      <4>1. ~result.err
        BY <1>5, <2>4 DEF SubmitStores, PollStores
      <4> QED BY <1>0, <2>1, <4>1, SendIsHonest, PollIsHonest
    <3>2. PICK new \in Payment : /\ payment' = [payment EXCEPT ![p] = new] /\ new.bank = b
                                 /\ new.amount = row.amount /\ new.status = result.status
                                 /\ new.ref = result.ref
      <4>1. result.ref \in Payments \cup {NoRef}
        BY <2>1, <3>1 DEF Reply
      <4>2. CASE SubmitStores(p)
        <5> DEFINE new == [row EXCEPT !.ref = result.ref,
                             !.status = IF result.status = "SETTLED" THEN "SETTLED" ELSE "SENT"]
        <5>1. row.status = "SUBMITTING"
          BY <4>2 DEF SubmitStores
        <5>2. payment' = [payment EXCEPT ![p] = new]
          BY <2>4, <4>2, <5>1 DEF SubmitStores, IInv, TypeOK
        <5>3. new \in Payment /\ new.bank = b /\ new.amount = row.amount /\ new.ref = result.ref /\ new.status = result.status
          BY <1>0, <3>1, <4>1, <5>1 DEF Payment, Status
        <5> QED BY <5>2, <5>3
      <4>3. CASE PollStores(p)
        <5> DEFINE new == [row EXCEPT !.status = result.status, !.ref = IF result.ref = NoRef THEN @ ELSE result.ref]
        <5>1. row.status # "SUBMITTING" /\ result.ref # NoRef
          BY <2>2, <3>1, <4>3, GatewaysAssumption DEF PollStores
        <5>2. payment' = [payment EXCEPT ![p] = new]
          BY <2>4, <4>3, <5>1 DEF PollStores, IInv, TypeOK
        <5>3. new \in Payment /\ new.bank = b /\ new.amount = row.amount /\ new.ref = result.ref /\ new.status = result.status
          BY <1>0, <3>1, <4>1, <5>1 DEF Payment, Status
        <5> QED BY <5>2, <5>3
      <4> QED BY <1>5, <4>2, <4>3
    <3>3. reply[p].word \in FinalWords(b) => reply[p].word = order[p].word
      BY <1>0, <2>2, WordsDiffer
    <3>4. OK(p)'
      <4>1. payment'[p] = new /\ order'[p] = order[p] /\ reply'[p] = NoReply
        BY <2>1, <3>2 DEF IInv, TypeOK
      <4>2. RowOK(p)'
        BY <1>0, <2>1, <2>2, <3>1, <3>2, <3>3, <4>1 DEF OK, RowOK, Named, FinalWords
      <4> QED BY <1>0, <2>1, <3>1, <3>2, <4>1, <4>2 DEF OK, OrderOK, ReplyOK
    <3> QED BY <1>0, <2>1, <3>2, <3>4, StepLemma
  <2> QED BY <2>3, <2>4
<1> QED BY <1>1, <1>2, <1>3, <1>4, <1>5 DEF Work

(* What a notification does to it.                                           *)
LEMMA NotificationPreserves ==
  ASSUME IInv, NEW p \in Payments, HandleItau(p)
  PROVE  IInv'
<1> DEFINE row == payment[p]
           word == order[p].word
           new == [row EXCEPT !.status = ItauNotifies(word)]
<1>1. /\ row \in Payment /\ row.bank = "341" /\ OK(p) /\ faults \in 0..MaxFaults
      /\ order[p] \in Order \cup {NoOrder} /\ reply[p] \in Reply \cup {NoReply}
      /\ order[p] # NoOrder => order[p].word \in Words(row.bank)
  BY DEF HandleItau, IInv, TypeOK, OK
<1>2. /\ ItauNotifies(word) \in {"SETTLED", "FAILED"}
      /\ ItauNotifies(word) = "SETTLED" => word \in PaidWords(row.bank)
      /\ ItauNotifies(word) = "FAILED" => word \in RefusedWords(row.bank)
  BY <1>1, NotificationIsHonest DEF HandleItau
<1>3. /\ payment' = [payment EXCEPT ![p] = new] /\ dict' = dict /\ faults' = faults
      /\ order' = [order EXCEPT ![p] = order[p]] /\ reply' = [reply EXCEPT ![p] = reply[p]]
      /\ row.status = "SENT" /\ row.ref = p
  BY DEF HandleItau, Move, IInv, TypeOK
<1>4. new \in Payment /\ new.bank = row.bank /\ new.amount = row.amount /\ new.ref = p /\ new.status = ItauNotifies(word)
  BY <1>1, <1>2, <1>3 DEF Payment, Status
<1>5. payment'[p] = new /\ order'[p] = order[p] /\ reply'[p] = reply[p] /\ dict'[p] = dict[p]
  BY <1>3 DEF IInv, TypeOK
<1> HIDE DEF new
<1>6. RowOK(p)'
  BY <1>1, <1>2, <1>3, <1>4, <1>5 DEF OK, RowOK, Named
<1>7. OrderOK(p)' /\ ReplyOK(p)'
  BY <1>1, <1>2, <1>3, <1>4, <1>5 DEF OK, OrderOK, ReplyOK
<1>8. OK(p)'
  BY <1>6, <1>7 DEF OK
<1> QED BY <1>1, <1>3, <1>4, <1>8, StepLemma

(* What the bank and the network do.                                         *)
LEMMA BankPreserves ==
  ASSUME IInv, NEW p \in Payments, BankDecides(p) \/ Lose(p)
  PROVE  IInv'
<1> DEFINE row == payment[p]
           b == row.bank
<1>0. row \in Payment /\ b \in Banks /\ OK(p)
  BY DEF IInv, TypeOK, Payment, OK
<1>1. CASE BankDecides(p)
  <2>1. PICK w \in FinalWords(b) : order' = [order EXCEPT ![p].word = w]
    BY <1>1 DEF BankDecides
  <2> DEFINE o == [order[p] EXCEPT !.word = w]
  <2>2. order[p] # NoOrder /\ order[p].word = Pending /\ order[p] \in Order
    BY <1>1 DEF BankDecides, IInv, TypeOK
  <2>3. o \in Order /\ o # NoOrder /\ o.word = w /\ o.amount = order[p].amount /\ w \in Words(b)
    BY <1>0, <2>2, WordsDiffer, GatewaysAssumption DEF Order
  <2>4. /\ payment' = [payment EXCEPT ![p] = row] /\ dict' = dict /\ faults' \in 0..MaxFaults
        /\ order' = [order EXCEPT ![p] = o] /\ reply' = [reply EXCEPT ![p] = reply[p]]
    BY <1>1, <2>1 DEF BankDecides, IInv, TypeOK
  <2>5. Pending \notin PaidWords(b) \cup RefusedWords(b)
    BY <1>0, WordsDiffer DEF FinalWords
  <2>6. payment'[p] = row /\ order'[p] = o /\ reply'[p] = reply[p]
    BY <2>4 DEF IInv, TypeOK
  <2>7. OK(p)'
    BY <1>0, <2>2, <2>3, <2>4, <2>5, <2>6 DEF OK, RowOK, OrderOK, ReplyOK, Named
  <2>8. reply[p] \in Reply \cup {NoReply}
    BY DEF IInv, TypeOK
  <2> HIDE DEF o
  <2> QED BY <1>0, <2>3, <2>4, <2>7, <2>8, StepLemma
<1>2. CASE Lose(p)
  <2>1. /\ payment' = [payment EXCEPT ![p] = row] /\ dict' = dict
        /\ order' = [order EXCEPT ![p] = order[p]] /\ reply' = [reply EXCEPT ![p] = NoReply]
    BY <1>2 DEF Lose, IInv, TypeOK
  <2>2. faults' \in 0..MaxFaults
    BY <1>2, GatewaysAssumption DEF Lose, IInv, TypeOK
  <2>3. payment'[p] = row /\ order'[p] = order[p] /\ reply'[p] = NoReply
    BY <2>1 DEF IInv, TypeOK
  <2>4. OK(p)'
    BY <1>0, <2>1, <2>3 DEF OK, RowOK, OrderOK, ReplyOK, Named
  <2>5. order[p] \in Order \cup {NoOrder} /\ (order[p] # NoOrder => order[p].word \in Words(row.bank))
    BY DEF IInv, TypeOK
  <2> QED BY <1>0, <2>1, <2>2, <2>4, <2>5, StepLemma
<1> QED BY <1>1, <1>2

LEMMA Initially ==
  ASSUME Init
  PROVE  IInv
<1>1. payment \in [Payments -> Payment] /\ \A p \in Payments : payment[p].status = "VALIDATED_LOCAL"
  BY DEF Init, Payment, Status
<1>2. /\ \A p \in Payments : order[p] = NoOrder /\ reply[p] = NoReply
      /\ order \in [Payments -> Order \cup {NoOrder}]
      /\ reply \in [Payments -> Reply \cup {NoReply}]
  BY DEF Init
<1>3. faults \in 0..MaxFaults
  BY GatewaysAssumption DEF Init
<1>4. TypeOK
  BY <1>1, <1>2, <1>3 DEF Init, TypeOK
<1> QED BY <1>1, <1>2, <1>4 DEF IInv, RowOK, OrderOK, ReplyOK

(* The inductive invariant: stored outcomes and answers in flight are the    *)
(* bank's own word, and orders are of the right amount, at every bank.       *)
THEOREM GatewaysInvariant == Spec => []IInv
<1>1. Init => IInv
  BY Initially
<1>2. IInv /\ [Next]_vars => IInv'
  <2> SUFFICES ASSUME IInv, [Next]_vars PROVE IInv'
    OBVIOUS
  <2>1. CASE UNCHANGED vars
    BY <2>1 DEF vars, IInv, TypeOK, RowOK, OrderOK, ReplyOK, Named
  <2>2. CASE Next
    BY <2>2, WorkerPreserves, NotificationPreserves, BankPreserves DEF Next
  <2> QED BY <2>1, <2>2
<1> QED BY <1>1, <1>2, PTL DEF Spec

(* What every bank books is the payment's own amount (AmountIsExact).        *)
THEOREM AmountsAreExact == Spec => []AmountIsExact
<1>1. IInv => AmountIsExact
  BY DEF IInv, OrderOK, AmountIsExact
<1> QED BY <1>1, GatewaysInvariant, PTL

(* No order goes to a key the bank calls unknown (UnknownKeyIsNotPaid).      *)
THEOREM UnknownKeysUnpaid == Spec => []UnknownKeyIsNotPaid
<1>1. IInv => UnknownKeyIsNotPaid
  <2> SUFFICES ASSUME IInv, NEW p \in Payments, order[p] # NoOrder
               PROVE  dict[p] \notin {"INEXISTENTE", "INVALIDO"}
    BY DEF UnknownKeyIsNotPaid
  <2>1. /\ payment[p].bank \in Synchronous
        /\ PrevalidatePix(payment[p].bank, dict[p]) # "REJECT"
    BY DEF IInv, RowOK, OrderOK
  <2> QED BY <2>1, UnknownKeyIsRefused
<1> QED BY <1>1, GatewaysInvariant, PTL

-----------------------------------------------------------------------------
(* The refinement. A step about one payment that leaves another alone leaves *)
(* what Payout sees of the other alone.                                      *)
OrderedOnly(p) == \A q \in Payments \ {p} : payment'[q] = payment[q] /\ order'[q] = order[q]

LEMMA SeenAlone ==
  ASSUME NEW p \in Payments, OrderedOnly(p), payment'[p].bank = payment[p].bank
  PROVE  /\ \A q \in Payments \ {p} : /\ q \in Granted <=> q \in Granted'
                                       /\ Verdicts'[q] = Verdicts[q] /\ Claims'[q] = Claims[q]
         /\ order'[p] = order[p] => Verdicts' = Verdicts /\ Orders' = Orders
         /\ payment'[p].status = payment[p].status => Claims' = Claims /\ Granted' = Granted
<1>1. \A q \in Payments \ {p} : Meaning(q)' = Meaning(q)
  BY DEF OrderedOnly, Meaning
<1>2. \A q \in Payments \ {p} : /\ q \in Granted <=> q \in Granted'
                                /\ Verdicts'[q] = Verdicts[q] /\ Claims'[q] = Claims[q]
  BY <1>1 DEF OrderedOnly, Granted, Verdicts, Claims
<1>3. ASSUME order'[p] = order[p] PROVE Verdicts' = Verdicts /\ Orders' = Orders
  <2>1. Meaning(p)' = Meaning(p)
    BY <1>3 DEF Meaning
  <2>2. \A q \in Payments : Meaning(q)' = Meaning(q) /\ order'[q] = order[q]
    BY <1>1, <1>3, <2>1 DEF OrderedOnly
  <2>3. Verdicts' = Verdicts
    BY <2>2 DEF Verdicts
  <2>4. Orders' = Orders
    BY <2>2 DEF Orders
  <2> QED BY <2>3, <2>4
<1>4. ASSUME payment'[p].status = payment[p].status PROVE Claims' = Claims /\ Granted' = Granted
  <2>1. \A q \in Payments : payment'[q].status = payment[q].status
    BY <1>4 DEF OrderedOnly
  <2> QED BY <2>1 DEF Claims, Granted
<1> QED BY <1>2, <1>3, <1>4

LEMMA StepRefines ==
  ASSUME IInv, Next
  PROVE  Promise!Next \/ UNCHANGED Promise!vars
<1> SUFFICES ASSUME NEW p \in Payments,
                    Prevalidate(p) \/ Approve(p) \/ Work(p) \/ HandleItau(p) \/ BankDecides(p) \/ Lose(p)
             PROVE  Promise!Next \/ UNCHANGED Promise!vars
  BY DEF Next
<1> DEFINE row == payment[p]
           b == row.bank
<1>0. row \in Payment /\ b \in Banks /\ OK(p) /\ order[p] \in Order \cup {NoOrder}
  BY DEF IInv, TypeOK, Payment, OK
<1>1. CASE Prevalidate(p) \/ Submit(p)
  <2>1. OrderedOnly(p) /\ payment'[p].bank = b /\ order' = order
    <3>1. PICK s \in Status : payment' = [payment EXCEPT ![p].status = s] /\ order' = order
      BY <1>1 DEF Prevalidate, Submit, Move, Status
    <3> QED BY <1>0, <3>1 DEF OrderedOnly, IInv, TypeOK, Payment
  <2>2. /\ row.status \in {"VALIDATED_LOCAL", "APPROVED"}
        /\ row.status = "VALIDATED_LOCAL" => payment'[p].status \in {"REJECTED", "PREVALIDATED"}
        /\ row.status = "APPROVED" => payment'[p].status = "SUBMITTING"
    <3>1. CASE Prevalidate(p)
      <4>1. PICK s \in {"REJECTED", "PREVALIDATED"} : Move(p, s)
        BY <3>1 DEF Prevalidate
      <4> QED BY <1>0, <3>1, <4>1 DEF Prevalidate, Move, IInv, TypeOK, Payment
    <3>2. CASE Submit(p)
      BY <1>0, <3>2 DEF Submit, Move, IInv, TypeOK, Payment
    <3> QED BY <1>1, <3>1, <3>2
  <2>3. Claims' = Claims /\ Granted' = Granted
    BY <2>1, <2>2 DEF OrderedOnly, Claims, Granted
  <2> QED BY <2>1, <2>3, SeenAlone DEF Promise!vars
<1>2. CASE Approve(p)
  <2>1. OrderedOnly(p) /\ payment'[p].bank = b /\ order' = order
    BY <1>2 DEF Approve, Move, OrderedOnly, IInv, TypeOK
  <2>2. row.status = "PREVALIDATED" /\ payment'[p].status = "APPROVED"
    BY <1>2 DEF Approve, Move, IInv, TypeOK
  <2>3. Claims' = [Claims EXCEPT ![p] = "none"] /\ Granted' = Granted \cup {p}
    BY <2>1, <2>2 DEF OrderedOnly, Claims, Granted
  <2>4. Promise!Grant(p)
    BY <2>1, <2>3, SeenAlone DEF Promise!Grant
  <2> QED BY <2>4 DEF Promise!Next
<1>3. CASE Book(p)
  <2>1. OrderedOnly(p) /\ payment' = payment /\ order'[p].word = Pending /\ order'[p] \in Order
    <3>1. Centavos(formatValor(row.amount)) \in Nat
      BY <1>0, AmountSurvives, GatewaysAssumption DEF Payment
    <3>2. Pending \in Word
      BY <1>0, WordsDiffer
    <3> QED BY <1>3, <3>1, <3>2 DEF Book, OrderedOnly, IInv, TypeOK, Order
  <2>2. order'[p] # NoOrder /\ order[p] = NoOrder /\ row.status = "SUBMITTING"
    BY <1>3, <2>1, GatewaysAssumption DEF Book
  <2>3. Orders' = Orders \cup {<<p, p>>}
    BY <2>1, <2>2 DEF OrderedOnly, Orders
  <2>4. Verdicts' = [Verdicts EXCEPT ![p] = "pending"]
    <3>1. Meaning(p)' = "pending"
      BY <1>0, <2>1, WordsDiffer DEF Meaning, FinalWords
    <3>2. \A q \in Payments \ {p} : Meaning(q)' = Meaning(q)
      BY <2>1 DEF Meaning, OrderedOnly
    <3> QED BY <3>1, <3>2 DEF Verdicts
  <2>5. p \in Granted /\ \A o \in Orders : o[1] # p /\ o[2] # p
    BY <2>2 DEF Granted, Orders
  <2>6. Promise!Order(p)
    BY <2>1, <2>3, <2>4, <2>5, SeenAlone DEF Promise!Order
  <2> QED BY <2>6 DEF Promise!Next
<1>4. CASE BookAnswers(p) \/ Poll(p) \/ Lose(p)
  <2>1. OrderedOnly(p) /\ payment' = payment /\ order' = order
    BY <1>4 DEF BookAnswers, Poll, Lose, OrderedOnly
  <2> QED BY <2>1, SeenAlone DEF Promise!vars
<1>5. CASE BankDecides(p)
  <2>1. PICK w \in FinalWords(b) : order' = [order EXCEPT ![p].word = w]
    BY <1>5 DEF BankDecides
  <2>2. order[p] # NoOrder /\ order[p].word = Pending /\ order[p] \in Order /\ payment' = payment
    BY <1>0, <1>5 DEF BankDecides
  <2>3. w \in Word /\ Pending \notin PaidWords(b) \cup RefusedWords(b)
    BY <1>0, WordsDiffer DEF FinalWords
  <2>4. OrderedOnly(p) /\ order'[p].word = w /\ order'[p] # NoOrder
    BY <2>1, <2>2, <2>3, GatewaysAssumption DEF OrderedOnly, IInv, TypeOK, Order
  <2>5. Meaning(p) = "pending" /\ Meaning(p)' \in {"paid", "refused"}
    BY <2>2, <2>3, <2>4 DEF Meaning, FinalWords
  <2>6. Verdicts' = [Verdicts EXCEPT ![p] = Meaning(p)']
    <3>1. \A q \in Payments \ {p} : Meaning(q)' = Meaning(q)
      BY <2>2, <2>4 DEF Meaning, OrderedOnly
    <3> QED BY <3>1 DEF Verdicts
  <2>7. Orders' = Orders /\ <<p, p>> \in Orders
    BY <2>2, <2>4 DEF OrderedOnly, Orders
  <2>8. Verdicts[p] = "pending" /\ Granted' = Granted /\ Claims' = Claims
    BY <2>2, <2>4, <2>5, SeenAlone DEF Verdicts
  <2>9. Promise!Decide(p)
    BY <2>5, <2>6, <2>7, <2>8 DEF Promise!Decide, Promise!Outcomes
  <2> QED BY <2>9 DEF Promise!Next
<1>6. CASE SubmitStores(p) \/ PollStores(p) \/ HandleItau(p)
  <2>a. \E s \in {row.status, "SETTLED", "FAILED"} \cup (IF row.status = "SUBMITTING" THEN {"SENT"} ELSE {}) : \E ref :
          payment' = [payment EXCEPT ![p] = [row EXCEPT !.status = s, !.ref = ref]]
    <3>1. CASE SubmitStores(p)
      <4> DEFINE result == SendPix(b, reply[p])
      <4>1. CASE result.err
        <5>1. payment' = [payment EXCEPT ![p] = [row EXCEPT !.status = row.status, !.ref = row.ref]]
          BY <1>0, <3>1, <4>1 DEF SubmitStores, IInv, TypeOK, Payment
        <5> QED BY <5>1
      <4>2. CASE ~result.err
        <5> DEFINE t == IF result.status = "SETTLED" THEN "SETTLED" ELSE "SENT"
        <5>1. payment' = [payment EXCEPT ![p] = [row EXCEPT !.status = t, !.ref = result.ref]]
          BY <1>0, <3>1, <4>2 DEF SubmitStores, IInv, TypeOK, Payment
        <5>2. row.status = "SUBMITTING" /\ t \in {"SENT", "SETTLED"}
          BY <3>1 DEF SubmitStores
        <5> HIDE DEF t, result
        <5> QED BY <5>1, <5>2
      <4> QED BY <4>1, <4>2
    <3>2. CASE PollStores(p)
      <4> DEFINE result == GetPixStatus(b, reply[p])
      <4>1. CASE result.err \/ result.status = "SENT"
        <5>1. payment' = [payment EXCEPT ![p] = [row EXCEPT !.status = row.status, !.ref = row.ref]]
          BY <1>0, <3>2, <4>1 DEF PollStores, IInv, TypeOK, Payment
        <5> QED BY <5>1
      <4>2. CASE ~(result.err \/ result.status = "SENT")
        <5>1. reply[p] \in Reply
          BY <3>2 DEF PollStores, IInv, TypeOK
        <5>2. result.status \in {"SETTLED", "FAILED"}
          BY <1>0, <4>2, <5>1, PollIsHonest
        <5> DEFINE r == IF result.ref = NoRef THEN row.ref ELSE result.ref
        <5>3. payment' = [payment EXCEPT ![p] = [row EXCEPT !.status = result.status, !.ref = r]]
          BY <1>0, <3>2, <4>2 DEF PollStores, IInv, TypeOK, Payment
        <5> HIDE DEF r, result
        <5> QED BY <5>2, <5>3
      <4> QED BY <4>1, <4>2
    <3>3. CASE HandleItau(p)
      <4> DEFINE t == ItauNotifies(order[p].word)
      <4>1. payment' = [payment EXCEPT ![p] = [row EXCEPT !.status = t, !.ref = row.ref]]
        BY <1>0, <3>3 DEF HandleItau, Move, IInv, TypeOK, Payment
      <4>2. t \in {row.status, "SETTLED", "FAILED"}
        BY <3>3, NotificationIsHonest DEF HandleItau
      <4> HIDE DEF t
      <4> QED BY <4>1, <4>2
    <3> QED BY <1>6, <3>1, <3>2, <3>3
  <2>0. PICK s \in {row.status, "SETTLED", "FAILED"} \cup (IF row.status = "SUBMITTING" THEN {"SENT"} ELSE {}) : \E ref :
          payment' = [payment EXCEPT ![p] = [row EXCEPT !.status = s, !.ref = ref]]
    BY <2>a
  <2>1. order' = order /\ OrderedOnly(p) /\ payment'[p].bank = b /\ payment'[p].status = s
    <3>1. order' = order
      BY <1>6 DEF SubmitStores, PollStores, HandleItau
    <3> QED BY <1>0, <2>0, <3>1 DEF OrderedOnly, IInv, TypeOK, Payment
  <2>2. CASE payment'[p].status \notin {"SETTLED", "FAILED"}
    <3>1. row.status \in {"SUBMITTING", "SENT"} /\ payment'[p].status \in {"SUBMITTING", "SENT"}
      <4>1. row.status \in {"SUBMITTING", "SENT", "SETTLED", "FAILED"}
        BY <1>6 DEF SubmitStores, PollStores, HandleItau
      <4>2. s \in {row.status, "SETTLED", "FAILED"} \/ (s = "SENT" /\ row.status = "SUBMITTING")
        BY <2>0
      <4> QED BY <2>1, <2>2, <4>1, <4>2
    <3>2. Claims' = Claims /\ Granted' = Granted
      BY <2>1, <3>1 DEF OrderedOnly, Claims, Granted
    <3> QED BY <2>1, <3>2, SeenAlone DEF Promise!vars
  <2>3. CASE payment'[p].status \in {"SETTLED", "FAILED"}
    <3>1. RowOK(p)'
      BY <1>6, WorkerPreserves, NotificationPreserves DEF Work, IInv
    <3>2. /\ order[p] # NoOrder
          /\ payment'[p].status = "SETTLED" => order[p].word \in PaidWords(b)
          /\ payment'[p].status = "FAILED" => order[p].word \in RefusedWords(b)
      BY <2>1, <2>3, <3>1 DEF RowOK
    <3>3. Meaning(p) = IF payment'[p].status = "SETTLED" THEN "paid" ELSE "refused"
      BY <1>0, <2>3, <3>2, WordsDiffer DEF Meaning
    <3>4. Claims' = [Claims EXCEPT ![p] = Meaning(p)]
      BY <2>1, <2>3, <3>3 DEF OrderedOnly, Claims
    <3>5. row.status \in {"SUBMITTING", "SENT", "SETTLED", "FAILED"}
      BY <1>6 DEF SubmitStores, PollStores, HandleItau
    <3>6. Granted' = Granted
      BY <2>1, <2>3, <3>5 DEF OrderedOnly, Granted
    <3>7. <<p, p>> \in Orders /\ Verdicts[p] = Meaning(p)
      BY <3>2 DEF Orders, Verdicts
    <3>8. Promise!Report(p)
      BY <2>1, <3>3, <3>4, <3>6, <3>7, SeenAlone DEF Promise!Report, Promise!Outcomes
    <3> QED BY <3>8 DEF Promise!Next
  <2> QED BY <2>2, <2>3
<1> QED BY <1>1, <1>2, <1>3, <1>4, <1>5, <1>6 DEF Work

(* The adapters keep the payout's promise: one order per granted payment and *)
(* no outcome but the bank's (AdaptersKeepPayout).                           *)
THEOREM AdaptersImplementPayout == Spec => AdaptersKeepPayout
<1>1. Init => Promise!Init
  <2> SUFFICES ASSUME Init PROVE Promise!Init
    OBVIOUS
  <2>1. \A p \in Payments : payment[p].status = "VALIDATED_LOCAL" /\ order[p] = NoOrder
    BY DEF Init
  <2> QED BY <2>1 DEF Promise!Init, Granted, Orders, Verdicts, Claims, Meaning
<1>2. IInv /\ [Next]_vars => [Promise!Next]_Promise!vars
  <2>1. UNCHANGED vars => UNCHANGED Promise!vars
    BY DEF vars, Promise!vars, Granted, Orders, Verdicts, Claims, Meaning
  <2> QED BY <2>1, StepRefines
<1> QED BY <1>1, <1>2, GatewaysInvariant, PTL DEF Spec, AdaptersKeepPayout, Promise!Spec
=============================================================================
