-------------------------- MODULE PaymentLifecycle --------------------------
(***************************************************************************)
(* The life of payments between the two binaries and the bank.  API        *)
(* goroutines (Handlers) run the operator endpoints, the approval loop and *)
(* the Itau webhook; River slots (Workers) run the prevalidation and PIX   *)
(* submission jobs and the reconciliation cron.  All of them share the     *)
(* payments table, and each follows the same discipline: read a row, test  *)
(* the copy, update the status (an UPDATE that looks at the id only), then *)
(* insert a payment event.  Every database statement and every call to the *)
(* bank is a step of its own; the copy lives in the goroutine's frame.     *)
(***************************************************************************)
EXTENDS PaymentStatus, Naturals

CONSTANTS
  Payments,    \* rows of the payments table
  Keys,        \* idempotency keys
  KeyOf,       \* payments.idempotency_key, UNIQUE and never updated
  Handlers,    \* concurrent API requests
  Workers,     \* River worker slots (MaxWorkers)
  Endpoints,   \* the operations this instance exercises
  MaxAttempts, \* attempts River grants a job before it discards it
  MaxFaults,   \* bound: crashes and failed statements in a behaviour
  NoPay, NoRef

Actors == Handlers \cup Workers

JobKinds == {"prevalidate", "submit"}
Ops == {"none", "operator", "reschedule", "approve", "webhook", "reconcile"} \cup JobKinds

ASSUME KeysAssumption ==
  /\ KeyOf \in [Payments -> Keys]
  /\ \A p, q \in Payments : KeyOf[p] = KeyOf[q] => p = q

ASSUME ActorsAssumption ==
  /\ Handlers \cap Workers = {}
  /\ Endpoints \subseteq
       {"hold", "unhold", "cancel", "reject", "submitRun"} \cup (Ops \ {"none", "operator"})

ASSUME BoundsAssumption == MaxAttempts \in Nat \ {0} /\ MaxFaults \in Nat

(* codigoSolicitacao identifies an order at the bank, endToEndId its       *)
(* settlement; both land in payments.bank_reference.                       *)
Refs == {"codigo", "e2e"} \X Keys
Codigo(k) == <<"codigo", k>>
EndToEnd(k) == <<"e2e", k>>

ASSUME NullsAssumption ==
  /\ NoRef \notin Refs
  /\ NoPay \notin Payments

MaybeRef == Refs \cup {NoRef}
NoStatus == "NONE"
Verdicts == {"pending", "paid", "refused"}
JobStates == {"none", "available", "running", "completed", "discarded"}
Phases == {"idle", "write", "log", "gateway", "send", "next", "tx", "ack"}

VARIABLES
  status,   \* payments.status
  bankRef,  \* payments.bank_reference
  trail,    \* to_status of the latest row of payment_events
  notified, \* rows actor BANK wrote in payment_events (counted up to 2)
  granted,  \* history: payments whose run approval stored APPROVED
  job,      \* state of the River job of a kind for a payment
  attempt,  \* its attempts so far
  frame,    \* what each goroutine is doing: its locals
  orders,   \* orders the bank accepted, by idempotency key
  verdict,  \* what became of the order of a key
  faults    \* crashes and failed statements so far

vars == <<status, bankRef, trail, notified, granted, job, attempt, frame, orders, verdict, faults>>

db   == <<status, bankRef, granted>>
log  == <<trail, notified>>
jobs == <<job, attempt>>
bank == <<orders, verdict>>

Frames ==
  [ op : Ops, at : Phases, pay : Payments \cup {NoPay},
    to : Status \cup {NoStatus}, ref : MaybeRef,
    todo : SUBSET (Payments \X MaybeRef) ]

IdleFrame ==
  [op |-> "none", at |-> "idle", pay |-> NoPay,
   to |-> NoStatus, ref |-> NoRef, todo |-> {}]

TypeOK ==
  /\ status  \in [Payments -> Status]
  /\ bankRef \in [Payments -> MaybeRef]
  /\ trail   \in [Payments -> Status]
  /\ notified \in [Payments -> 0..2]
  /\ granted \subseteq Payments
  /\ job     \in [JobKinds \X Payments -> JobStates]
  /\ attempt \in [JobKinds \X Payments -> 0..MaxAttempts]
  /\ frame   \in [Actors -> Frames]
  /\ orders  \subseteq Keys \X Payments
  /\ verdict \in [Keys -> Verdicts]
  /\ faults  \in 0..MaxFaults

(* payment.New and the ingress event: a payment starts RECEIVED.           *)
Init ==
  /\ status  = [p \in Payments |-> "RECEIVED"]
  /\ bankRef = [p \in Payments |-> NoRef]
  /\ trail   = [p \in Payments |-> "RECEIVED"]
  /\ notified = [p \in Payments |-> 0]
  /\ granted = {}
  /\ job     = [j \in JobKinds \X Payments |-> "none"]
  /\ attempt = [j \in JobKinds \X Payments |-> 0]
  /\ frame   = [a \in Actors |-> IdleFrame]
  /\ orders  = {}
  /\ verdict = [k \in Keys |-> "pending"]
  /\ faults  = 0

-----------------------------------------------------------------------------
(* The shared discipline: intend a write, write, log, go on.               *)

Idle(a) == frame[a].at = "idle"

\* The goroutine has tested its copy and will now store status `to`.
Intend(a, op, p, to, ref, todo) ==
  frame' = [frame EXCEPT ![a] =
    [op |-> op, at |-> "write", pay |-> p, to |-> to, ref |-> ref, todo |-> todo]]

Goto(f, phase) == [f EXCEPT !.at = phase, !.to = NoStatus, !.ref = NoRef]

\* What follows the event insert in each procedure.
AfterEvent(f) ==
  IF f.op \in {"approve", "reconcile"}  THEN Goto(f, "next")
  ELSE IF f.op \notin JobKinds         THEN IdleFrame
  ELSE IF f.to = "VALIDATED_LOCAL"     THEN Goto(f, "gateway")
  ELSE IF f.to = "SUBMITTING"          THEN Goto(f, "send")
  ELSE Goto(f, "ack")

\* bank_reference = COALESCE($3, bank_reference)
Coalesce(new, old) == IF new = NoRef THEN old ELSE new

\* UpdatePaymentStatus: WHERE id = $1, whatever the row holds by now.
WriteStatus(a) ==
  LET f == frame[a] IN
  /\ f.at = "write"
  /\ status'  = [status EXCEPT ![f.pay] = f.to]
  /\ bankRef' = [bankRef EXCEPT ![f.pay] = Coalesce(f.ref, @)]
  /\ granted' = IF f.op = "approve" THEN granted \cup {f.pay} ELSE granted
  /\ frame'   = [frame EXCEPT ![a].at = "log"]
  /\ UNCHANGED <<log, jobs, bank, faults>>

LogEvent(a) ==
  LET f == frame[a] IN
  /\ f.at = "log"
  /\ trail'   = [trail EXCEPT ![f.pay] = f.to]
  /\ notified' = [notified EXCEPT ![f.pay] =
                    IF f.op = "webhook" /\ @ < 2 THEN @ + 1 ELSE @]
  /\ frame'   = [frame EXCEPT ![a] = AfterEvent(f)]
  /\ UNCHANGED <<db, jobs, bank, faults>>

-----------------------------------------------------------------------------
(* Operator endpoints.  A request whose test fails answers 409 and changes *)
(* nothing.                                                                *)

TransitionPayment(a, p, to, requireFrom) ==
  /\ Idle(a)
  /\ status[p] \in requireFrom
  /\ CanTransition(status[p], to)
  /\ Intend(a, "operator", p, to, NoRef, {})
  /\ UNCHANGED <<db, log, jobs, bank, faults>>

HoldPayment(a, p) ==
  "hold" \in Endpoints /\ TransitionPayment(a, p, "ON_HOLD", {"APPROVED"})

\* mutant: unhold without requireFrom, the table alone would let it approve
UnholdPayment_AnyOrigin(a, p) ==
  "unhold" \in Endpoints /\ TransitionPayment(a, p, "APPROVED", Status)

UnholdPayment(a, p) ==
  "unhold" \in Endpoints /\ TransitionPayment(a, p, "APPROVED", {"ON_HOLD"})

CancelPayment(a, p) ==
  "cancel" \in Endpoints /\ TransitionPayment(a, p, "CANCELED", Status)
RejectPayment(a, p) ==
  "reject" \in Endpoints /\ TransitionPayment(a, p, "REJECTED", Status)

Reschedulable ==
  {"RECEIVED", "VALIDATED_LOCAL", "PREVALIDATED", "ON_HOLD", "UNDER_REVIEW"}

ReschedulePayment(a, p) ==
  /\ "reschedule" \in Endpoints
  /\ Idle(a)
  /\ status[p] \in Reschedulable
  /\ frame' = [frame EXCEPT ![a] =
                 [IdleFrame EXCEPT !.op = "reschedule", !.at = "tx", !.pay = p]]
  /\ UNCHANGED <<db, log, jobs, bank, faults>>

\* The transaction: detach (module RunApproval), reset the status, insert the event.
RescheduleCommit(a) ==
  LET p == frame[a].pay IN
  /\ frame[a].at = "tx"
  /\ status' = [status EXCEPT ![p] = "PREVALIDATED"]
  /\ trail'  = [trail EXCEPT ![p] = "PREVALIDATED"]
  /\ frame'  = [frame EXCEPT ![a] = IdleFrame]
  /\ UNCHANGED <<bankRef, granted, notified, jobs, bank, faults>>

\* ... or the payment's run is already approved: conflict, rolled back.
RescheduleConflict(a) ==
  /\ frame[a].at = "tx"
  /\ frame' = [frame EXCEPT ![a] = IdleFrame]
  /\ UNCHANGED <<db, log, jobs, bank, faults>>

\* ApproveRun walks the items S of a run (module RunApproval owns the run).
ApproveItems(a, S) ==
  /\ "approve" \in Endpoints
  /\ Idle(a)
  /\ frame' = [frame EXCEPT ![a] =
                 [IdleFrame EXCEPT !.op = "approve", !.at = "next",
                                   !.todo = S \X {NoRef}]]
  /\ UNCHANGED <<db, log, jobs, bank, faults>>

ApproveNext(a) ==
  LET f == frame[a] IN
  /\ f.op = "approve" /\ f.at = "next"
  /\ \E item \in f.todo :
       IF status[item[1]] = "PREVALIDATED"
         THEN Intend(a, "approve", item[1], "APPROVED", NoRef, f.todo \ {item})
         ELSE frame' = [frame EXCEPT ![a] = IdleFrame]
  /\ UNCHANGED <<db, log, jobs, bank, faults>>

LoopDone(a) ==
  /\ frame[a].at = "next" /\ frame[a].todo = {}
  /\ frame' = [frame EXCEPT ![a] = IdleFrame]
  /\ UNCHANGED <<db, log, jobs, bank, faults>>

\* The audit events of SubmitToBank, in its transaction: each payment of the run
\* gets a row from and to the status it has.
SubmitToBank(S) ==
  /\ "submitRun" \in Endpoints
  /\ trail' = [p \in Payments |-> IF p \in S THEN status[p] ELSE trail[p]]
  /\ UNCHANGED <<db, notified, jobs, frame, bank, faults>>

-----------------------------------------------------------------------------
(* River jobs.  Nothing in the repository inserts these jobs; the design   *)
(* has ingress enqueue the prevalidation and run approval the submission.  *)
(* River runs a job at least once: an attempt that fails, or whose process *)
(* dies, makes it available again until MaxAttempts are spent.             *)

Enqueue(kind, p) ==
  LET j == <<kind, p>> IN
  /\ kind \in Endpoints
  /\ job[j] \notin {"available", "running"}
  /\ status[p] = (IF kind = "submit" THEN "APPROVED" ELSE "RECEIVED")
  /\ job' = [job EXCEPT ![j] = "available"]
  /\ attempt' = [attempt EXCEPT ![j] = 0]
  /\ UNCHANGED <<db, log, frame, bank, faults>>

Fetch(a, kind, p) ==
  LET j == <<kind, p>> IN
  /\ Idle(a)
  /\ job[j] = "available"
  /\ job' = [job EXCEPT ![j] = "running"]
  /\ attempt' = [attempt EXCEPT ![j] = @ + 1]

\* Work returned an error, or its worker died: the attempt is over.
Retry(a) ==
  LET j == <<frame[a].op, frame[a].pay>> IN
  /\ job' = [job EXCEPT ![j] =
               IF attempt[j] < MaxAttempts THEN "available" ELSE "discarded"]
  /\ frame' = [frame EXCEPT ![a] = IdleFrame]
  /\ UNCHANGED attempt

Complete(a) ==
  LET j == <<frame[a].op, frame[a].pay>> IN
  /\ frame[a].at = "ack"
  /\ job' = [job EXCEPT ![j] = "completed"]
  /\ frame' = [frame EXCEPT ![a] = IdleFrame]
  /\ UNCHANGED <<attempt, db, log, bank, faults>>

\* PrevalidatePaymentWorker.Work: the first hop needs RECEIVED, the rest no status.
Prevalidate(a, p) ==
  /\ Fetch(a, "prevalidate", p)
  /\ IF status[p] = "RECEIVED"
       THEN Intend(a, "prevalidate", p, "VALIDATED_LOCAL", NoRef, {})
       ELSE frame' = [frame EXCEPT ![a] =
              [IdleFrame EXCEPT !.op = "prevalidate", !.at = "gateway", !.pay = p]]
  /\ UNCHANGED <<db, log, bank, faults>>

\* The DICT query and the rules engine: reject, review or let through.
GatewayVerdict(a) ==
  LET f == frame[a] IN
  /\ f.at = "gateway"
  /\ \E to \in {"REJECTED", "UNDER_REVIEW", "PREVALIDATED"} :
       Intend(a, "prevalidate", f.pay, to, NoRef, {})
  /\ UNCHANGED <<db, log, jobs, bank, faults>>

GatewayFails(a) ==
  /\ frame[a].at = "gateway"
  /\ Retry(a)
  /\ UNCHANGED <<db, log, bank, faults>>

\* SubmitPixWorker.Work: APPROVED moves to SUBMITTING, any other status goes on to send.
SubmitPix(a, p) ==
  /\ Fetch(a, "submit", p)
  /\ IF status[p] = "APPROVED"
       THEN Intend(a, "submit", p, "SUBMITTING", NoRef, {})
       ELSE frame' = [frame EXCEPT ![a] =
              [IdleFrame EXCEPT !.op = "submit", !.at = "send", !.pay = p]]
  /\ UNCHANGED <<db, log, bank, faults>>

Ordered(k) == \E p \in Payments : <<k, p>> \in orders

SendKey_PerAttempt(a) == \* mutant: a fresh key for every attempt
  IF \E k \in Keys : ~Ordered(k) THEN CHOOSE k \in Keys : ~Ordered(k)
                                ELSE KeyOf[frame[a].pay]

\* SendPixRequest.IdempotencyKey, the x-id-idempotente header.
SendKey(a) == KeyOf[frame[a].pay]

\* The bank books one order per idempotency key and may settle it on the spot.
BankAccepts(k, p) ==
  IF Ordered(k)
    THEN UNCHANGED bank
    ELSE /\ orders' = orders \cup {<<k, p>>}
         /\ \E v \in {"pending", "paid"} : verdict' = [verdict EXCEPT ![k] = v]

\* SendPix: APROVADO and FINALIZADO are SETTLED, every other answer is SENT.
SentAs(v) == IF v = "paid" THEN "SETTLED" ELSE "SENT"

SendPix_DropsReference(a) == \* mutant: bank_reference not passed on
  LET f == frame[a]
      k == SendKey(a) IN
  /\ f.at = "send"
  /\ BankAccepts(k, f.pay)
  /\ Intend(a, "submit", f.pay, SentAs(verdict'[k]), NoRef, {})
  /\ UNCHANGED <<db, log, jobs, faults>>

SendPix(a) ==
  LET f == frame[a]
      k == SendKey(a) IN
  /\ f.at = "send"
  /\ BankAccepts(k, f.pay)
  /\ Intend(a, "submit", f.pay, SentAs(verdict'[k]), Codigo(k), {})
  /\ UNCHANGED <<db, log, jobs, faults>>

\* No answer: the order was never placed, or it was and the answer was lost.
SendPixFails(a) ==
  /\ frame[a].at = "send"
  /\ BankAccepts(SendKey(a), frame[a].pay) \/ UNCHANGED bank
  /\ Retry(a)
  /\ UNCHANGED <<db, log, faults>>

\* The bank pays or refuses an order, once.
BankDecides(k) ==
  /\ Ordered(k) /\ verdict[k] = "pending"
  /\ \E v \in {"paid", "refused"} : verdict' = [verdict EXCEPT ![k] = v]
  /\ UNCHANGED <<orders, db, log, jobs, frame, faults>>

-----------------------------------------------------------------------------
(* The two ways a verdict comes back.                                      *)

\* ListByStatus(SENT), PIX rows with a bank reference: the copies of the pass.
Reconcile(a) ==
  LET sent == {<<p, bankRef[p]>> : p \in {q \in Payments :
                   status[q] = "SENT" /\ bankRef[q] # NoRef}} IN
  /\ "reconcile" \in Endpoints
  /\ Idle(a)
  /\ sent # {}
  /\ frame' = [frame EXCEPT ![a] =
                 [IdleFrame EXCEPT !.op = "reconcile", !.at = "next", !.todo = sent]]
  /\ UNCHANGED <<db, log, jobs, bank, faults>>

PolledAs_DefaultsToSettled(v) == \* mutant: whatever is not refused is settled
  IF v = "refused" THEN "FAILED" ELSE "SETTLED"

PolledAs_ForgetsRefusal(v) == \* mutant: the failure case is missing
  IF v = "paid" THEN "SETTLED" ELSE "SENT"

\* GetPixStatus: what the bank's answer is in our terms.
PolledAs(v) ==
  CASE v = "paid"    -> "SETTLED"
    [] v = "refused" -> "FAILED"
    [] v = "pending" -> "SENT"

\* Poll one order; its status differs from the copy's SENT and the table allows it.
Poll(a, p) ==
  LET f == frame[a] IN
  /\ f.op = "reconcile" /\ f.at = "next"
  /\ \E k \in Keys :
       /\ <<p, Codigo(k)>> \in f.todo
       /\ CanTransition("SENT", PolledAs(verdict[k]))
       /\ Intend(a, "reconcile", p, PolledAs(verdict[k]), Codigo(k),
                 f.todo \ {<<p, Codigo(k)>>})
  /\ UNCHANGED <<db, log, jobs, bank, faults>>

\* The order is still pending, or the query failed: on to the next payment.
PollSkips(a) ==
  LET f == frame[a] IN
  /\ f.op = "reconcile" /\ f.at = "next"
  /\ \E item \in f.todo :
       frame' = [frame EXCEPT ![a].todo = @ \ {item}]
  /\ UNCHANGED <<db, log, jobs, bank, faults>>

\* The webhook's own table; the statuses it does not know are ignored.
NotifiedAs(v) == IF v = "paid" THEN "SETTLED" ELSE "FAILED"

\* HandleItau: a notification about a decided order, delivered any number of
\* times or never.  The SENT payment with that reference takes the verdict, and
\* endToEndId (when the payload has one) replaces its reference.
HandleItau(a, k, p) ==
  /\ "webhook" \in Endpoints
  /\ Idle(a)
  /\ Ordered(k) /\ verdict[k] # "pending"
  /\ status[p] = "SENT" /\ bankRef[p] = Codigo(k)
  /\ CanTransition("SENT", NotifiedAs(verdict[k]))
  /\ \E ref \in {EndToEnd(k), NoRef} :
       Intend(a, "webhook", p, NotifiedAs(verdict[k]), ref, {})
  /\ UNCHANGED <<db, log, jobs, bank, faults>>

-----------------------------------------------------------------------------
(* Faults: a failed statement, a dead process.  A request or a cron pass   *)
(* in progress is simply gone; a job attempt comes back through River.     *)

Fault == faults < MaxFaults /\ faults' = faults + 1

GiveUp(a) ==
  IF frame[a].op \in JobKinds
    THEN Retry(a)
    ELSE frame' = [frame EXCEPT ![a] = IdleFrame] /\ UNCHANGED jobs

Crash(a) ==
  /\ Fault
  /\ frame[a].at # "idle"
  /\ GiveUp(a)
  /\ UNCHANGED <<db, log, bank>>

\* The prevalidation worker discards the error of its REJECTED and UNDER_REVIEW updates.
IgnoresUpdateError(f) ==
  f.op = "prevalidate" /\ f.to \in {"REJECTED", "UNDER_REVIEW"}

UpdateFails(a) ==
  LET f == frame[a] IN
  /\ Fault
  /\ f.at = "write"
  /\ \/ /\ IgnoresUpdateError(f)
        /\ frame' = [frame EXCEPT ![a].at = "log"] /\ UNCHANGED jobs
     \/ /\ f.op = "reconcile"
        /\ frame' = [frame EXCEPT ![a] = Goto(f, "next")] /\ UNCHANGED jobs
     \/ /\ ~IgnoresUpdateError(f) /\ f.op # "reconcile"
        /\ GiveUp(a)
  /\ UNCHANGED <<db, log, bank>>

\* Operators answer 500; jobs, the cron and the webhook discard the error.
EventFails(a) ==
  LET f == frame[a] IN
  /\ Fault
  /\ f.at = "log"
  /\ frame' = [frame EXCEPT ![a] =
                 IF f.op \in {"operator", "approve"} THEN IdleFrame ELSE AfterEvent(f)]
  /\ UNCHANGED <<db, log, jobs, bank>>

-----------------------------------------------------------------------------

Request(a) ==
  \/ \E p \in Payments :
       \/ HoldPayment(a, p) \/ UnholdPayment(a, p)
       \/ CancelPayment(a, p) \/ RejectPayment(a, p)
       \/ ReschedulePayment(a, p)
  \/ \E S \in SUBSET Payments : ApproveItems(a, S)
  \/ \E k \in Keys, p \in Payments : HandleItau(a, k, p)

Work(a) ==
  \/ \E p \in Payments : Prevalidate(a, p) \/ SubmitPix(a, p)
  \/ Reconcile(a)

\* What a goroutine does next once it has started.
Step(a) ==
  \/ WriteStatus(a) \/ LogEvent(a)
  \/ RescheduleCommit(a) \/ RescheduleConflict(a)
  \/ ApproveNext(a) \/ LoopDone(a)
  \/ GatewayVerdict(a) \/ GatewayFails(a)
  \/ SendPix(a) \/ SendPixFails(a)
  \/ Complete(a)
  \/ PollSkips(a)
  \/ \E p \in Payments : Poll(a, p)

Failure(a) == Crash(a) \/ UpdateFails(a) \/ EventFails(a)

Next ==
  \/ \E a \in Handlers : Request(a)
  \/ \E a \in Workers : Work(a)
  \/ \E a \in Actors : Step(a) \/ Failure(a)
  \/ \E kind \in JobKinds, p \in Payments : Enqueue(kind, p)
  \/ \E k \in Keys : BankDecides(k)
  \/ \E S \in SUBSET Payments : SubmitToBank(S)

Spec == Init /\ [][Next]_vars

\* A goroutine that started goes on.  River fetches in order, so the periodic
\* pass is not overtaken for ever, and the bank does not fail a query for ever.
Fairness ==
  /\ \A a \in Actors : WF_vars(Step(a))
  /\ SF_vars(\E a \in Workers : Reconcile(a))
  /\ \A a \in Workers, p \in Payments : SF_vars(Poll(a, p))

FairSpec == Spec /\ Fairness

-----------------------------------------------------------------------------
(* What holds, whatever the interleaving and the faults.                   *)

(* A payment is ordered at most once, however often its job runs: every    *)
(* attempt presents the payment's own idempotency key (jobs.go, SendPix).  *)
OneOrderPerPayment ==
  \A o1, o2 \in orders : o1[2] = o2[2] => o1 = o2

\* What status s says of the bank's verdict on p is true.
Vouched(p, s) ==
  /\ s = "SETTLED" => verdict[KeyOf[p]] = "paid"
  /\ s = "FAILED"  => verdict[KeyOf[p]] = "refused"

(* SETTLED and FAILED, in the row and in the trail, are the bank's verdict,*)
(* whichever of SubmitPix, HandleItau and Reconcile stored them, and       *)
(* however late, out of order or half done.                                *)
StatusAgreesWithBank ==
  \A p \in Payments : Vouched(p, status[p]) /\ Vouched(p, trail[p])

(* A SENT payment carries the reference of an order the bank holds, the    *)
(* only handle by which webhook and reconciliation find it again.          *)
SentIsTraceable ==
  \A p \in Payments : status[p] = "SENT" =>
    /\ <<KeyOf[p], p>> \in orders
    /\ bankRef[p] = Codigo(KeyOf[p])

(* No order without a run approval of that payment, by ApproveRun and not  *)
(* by an unhold or a reschedule (given submissions are enqueued APPROVED). *)
OrderWasGranted ==
  \A o \in orders : o[2] \in granted

(* With no webhook at all, the reconciliation notices every verdict: a     *)
(* SENT payment whose order is decided does not stay SENT.                 *)
VerdictIsNoticed ==
  \A p \in Payments :
    (status[p] = "SENT" /\ verdict[KeyOf[p]] # "pending") ~> status[p] # "SENT"

(* Seen from outside, all of this is Payout: the rows' SETTLED and FAILED  *)
(* are claims about the bank, everything else claims nothing.              *)
Claim ==
  [p \in Payments |-> CASE status[p] = "SETTLED" -> "paid"
                        [] status[p] = "FAILED"  -> "refused"
                        [] OTHER -> "none"]

P == INSTANCE Payout WITH claim <- Claim

(* The goroutines, jobs, retries and faults implement the promise of       *)
(* module Payout (SubmitPixWorker, HandleItau, ReconcilePixWorker).        *)
ImplementsPayout == P!Spec

-----------------------------------------------------------------------------
(* Why it holds: the inductive invariant behind the four invariants above. *)

\* A stored status that speaks for the bank, or for an approver, is theirs.
RowOK(p) ==
  /\ status[p] = "SENT" => <<KeyOf[p], p>> \in orders /\ bankRef[p] = Codigo(KeyOf[p])
  /\ Vouched(p, status[p]) /\ Vouched(p, trail[p])
  /\ status[p] \in {"APPROVED", "ON_HOLD"} => p \in granted

\* So is a status some goroutine is about to store, however old its copy.
WriteOK(f) ==
  /\ f.to \in Status
  /\ f.to = "SENT" => <<KeyOf[f.pay], f.pay>> \in orders /\ f.ref = Codigo(KeyOf[f.pay])
  /\ Vouched(f.pay, f.to)
  /\ f.to \in {"APPROVED", "ON_HOLD"} => f.op = "approve" \/ f.pay \in granted

FrameOK(f) ==
  /\ f.at \in {"write", "log", "gateway", "send", "tx", "ack"} => f.pay \in Payments
  /\ f.op \in JobKinds => f.pay \in Payments
  /\ f.at \in {"gateway", "send", "ack"} => f.op \in JobKinds
  /\ f.at = "send" => f.op = "submit"
  /\ f.op = "submit" => f.pay \in granted
  /\ f.at = "write" => WriteOK(f)
  /\ f.at = "log" => f.to \in Status /\ Vouched(f.pay, f.to)
  /\ f.at = "write" /\ f.op = "approve" => f.to = "APPROVED"
  /\ f.at \in {"write", "log"} /\ f.to = "SUBMITTING" => f.op = "submit"
  /\ f.op = "reconcile" =>
       \A item \in f.todo : item[2] = Codigo(KeyOf[item[1]])

\* Orders are booked under the payment's own key, for granted payments only.
BankOK ==
  /\ \A o \in orders : o[1] = KeyOf[o[2]] /\ o[2] \in granted
  /\ \A k \in Keys : verdict[k] # "pending" => Ordered(k)

JobsOK ==
  \A j \in JobKinds \X Payments :
    /\ job[j] = "available" => attempt[j] < MaxAttempts
    /\ j[1] = "submit" /\ job[j] # "none" => j[2] \in granted

IInv ==
  /\ TypeOK
  /\ \A p \in Payments : RowOK(p)
  /\ \A a \in Actors : FrameOK(frame[a])
  /\ BankOK
  /\ JobsOK

-----------------------------------------------------------------------------
(* What the handler's comment says and the code does not keep.             *)

(* webhooks.go: "Idempotent: processing the same event_id twice is a       *)
(* no-op": one decided order, one event by BANK.                           *)
NotificationAppliedOnce == \A p \in Payments : notified[p] <= 1
=============================================================================
