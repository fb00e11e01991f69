----------------------- MODULE PaymentLifecycle_proofs -----------------------
(***************************************************************************)
(* Proofs about PaymentLifecycle, for any payments, keys, goroutines and   *)
(* bounds.  The argument: whatever a goroutine is about to store was       *)
(* justified by the bank or by an approver when it made up its mind, and   *)
(* such a justification is never withdrawn (orders and grants only grow, a *)
(* verdict is final).  So it does not matter how stale the copy is.        *)
(***************************************************************************)
EXTENDS PaymentLifecycle, TLAPS

USE DEF Vouched

\* Justifications only accumulate.
Grows ==
  /\ orders \subseteq orders'
  /\ granted \subseteq granted'
  /\ \A k \in Keys : verdict[k] # "pending" => verdict'[k] = verdict[k]

(* A goroutine whose frame is justified stays justified while the bank and *)
(* the approvers go on.                                                    *)
LEMMA FrameMonotone ==
  ASSUME NEW f \in Frames, FrameOK(f), Grows
  PROVE  FrameOK(f)'
<1>0. f.at = "log" => f.to \in Status /\ Vouched(f.pay, f.to)'
  <2> SUFFICES ASSUME f.at = "log" PROVE f.to \in Status /\ Vouched(f.pay, f.to)'
    OBVIOUS
  <2>1. f.pay \in Payments /\ f.to \in Status /\ Vouched(f.pay, f.to)
    BY DEF FrameOK
  <2>2. KeyOf[f.pay] \in Keys
    BY <2>1, KeysAssumption
  <2> QED BY <2>1, <2>2 DEF Grows
<1>1. f.at = "write" => WriteOK(f)'
  <2> SUFFICES ASSUME f.at = "write" PROVE WriteOK(f)'
    OBVIOUS
  <2>1. f.pay \in Payments /\ WriteOK(f)
    BY DEF FrameOK
  <2>2. KeyOf[f.pay] \in Keys
    BY <2>1, KeysAssumption
  <2> QED BY <2>1, <2>2 DEF WriteOK, Grows
<1> QED BY <1>0, <1>1 DEF FrameOK, Grows

(* The same for a row nobody touches.                                      *)
LEMMA RowMonotone ==
  ASSUME NEW p \in Payments, RowOK(p), Grows,
         status'[p] = status[p], bankRef'[p] = bankRef[p], trail'[p] = trail[p]
  PROVE  RowOK(p)'
<1>1. KeyOf[p] \in Keys
  BY KeysAssumption
<1> QED BY <1>1 DEF RowOK, Grows

(* A step of one goroutine leaves the others justified: what remains is    *)
(* its own frame, the rows, the bank and the jobs.                         *)
LEMMA StepLemma ==
  ASSUME IInv, Grows, NEW a \in Actors, NEW f \in Frames, FrameOK(f)',
         frame' = [frame EXCEPT ![a] = f],
         TypeOK', BankOK', JobsOK', \A p \in Payments : RowOK(p)'
  PROVE  IInv'
<1>1. \A b \in Actors : FrameOK(frame[b])'
  <2> SUFFICES ASSUME NEW b \in Actors PROVE FrameOK(frame[b])'
    OBVIOUS
  <2>1. CASE b = a
    <3>1. PICK g \in Frames : g = f /\ g = frame'[b]
      BY <2>1 DEF IInv, TypeOK
    <3>2. FrameOK(g)'
      BY <3>1
    <3> QED BY <3>1, <3>2 DEF FrameOK, WriteOK
  <2>2. CASE b # a
    <3>1. PICK g \in Frames : g = frame[b] /\ g = frame'[b]
      BY <2>2 DEF IInv, TypeOK
    <3>2. FrameOK(frame[b])
      BY DEF IInv
    <3>3. FrameOK(g)
      BY <3>1, <3>2
    <3>4. FrameOK(g)'
      BY <3>3, FrameMonotone
    <3> QED BY <3>1, <3>4 DEF FrameOK, WriteOK
  <2> QED BY <2>1, <2>2
<1> QED BY <1>1 DEF IInv

(* A step that changes one goroutine's frame and perhaps a job.            *)
LEMMA LocalStep ==
  ASSUME IInv, NEW a \in Actors, NEW f \in Frames, FrameOK(f),
         frame' = [frame EXCEPT ![a] = f],
         UNCHANGED <<db, log, bank>>, faults' \in 0..MaxFaults,
         job' \in [JobKinds \X Payments -> JobStates],
         attempt' \in [JobKinds \X Payments -> 0..MaxAttempts],
         JobsOK'
  PROVE  IInv'
<1> USE DEF db, log, bank
<1>1. TypeOK'
  BY DEF IInv, TypeOK
<1>2. Grows
  BY DEF Grows
<1>3. FrameOK(f)'
  BY <1>2, FrameMonotone
<1>4. \A p \in Payments : RowOK(p)'
  BY DEF IInv, RowOK
<1>5. BankOK'
  BY DEF IInv, BankOK, Ordered
<1> QED BY <1>1, <1>2, <1>3, <1>4, <1>5, StepLemma

(* A step that changes one goroutine's frame only.                         *)
LEMMA FrameStep ==
  ASSUME IInv, NEW a \in Actors, NEW f \in Frames, FrameOK(f),
         frame' = [frame EXCEPT ![a] = f],
         UNCHANGED <<db, log, jobs, bank>>, faults' \in 0..MaxFaults
  PROVE  IInv'
<1>1. /\ job' \in [JobKinds \X Payments -> JobStates]
      /\ attempt' \in [JobKinds \X Payments -> 0..MaxAttempts]
      /\ JobsOK'
  BY DEF IInv, TypeOK, JobsOK, jobs, db
<1> QED BY <1>1, LocalStep

(* An idle goroutine needs no justification.                               *)
LEMMA IdleFrameOK == IdleFrame \in Frames /\ FrameOK(IdleFrame)
BY DEF IdleFrame, Frames, FrameOK, Ops, JobKinds, Phases, NoStatus, MaybeRef

(* Going on to a phase that holds no pending write.                        *)
LEMMA GotoOK ==
  ASSUME NEW f \in Frames, FrameOK(f), NEW phase \in Phases,
         phase \notin {"write", "log"},
         phase \in {"gateway", "send", "tx", "ack"} => f.pay \in Payments,
         phase \in {"gateway", "send", "ack"} => f.op \in JobKinds,
         phase = "send" => f.op = "submit"
  PROVE  Goto(f, phase) \in Frames /\ FrameOK(Goto(f, phase))
BY DEF Goto, Frames, FrameOK, MaybeRef

(* After an event insert the goroutine is still justified.                 *)
LEMMA AfterEventOK ==
  ASSUME NEW f \in Frames, FrameOK(f), f.at = "log"
  PROVE  AfterEvent(f) \in Frames /\ FrameOK(AfterEvent(f))
<1>1. f.pay \in Payments
  BY DEF FrameOK
<1>2. "next" \in Phases /\ "gateway" \in Phases /\ "send" \in Phases /\ "ack" \in Phases
  BY DEF Phases
<1>3. CASE f.op \in {"approve", "reconcile"}
  BY <1>2, <1>3, GotoOK DEF AfterEvent
<1>4. CASE f.op \notin JobKinds \cup {"approve", "reconcile"}
  BY <1>4, IdleFrameOK DEF AfterEvent
<1>5. CASE f.op \in JobKinds /\ f.to = "VALIDATED_LOCAL"
  BY <1>1, <1>2, <1>5, GotoOK DEF AfterEvent, JobKinds
<1>6. CASE f.op \in JobKinds /\ f.to = "SUBMITTING"
  <2>1. f.op = "submit"
    BY <1>6 DEF FrameOK
  <2> QED BY <1>1, <1>2, <1>6, <2>1, GotoOK DEF AfterEvent, JobKinds
<1>7. CASE f.op \in JobKinds /\ f.to \notin {"VALIDATED_LOCAL", "SUBMITTING"}
  BY <1>1, <1>2, <1>7, GotoOK DEF AfterEvent, JobKinds
<1> QED BY <1>3, <1>4, <1>5, <1>6, <1>7

-----------------------------------------------------------------------------
(* One lemma per group of actions.                                         *)

\* The frame Intend gives a goroutine.
Intended(op, p, to, ref, todo) ==
  [op |-> op, at |-> "write", pay |-> p, to |-> to, ref |-> ref, todo |-> todo]

(* Operator endpoints: the status written is never one the bank decides,   *)
(* and APPROVED and ON_HOLD are only passed on between each other.         *)
LEMMA OperatorSteps ==
  ASSUME IInv, NEW a \in Actors, NEW p \in Payments,
         \/ HoldPayment(a, p) \/ UnholdPayment(a, p)
         \/ CancelPayment(a, p) \/ RejectPayment(a, p)
         \/ ReschedulePayment(a, p) \/ RescheduleConflict(a)
  PROVE  IInv'
<1>0. faults' \in 0..MaxFaults
  BY DEF IInv, TypeOK, HoldPayment, UnholdPayment, CancelPayment, RejectPayment,
         TransitionPayment, ReschedulePayment, RescheduleConflict
<1>1. CASE \/ HoldPayment(a, p) \/ UnholdPayment(a, p)
           \/ CancelPayment(a, p) \/ RejectPayment(a, p)
  <2>1. PICK to \in {"ON_HOLD", "APPROVED", "CANCELED", "REJECTED"} :
          /\ frame' = [frame EXCEPT ![a] = Intended("operator", p, to, NoRef, {})]
          /\ UNCHANGED <<db, log, jobs, bank>>
          /\ to \in {"ON_HOLD", "APPROVED"} => status[p] \in {"ON_HOLD", "APPROVED"}
    BY <1>1 DEF HoldPayment, UnholdPayment, CancelPayment, RejectPayment,
                TransitionPayment, Intend, Intended
  <2> DEFINE f == Intended("operator", p, to, NoRef, {})
  <2>2. f \in Frames
    BY DEF Intended, Frames, Ops, Phases, Status, MaybeRef
  <2>3. FrameOK(f)
    BY <2>1 DEF Intended, FrameOK, WriteOK, IInv, RowOK, Status, JobKinds
  <2> QED BY <1>0, <2>1, <2>2, <2>3, FrameStep
<1>2. CASE ReschedulePayment(a, p)
  <2> DEFINE f == [IdleFrame EXCEPT !.op = "reschedule", !.at = "tx", !.pay = p]
  <2>1. f \in Frames /\ FrameOK(f)
    BY DEF IdleFrame, Frames, FrameOK, Ops, JobKinds, Phases, MaybeRef
  <2> QED BY <1>0, <1>2, <2>1, FrameStep DEF ReschedulePayment
<1>3. CASE RescheduleConflict(a)
  BY <1>0, <1>3, IdleFrameOK, FrameStep DEF RescheduleConflict
<1> QED BY <1>1, <1>2, <1>3

(* The approval loop and the end of any loop.                              *)
LEMMA ApprovalSteps ==
  ASSUME IInv, NEW a \in Actors,
         \/ \E S \in SUBSET Payments : ApproveItems(a, S)
         \/ ApproveNext(a) \/ LoopDone(a)
  PROVE  IInv'
<1>0. faults' \in 0..MaxFaults
  BY DEF IInv, TypeOK, ApproveItems, ApproveNext, LoopDone
<1>1. ASSUME NEW S \in SUBSET Payments, ApproveItems(a, S)
      PROVE  IInv'
  <2> DEFINE f == [IdleFrame EXCEPT !.op = "approve", !.at = "next",
                                    !.todo = S \X {NoRef}]
  <2>1. f \in Frames /\ FrameOK(f)
    BY DEF IdleFrame, Frames, FrameOK, Ops, JobKinds, Phases, MaybeRef
  <2> QED BY <1>0, <1>1, <2>1, FrameStep DEF ApproveItems
<1>2. CASE ApproveNext(a)
  <2>1. PICK item \in frame[a].todo :
          IF status[item[1]] = "PREVALIDATED"
            THEN Intend(a, "approve", item[1], "APPROVED", NoRef, frame[a].todo \ {item})
            ELSE frame' = [frame EXCEPT ![a] = IdleFrame]
    BY <1>2 DEF ApproveNext
  <2>2. CASE status[item[1]] = "PREVALIDATED"
    <3> DEFINE f == Intended("approve", item[1], "APPROVED", NoRef, frame[a].todo \ {item})
    <3>1. item \in Payments \X MaybeRef
      BY DEF IInv, TypeOK, Frames
    <3>2. f \in Frames
      BY <3>1 DEF IInv, TypeOK, Intended, Frames, Ops, Phases, Status, MaybeRef
    <3>3. FrameOK(f)
      BY <3>1 DEF Intended, FrameOK, WriteOK, Status, JobKinds
    <3>4. frame' = [frame EXCEPT ![a] = f]
      BY <2>1, <2>2 DEF Intend, Intended
    <3> QED BY <1>0, <1>2, <3>2, <3>3, <3>4, FrameStep DEF ApproveNext
  <2>3. CASE status[item[1]] # "PREVALIDATED"
    BY <1>0, <1>2, <2>1, <2>3, IdleFrameOK, FrameStep DEF ApproveNext
  <2> QED BY <2>2, <2>3
<1>3. CASE LoopDone(a)
  BY <1>0, <1>3, IdleFrameOK, FrameStep DEF LoopDone
<1> QED BY <1>1, <1>2, <1>3

(* River: an attempt ends, a job is enqueued, an attempt starts.           *)
LEMMA RetryStep ==
  ASSUME IInv, NEW a \in Actors, Retry(a), frame[a].op \in JobKinds,
         UNCHANGED <<db, log, bank>>, faults' \in 0..MaxFaults
  PROVE  IInv'
<1> DEFINE j == <<frame[a].op, frame[a].pay>>
<1>1. j \in JobKinds \X Payments
  BY DEF IInv, FrameOK
<1>2. j[1] = "submit" => j[2] \in granted
  BY DEF IInv, FrameOK
<1>3. attempt[j] \in 0..MaxAttempts /\ MaxAttempts \in Nat
  BY <1>1, BoundsAssumption DEF IInv, TypeOK
<1>4. job' \in [JobKinds \X Payments -> JobStates] /\ attempt' = attempt
  BY DEF Retry, IInv, TypeOK, JobStates
<1>5. JobsOK'
  <2> SUFFICES ASSUME NEW i \in JobKinds \X Payments
               PROVE  /\ job'[i] = "available" => attempt'[i] < MaxAttempts
                      /\ i[1] = "submit" /\ job'[i] # "none" => i[2] \in granted'
    BY DEF JobsOK
  <2>1. CASE i = j
    <3>1. job'[i] = IF attempt[j] < MaxAttempts THEN "available" ELSE "discarded"
      BY <2>1, <1>1 DEF Retry, IInv, TypeOK
    <3> QED BY <2>1, <3>1, <1>2, <1>3, <1>4 DEF db
  <2>2. CASE i # j
    <3>1. job'[i] = job[i]
      BY <2>2 DEF Retry, IInv, TypeOK
    <3> QED BY <3>1, <1>4 DEF IInv, JobsOK, db
  <2> QED BY <2>1, <2>2
<1>6. frame' = [frame EXCEPT ![a] = IdleFrame] /\ attempt' \in [JobKinds \X Payments -> 0..MaxAttempts]
  BY <1>4 DEF Retry, IInv, TypeOK
<1> QED BY <1>4, <1>5, <1>6, IdleFrameOK, LocalStep

LEMMA CompleteStep ==
  ASSUME IInv, NEW a \in Actors, Complete(a)
  PROVE  IInv'
<1> DEFINE j == <<frame[a].op, frame[a].pay>>
<1>1. j \in JobKinds \X Payments /\ (j[1] = "submit" => j[2] \in granted)
  BY DEF IInv, FrameOK, Complete
<1>2. /\ job' \in [JobKinds \X Payments -> JobStates] /\ attempt' = attempt
      /\ attempt' \in [JobKinds \X Payments -> 0..MaxAttempts]
      /\ \A i \in JobKinds \X Payments :
           job'[i] = IF i = j THEN "completed" ELSE job[i]
  BY DEF Complete, IInv, TypeOK, JobStates
<1>3. JobsOK'
  BY <1>1, <1>2 DEF IInv, JobsOK, db, Complete
<1>4. faults' \in 0..MaxFaults
  BY DEF Complete, IInv, TypeOK
<1> QED BY <1>2, <1>3, <1>4, IdleFrameOK, LocalStep DEF Complete

LEMMA EnqueueStep ==
  ASSUME IInv, NEW kind \in JobKinds, NEW p \in Payments, Enqueue(kind, p)
  PROVE  IInv'
<1> DEFINE j == <<kind, p>>
<1>1. kind = "submit" => p \in granted
  BY DEF Enqueue, IInv, RowOK
<1>2. 0 \in 0..MaxAttempts /\ 0 < MaxAttempts
  BY BoundsAssumption
<1>3. /\ job' \in [JobKinds \X Payments -> JobStates]
      /\ attempt' \in [JobKinds \X Payments -> 0..MaxAttempts]
      /\ \A i \in JobKinds \X Payments :
           /\ job'[i] = IF i = j THEN "available" ELSE job[i]
           /\ attempt'[i] = IF i = j THEN 0 ELSE attempt[i]
  BY <1>2 DEF Enqueue, IInv, TypeOK, JobStates
<1>4. JobsOK'
  BY <1>1, <1>2, <1>3 DEF IInv, JobsOK, db, Enqueue
<1>5. TypeOK'
  BY <1>3 DEF Enqueue, IInv, TypeOK, db, log, bank
<1>6. /\ \A q \in Payments : RowOK(q)'
      /\ BankOK'
  BY DEF Enqueue, IInv, RowOK, BankOK, Ordered, db, log, bank
<1>7. \A b \in Actors : FrameOK(frame[b])'
  BY DEF Enqueue, IInv, FrameOK, WriteOK, db, log, bank
<1> QED BY <1>4, <1>5, <1>6, <1>7 DEF IInv

(* The two job entries: fetch an attempt, then write or go on.             *)
LEMMA FetchStep ==
  ASSUME IInv, NEW a \in Actors, NEW kind \in JobKinds, NEW p \in Payments,
         Fetch(a, kind, p), NEW f \in Frames, FrameOK(f),
         frame' = [frame EXCEPT ![a] = f], UNCHANGED <<db, log, bank, faults>>
  PROVE  IInv'
<1> DEFINE j == <<kind, p>>
<1>1. j \in JobKinds \X Payments /\ job[j] = "available"
  BY DEF Fetch
<1>2. attempt[j] + 1 \in 0..MaxAttempts
  <2>1. attempt[j] \in 0..MaxAttempts /\ attempt[j] < MaxAttempts
    BY <1>1 DEF IInv, TypeOK, JobsOK
  <2> QED BY <2>1, BoundsAssumption
<1>3. /\ job' \in [JobKinds \X Payments -> JobStates]
      /\ attempt' \in [JobKinds \X Payments -> 0..MaxAttempts]
      /\ \A i \in JobKinds \X Payments :
           /\ job'[i] = IF i = j THEN "running" ELSE job[i]
           /\ i # j => attempt'[i] = attempt[i]
  BY <1>2 DEF Fetch, IInv, TypeOK, JobStates
<1>4. JobsOK'
  BY <1>1, <1>3 DEF IInv, JobsOK, db
<1>5. faults' \in 0..MaxFaults
  BY DEF IInv, TypeOK
<1> QED BY <1>3, <1>4, <1>5, LocalStep

LEMMA JobStarts ==
  ASSUME IInv, NEW a \in Actors, NEW p \in Payments,
         Prevalidate(a, p) \/ SubmitPix(a, p)
  PROVE  IInv'
<1>1. CASE Prevalidate(a, p)
  <2> DEFINE f == IF status[p] = "RECEIVED"
                    THEN Intended("prevalidate", p, "VALIDATED_LOCAL", NoRef, {})
                    ELSE [IdleFrame EXCEPT !.op = "prevalidate", !.at = "gateway", !.pay = p]
  <2>1. f \in Frames /\ FrameOK(f)
    BY DEF Intended, IdleFrame, Frames, FrameOK, WriteOK, Ops, JobKinds, Phases,
           Status, MaybeRef
  <2>2. frame' = [frame EXCEPT ![a] = f] /\ Fetch(a, "prevalidate", p)
        /\ UNCHANGED <<db, log, bank, faults>>
    BY <1>1 DEF Prevalidate, Intend, Intended
  <2>3. "prevalidate" \in JobKinds
    BY DEF JobKinds
  <2> QED BY <2>1, <2>2, <2>3, FetchStep
<1>2. CASE SubmitPix(a, p)
  <2> DEFINE f == IF status[p] = "APPROVED"
                    THEN Intended("submit", p, "SUBMITTING", NoRef, {})
                    ELSE [IdleFrame EXCEPT !.op = "submit", !.at = "send", !.pay = p]
  <2>1. p \in granted
    <3>1. <<"submit", p>> \in JobKinds \X Payments /\ job[<<"submit", p>>] # "none"
      BY <1>2 DEF SubmitPix, Fetch, JobKinds
    <3> QED BY <3>1 DEF IInv, JobsOK
  <2>2. f \in Frames /\ FrameOK(f)
    BY <2>1 DEF Intended, IdleFrame, Frames, FrameOK, WriteOK, Ops, JobKinds, Phases,
           Status, MaybeRef
  <2>3. frame' = [frame EXCEPT ![a] = f] /\ Fetch(a, "submit", p)
        /\ UNCHANGED <<db, log, bank, faults>>
    BY <1>2 DEF SubmitPix, Intend, Intended
  <2>4. "submit" \in JobKinds
    BY DEF JobKinds
  <2> QED BY <2>2, <2>3, <2>4, FetchStep
<1> QED BY <1>1, <1>2

(* The gateway's and the rules engine's answer.                            *)
LEMMA GatewaySteps ==
  ASSUME IInv, NEW a \in Actors, GatewayVerdict(a) \/ GatewayFails(a)
  PROVE  IInv'
<1>1. CASE GatewayVerdict(a)
  <2>1. PICK to \in {"REJECTED", "UNDER_REVIEW", "PREVALIDATED"} :
          frame' = [frame EXCEPT ![a] = Intended("prevalidate", frame[a].pay, to, NoRef, {})]
    BY <1>1 DEF GatewayVerdict, Intend, Intended
  <2> DEFINE f == Intended("prevalidate", frame[a].pay, to, NoRef, {})
  <2>2. frame[a].pay \in Payments /\ faults' \in 0..MaxFaults
    BY <1>1 DEF GatewayVerdict, IInv, TypeOK, FrameOK
  <2>3. f \in Frames /\ FrameOK(f)
    BY <2>2 DEF Intended, Frames, FrameOK, WriteOK, Ops, JobKinds, Phases, Status, MaybeRef
  <2> QED BY <1>1, <2>1, <2>2, <2>3, FrameStep DEF GatewayVerdict
<1>2. CASE GatewayFails(a)
  <2>1. frame[a].op \in JobKinds /\ faults' \in 0..MaxFaults
    BY <1>2 DEF GatewayFails, IInv, TypeOK, FrameOK
  <2> QED BY <1>2, <2>1, RetryStep DEF GatewayFails
<1> QED BY <1>1, <1>2

(* What the bank does with a request: orders grow, verdicts stay, and the  *)
(* order of the key exists afterwards.                                     *)
LEMMA BankAcceptsOK ==
  ASSUME IInv, NEW p \in granted, BankAccepts(KeyOf[p], p), UNCHANGED db
  PROVE  /\ Grows
         /\ BankOK'
         /\ orders' \subseteq Keys \X Payments /\ verdict' \in [Keys -> Verdicts]
         /\ <<KeyOf[p], p>> \in orders'
<1> DEFINE k == KeyOf[p]
<1>1. p \in Payments /\ k \in Keys
  BY KeysAssumption DEF IInv, TypeOK
<1>2. CASE Ordered(k)
  <2>1. orders' = orders /\ verdict' = verdict
    BY <1>2 DEF BankAccepts, bank
  <2>2. PICK q \in Payments : <<k, q>> \in orders
    BY <1>2 DEF Ordered
  <2>3. q = p
    BY <1>1, <2>2, KeysAssumption DEF IInv, BankOK
  <2> QED BY <2>1, <2>2, <2>3 DEF IInv, TypeOK, BankOK, Ordered, Grows, db
<1>3. CASE ~Ordered(k)
  <2>1. PICK v \in {"pending", "paid"} :
          orders' = orders \cup {<<k, p>>} /\ verdict' = [verdict EXCEPT ![k] = v]
    BY <1>3 DEF BankAccepts
  <2>2. verdict[k] = "pending"
    BY <1>1, <1>3 DEF IInv, BankOK
  <2>3. Grows
    BY <1>1, <2>1, <2>2 DEF Grows, db, IInv, TypeOK
  <2>4. BankOK'
    <3>1. \A o \in orders' : o[1] = KeyOf[o[2]] /\ o[2] \in granted'
      BY <2>1 DEF IInv, BankOK, db
    <3>2. ASSUME NEW l \in Keys, verdict'[l] # "pending"
          PROVE  \E q \in Payments : <<l, q>> \in orders'
      <4>1. CASE l = k
        BY <1>1, <2>1, <4>1
      <4>2. CASE l # k
        <5>1. verdict'[l] = verdict[l]
          BY <2>1, <4>2 DEF IInv, TypeOK
        <5> QED BY <2>1, <3>2, <5>1 DEF IInv, BankOK, Ordered
      <4> QED BY <4>1, <4>2
    <3> QED BY <3>1, <3>2 DEF BankOK, Ordered
  <2> QED BY <1>1, <2>1, <2>3, <2>4 DEF IInv, TypeOK, Verdicts
<1> QED BY <1>2, <1>3

(* The rows stay justified when they are not written and the bank goes on. *)
LEMMA RowsKept ==
  ASSUME IInv, Grows, UNCHANGED <<db, log>>
  PROVE  \A p \in Payments : RowOK(p)'
BY RowMonotone DEF IInv, db, log

LEMMA JobsKept ==
  ASSUME IInv, Grows, UNCHANGED jobs
  PROVE  JobsOK'
BY DEF IInv, JobsOK, jobs, Grows

(* SendPix: the answer names the payment's own order, and SETTLED only if  *)
(* the bank has paid it.                                                   *)
LEMMA SendPixStep ==
  ASSUME IInv, NEW a \in Actors, SendPix(a)
  PROVE  IInv'
<1> DEFINE p == frame[a].pay
           k == KeyOf[p]
           f == Intended("submit", p, SentAs(verdict'[k]), Codigo(k), {})
<1>1. p \in Payments /\ p \in granted /\ k \in Keys
  BY KeysAssumption DEF SendPix, IInv, FrameOK
<1>2. /\ BankAccepts(KeyOf[p], p)
      /\ frame' = [frame EXCEPT ![a] = f]
      /\ UNCHANGED <<db, log, jobs, faults>>
  BY DEF SendPix, SendKey, Intend, Intended
<1>3. /\ Grows /\ BankOK'
      /\ orders' \subseteq Keys \X Payments /\ verdict' \in [Keys -> Verdicts]
      /\ <<k, p>> \in orders'
  BY <1>1, <1>2, BankAcceptsOK
<1>4. PICK g \in Frames : g = f
  <2>1. SentAs(verdict'[k]) \in Status
    BY DEF SentAs, Status
  <2>2. Codigo(k) \in MaybeRef
    BY <1>1 DEF Codigo, MaybeRef, Refs
  <2>3. f \in Frames
    BY <1>1, <2>1, <2>2 DEF Intended, Frames, Ops, JobKinds, Phases
  <2> QED BY <2>3
<1>5. FrameOK(g)'
  <2>1. /\ g.op = "submit" /\ g.at = "write" /\ g.pay = p /\ g.ref = Codigo(k)
        /\ g.to = "SETTLED" => verdict'[k] = "paid"
        /\ g.to \in {"SETTLED", "SENT"}
    BY <1>4 DEF Intended, SentAs
  <2> QED BY <1>1, <1>2, <1>3, <2>1 DEF FrameOK, WriteOK, Status, JobKinds, db
<1>6. frame' = [frame EXCEPT ![a] = g]
  BY <1>2, <1>4
<1>7. TypeOK'
  BY <1>2, <1>3, <1>6 DEF IInv, TypeOK, db, log, jobs
<1> QED BY <1>2, <1>3, <1>5, <1>6, <1>7, RowsKept, JobsKept, StepLemma

LEMMA SendPixFailsStep ==
  ASSUME IInv, NEW a \in Actors, SendPixFails(a)
  PROVE  IInv'
<1> DEFINE p == frame[a].pay
<1>1. p \in granted /\ frame[a].op \in JobKinds
  BY DEF SendPixFails, IInv, FrameOK
<1>2. CASE UNCHANGED bank
  BY <1>1, <1>2, RetryStep DEF SendPixFails, IInv, TypeOK
<1>3. CASE BankAccepts(KeyOf[p], p)
  <2>1. /\ Grows /\ BankOK'
        /\ orders' \subseteq Keys \X Payments /\ verdict' \in [Keys -> Verdicts]
    BY <1>1, <1>3, BankAcceptsOK DEF SendPixFails
  <2> DEFINE j == <<frame[a].op, p>>
  <2>2. j \in JobKinds \X Payments /\ (j[1] = "submit" => j[2] \in granted)
    BY <1>1 DEF IInv, FrameOK
  <2>3. /\ job' = [job EXCEPT ![j] =
                 IF attempt[j] < MaxAttempts THEN "available" ELSE "discarded"]
        /\ attempt' = attempt /\ frame' = [frame EXCEPT ![a] = IdleFrame]
        /\ UNCHANGED <<db, log, faults>>
    BY DEF SendPixFails, Retry
  <2>4. JobsOK'
    <3> SUFFICES ASSUME NEW i \in JobKinds \X Payments
                 PROVE  /\ job'[i] = "available" => attempt'[i] < MaxAttempts
                        /\ i[1] = "submit" /\ job'[i] # "none" => i[2] \in granted'
      BY DEF JobsOK
    <3>1. CASE i = j
      BY <2>2, <2>3, <3>1 DEF IInv, TypeOK, db
    <3>2. CASE i # j
      BY <2>2, <2>3, <3>2 DEF IInv, TypeOK, JobsOK, db
    <3> QED BY <3>1, <3>2
  <2>5. TypeOK'
    BY <2>1, <2>3, IdleFrameOK DEF IInv, TypeOK, db, log, JobStates
  <2>6. FrameOK(IdleFrame)'
    BY <2>1, IdleFrameOK, FrameMonotone
  <2> QED BY <2>1, <2>3, <2>4, <2>5, <2>6, IdleFrameOK, RowsKept, StepLemma
<1> QED BY <1>2, <1>3 DEF SendPixFails, SendKey

(* The bank's verdict is given once and stays.                             *)
LEMMA BankDecidesStep ==
  ASSUME IInv, NEW k \in Keys, BankDecides(k)
  PROVE  IInv'
<1>1. Grows
  BY DEF BankDecides, Grows, db, IInv, TypeOK
<1>2. BankOK'
  BY DEF BankDecides, IInv, TypeOK, BankOK, Ordered, db
<1>3. TypeOK'
  BY DEF BankDecides, IInv, TypeOK, Verdicts, db, log, jobs
<1>4. \A b \in Actors : FrameOK(frame[b])'
  <2> SUFFICES ASSUME NEW b \in Actors PROVE FrameOK(frame[b])'
    OBVIOUS
  <2>1. PICK g \in Frames : g = frame[b] /\ g = frame'[b]
    BY DEF BankDecides, IInv, TypeOK
  <2>2. FrameOK(g)
    BY <2>1 DEF IInv, FrameOK, WriteOK
  <2>3. FrameOK(g)'
    BY <1>1, <2>2, FrameMonotone
  <2> QED BY <2>1, <2>3 DEF FrameOK, WriteOK
<1>5. UNCHANGED <<db, log, jobs>>
  BY DEF BankDecides
<1> QED BY <1>1, <1>2, <1>3, <1>4, <1>5, RowsKept, JobsKept DEF IInv

(* The audit events repeat what the rows say.                              *)
LEMMA AuditStep ==
  ASSUME IInv, NEW S \in SUBSET Payments, SubmitToBank(S)
  PROVE  IInv'
<1>1. UNCHANGED <<db, notified, jobs, frame, bank, faults>>
  BY DEF SubmitToBank
<1>2. TypeOK'
  BY <1>1 DEF SubmitToBank, IInv, TypeOK, db, jobs, bank
<1>3. ASSUME NEW p \in Payments PROVE RowOK(p)'
  <2>1. trail'[p] \in {status[p], trail[p]}
    BY DEF SubmitToBank
  <2>2. RowOK(p)
    BY DEF IInv
  <2> QED BY <1>1, <2>1, <2>2 DEF RowOK, db, bank
<1>4. ASSUME NEW b \in Actors PROVE FrameOK(frame[b])'
  BY <1>1 DEF IInv, FrameOK, WriteOK, db, bank
<1>5. BankOK' /\ JobsOK'
  BY <1>1 DEF IInv, BankOK, JobsOK, Ordered, db, jobs, bank
<1> QED BY <1>2, <1>3, <1>4, <1>5 DEF IInv

(* Reconciliation and webhook pass on what the bank has decided.           *)
LEMMA VerdictSteps ==
  ASSUME IInv, NEW a \in Actors,
         \/ Reconcile(a) \/ PollSkips(a)
         \/ \E p \in Payments : Poll(a, p)
         \/ \E k \in Keys, p \in Payments : HandleItau(a, k, p)
  PROVE  IInv'
<1>1. CASE Reconcile(a)
  <2> DEFINE sent == {<<p, bankRef[p]>> : p \in {q \in Payments :
                        status[q] = "SENT" /\ bankRef[q] # NoRef}}
             f == [IdleFrame EXCEPT !.op = "reconcile", !.at = "next", !.todo = sent]
  <2>1. sent \subseteq Payments \X MaybeRef
    BY DEF IInv, TypeOK
  <2>2. \A item \in sent : item[2] = Codigo(KeyOf[item[1]])
    <3> SUFFICES ASSUME NEW p \in Payments, status[p] = "SENT"
                 PROVE  bankRef[p] = Codigo(KeyOf[p])
      OBVIOUS
    <3>1. RowOK(p)
      BY DEF IInv
    <3> QED BY <3>1 DEF RowOK
  <2>3. f \in Frames /\ FrameOK(f)
    BY <2>1, <2>2 DEF IdleFrame, Frames, FrameOK, Ops, JobKinds, Phases, MaybeRef
  <2> QED BY <1>1, <2>3, FrameStep DEF Reconcile, IInv, TypeOK
<1>2. CASE PollSkips(a)
  <2>1. PICK item \in frame[a].todo : frame' = [frame EXCEPT ![a].todo = @ \ {item}]
    BY <1>2 DEF PollSkips
  <2> DEFINE f == [frame[a] EXCEPT !.todo = @ \ {item}]
  <2>2. f \in Frames /\ FrameOK(f)
    <3>1. frame[a] \in Frames /\ FrameOK(frame[a]) /\ frame[a].at = "next"
      BY <1>2 DEF PollSkips, IInv, TypeOK
    <3> QED BY <3>1 DEF Frames, FrameOK
  <2>3. frame' = [frame EXCEPT ![a] = f]
    BY <2>1
  <2> QED BY <1>2, <2>2, <2>3, FrameStep DEF PollSkips, IInv, TypeOK
<1>3. ASSUME NEW p \in Payments, Poll(a, p)
      PROVE  IInv'
  <2>1. PICK k \in Keys :
          /\ <<p, Codigo(k)>> \in frame[a].todo
          /\ CanTransition("SENT", PolledAs(verdict[k]))
          /\ Intend(a, "reconcile", p, PolledAs(verdict[k]), Codigo(k),
                    frame[a].todo \ {<<p, Codigo(k)>>})
    BY <1>3 DEF Poll
  <2> DEFINE f == Intended("reconcile", p, PolledAs(verdict[k]), Codigo(k),
                           frame[a].todo \ {<<p, Codigo(k)>>})
  <2>2. frame[a] \in Frames /\ FrameOK(frame[a]) /\ frame[a].op = "reconcile"
    BY <1>3 DEF Poll, IInv, TypeOK
  <2>3. k = KeyOf[p]
    BY <2>1, <2>2 DEF FrameOK, Codigo
  <2>4. /\ PolledAs(verdict[k]) \in {"SETTLED", "FAILED"}
        /\ PolledAs(verdict[k]) = "SETTLED" => verdict[k] = "paid"
        /\ PolledAs(verdict[k]) = "FAILED" => verdict[k] = "refused"
    <3>1. verdict[k] \in Verdicts
      BY DEF IInv, TypeOK
    <3> QED BY <2>1, <3>1 DEF PolledAs, CanTransition, Allowed, Verdicts
  <2>5. f \in Frames
    BY <2>2, <2>4 DEF Intended, Frames, Ops, Phases, Status, MaybeRef, Refs, Codigo
  <2>6. FrameOK(f)
    BY <2>2, <2>3, <2>4 DEF Intended, FrameOK, WriteOK, Status, JobKinds
  <2>7. frame' = [frame EXCEPT ![a] = f]
    BY <2>1 DEF Intend, Intended
  <2> QED BY <1>3, <2>5, <2>6, <2>7, FrameStep DEF Poll, IInv, TypeOK
<1>4. ASSUME NEW k \in Keys, NEW p \in Payments, HandleItau(a, k, p)
      PROVE  IInv'
  <2>1. PICK ref \in {EndToEnd(k), NoRef} :
          Intend(a, "webhook", p, NotifiedAs(verdict[k]), ref, {})
    BY <1>4 DEF HandleItau
  <2> DEFINE f == Intended("webhook", p, NotifiedAs(verdict[k]), ref, {})
  <2>2. k = KeyOf[p]
    <3>1. status[p] = "SENT" /\ bankRef[p] = Codigo(k)
      BY <1>4 DEF HandleItau
    <3>2. RowOK(p)
      BY DEF IInv
    <3>3. Codigo(k) = Codigo(KeyOf[p])
      BY <3>1, <3>2 DEF RowOK
    <3> QED BY <3>3 DEF Codigo
  <2>3. /\ NotifiedAs(verdict[k]) \in {"SETTLED", "FAILED"}
        /\ NotifiedAs(verdict[k]) = "SETTLED" => verdict[k] = "paid"
        /\ NotifiedAs(verdict[k]) = "FAILED" => verdict[k] = "refused"
    BY <1>4 DEF HandleItau, NotifiedAs, Verdicts, IInv, TypeOK
  <2>4. f \in Frames
    BY <2>3 DEF Intended, Frames, Ops, Phases, Status, MaybeRef, Refs, EndToEnd
  <2>5. FrameOK(f)
    BY <2>2, <2>3 DEF Intended, FrameOK, WriteOK, Status, JobKinds
  <2>6. frame' = [frame EXCEPT ![a] = f]
    BY <2>1 DEF Intend, Intended
  <2> QED BY <1>4, <2>4, <2>5, <2>6, FrameStep DEF HandleItau, IInv, TypeOK
<1> QED BY <1>1, <1>2, <1>3, <1>4

(* The unguarded UPDATE: the row takes the status its writer justified.    *)
LEMMA WriteStep ==
  ASSUME IInv, NEW a \in Actors, WriteStatus(a)
  PROVE  IInv'
<1> DEFINE f == frame[a]
           p == f.pay
           g == [f EXCEPT !.at = "log"]
<1>1. f \in Frames /\ FrameOK(f) /\ WriteOK(f) /\ f.at = "write" /\ p \in Payments
  BY DEF WriteStatus, IInv, TypeOK, FrameOK
<1>2. g \in Frames /\ FrameOK(g)
  BY <1>1 DEF Frames, FrameOK, WriteOK, Phases
<1>3. Grows
  BY DEF WriteStatus, Grows, bank
<1>4. /\ status' = [status EXCEPT ![p] = f.to]
      /\ bankRef' = [bankRef EXCEPT ![p] = Coalesce(f.ref, bankRef[p])]
      /\ granted' = IF f.op = "approve" THEN granted \cup {p} ELSE granted
      /\ frame' = [frame EXCEPT ![a] = g]
      /\ UNCHANGED <<log, jobs, bank, faults>>
  BY DEF WriteStatus
<1>5. TypeOK'
  <2>1. Coalesce(f.ref, bankRef[p]) \in MaybeRef
    BY <1>1 DEF Coalesce, IInv, TypeOK, Frames
  <2>2. f.to \in Status
    BY <1>1 DEF WriteOK
  <2> QED BY <1>1, <1>2, <1>4, <2>1, <2>2 DEF IInv, TypeOK, log, jobs, bank
<1>6. \A q \in Payments : RowOK(q)'
  <2> SUFFICES ASSUME NEW q \in Payments PROVE RowOK(q)'
    OBVIOUS
  <2>1. CASE q # p
    <3>1. status'[q] = status[q] /\ bankRef'[q] = bankRef[q] /\ trail'[q] = trail[q]
      BY <1>4, <2>1 DEF IInv, TypeOK, log
    <3> QED BY <1>3, <3>1, RowMonotone DEF IInv
  <2>2. CASE q = p
    <3>1. status'[q] = f.to
      BY <1>4, <2>2 DEF IInv, TypeOK
    <3>2. f.to = "SENT" => bankRef'[q] = Codigo(KeyOf[q])
      <4>1. Codigo(KeyOf[q]) # NoRef
        BY KeysAssumption, NullsAssumption DEF Codigo, Refs
      <4> QED BY <1>1, <1>4, <2>2, <4>1 DEF WriteOK, Coalesce, IInv, TypeOK
    <3>3. f.to \in {"APPROVED", "ON_HOLD"} => q \in granted'
      BY <1>1, <1>4, <2>2 DEF WriteOK
    <3>4. Vouched(q, trail[q])
      BY DEF IInv, RowOK
    <3> QED BY <1>1, <1>4, <2>2, <3>1, <3>2, <3>3, <3>4 DEF RowOK, WriteOK, bank, log
  <2> QED BY <2>1, <2>2
<1>7. BankOK'
  BY <1>3, <1>4 DEF IInv, BankOK, Ordered, Grows, bank
<1>8. PICK h \in Frames : h = g
  BY <1>2
<1>9. FrameOK(h)'
  <2>1. FrameOK(h)
    BY <1>2, <1>8
  <2> QED BY <1>3, <2>1, FrameMonotone
<1>10. JobsOK' /\ frame' = [frame EXCEPT ![a] = h]
  BY <1>3, <1>4, <1>8, JobsKept
<1> QED BY <1>3, <1>5, <1>6, <1>7, <1>9, <1>10, StepLemma

(* Inserting the event, or losing it.                                      *)
LEMMA LogSteps ==
  ASSUME IInv, NEW a \in Actors, LogEvent(a) \/ EventFails(a)
  PROVE  IInv'
<1> DEFINE f == frame[a]
<1>1. f \in Frames /\ FrameOK(f) /\ f.at = "log" /\ f.pay \in Payments /\ f.to \in Status
  BY DEF LogEvent, EventFails, IInv, TypeOK, FrameOK
<1>2. AfterEvent(f) \in Frames /\ FrameOK(AfterEvent(f))
  BY <1>1, AfterEventOK
<1>3. CASE LogEvent(a)
  <2>1. Grows /\ UNCHANGED <<db, jobs, bank>>
    BY <1>3 DEF LogEvent, Grows, db, bank
  <2>2. frame' = [frame EXCEPT ![a] = AfterEvent(f)]
    BY <1>3 DEF LogEvent
  <2>3. trail' \in [Payments -> Status] /\ notified' \in [Payments -> 0..2]
    <3>1. notified[f.pay] \in 0..2
      BY <1>1 DEF IInv, TypeOK
    <3>2. (IF f.op = "webhook" /\ notified[f.pay] < 2
             THEN notified[f.pay] + 1 ELSE notified[f.pay]) \in 0..2
      BY <3>1
    <3> QED BY <1>1, <1>3, <3>2 DEF LogEvent, IInv, TypeOK
  <2>4. TypeOK'
    BY <1>2, <1>3, <2>1, <2>2, <2>3 DEF LogEvent, IInv, TypeOK, db, jobs, bank
  <2>5. BankOK'
    BY <2>1 DEF IInv, BankOK, Ordered, db, bank
  <2>6. PICK h \in Frames : h = AfterEvent(f)
    BY <1>2
  <2>7. FrameOK(h)'
    <3>1. FrameOK(h)
      BY <1>2, <2>6
    <3> QED BY <2>1, <3>1, FrameMonotone
  <2>8. frame' = [frame EXCEPT ![a] = h]
    BY <2>2, <2>6
  <2>9. ASSUME NEW q \in Payments PROVE RowOK(q)'
    <3>1. trail'[q] = IF q = f.pay THEN f.to ELSE trail[q]
      BY <1>3 DEF LogEvent, IInv, TypeOK
    <3>2. RowOK(q) /\ (q = f.pay => Vouched(q, f.to))
      BY <1>1 DEF IInv, FrameOK
    <3> QED BY <2>1, <3>1, <3>2 DEF RowOK, db, bank
  <2> QED BY <2>1, <2>4, <2>5, <2>7, <2>8, <2>9, JobsKept, StepLemma
<1>4. CASE EventFails(a)
  <2> DEFINE g == IF f.op \in {"operator", "approve"} THEN IdleFrame ELSE AfterEvent(f)
  <2>1. g \in Frames /\ FrameOK(g)
    BY <1>2, IdleFrameOK
  <2>2. faults' \in 0..MaxFaults
    BY <1>4, BoundsAssumption DEF EventFails, Fault, IInv, TypeOK
  <2>3. frame' = [frame EXCEPT ![a] = g] /\ UNCHANGED <<db, log, jobs, bank>>
    BY <1>4 DEF EventFails
  <2> QED BY <2>1, <2>2, <2>3, FrameStep
<1> QED BY <1>3, <1>4

(* The reschedule transaction stores PREVALIDATED, which vouches for no    *)
(* bank and no approver.                                                   *)
LEMMA RescheduleCommitStep ==
  ASSUME IInv, NEW a \in Actors, RescheduleCommit(a)
  PROVE  IInv'
<1> DEFINE p == frame[a].pay
<1>1. /\ p \in Payments
      /\ status' = [status EXCEPT ![p] = "PREVALIDATED"]
      /\ trail'  = [trail EXCEPT ![p] = "PREVALIDATED"]
      /\ frame'  = [frame EXCEPT ![a] = IdleFrame]
      /\ UNCHANGED <<bankRef, granted, notified, jobs, bank, faults>>
  BY DEF RescheduleCommit, IInv, FrameOK
<1>2. Grows
  BY <1>1 DEF Grows, bank
<1>3. TypeOK'
  BY <1>1, IdleFrameOK DEF IInv, TypeOK, Status, jobs, bank
<1>4. \A q \in Payments : RowOK(q)'
  BY <1>1 DEF IInv, TypeOK, RowOK, bank
<1>5. BankOK' /\ JobsOK'
  BY <1>1, <1>2, JobsKept DEF IInv, BankOK, Ordered, bank
<1>6. FrameOK(IdleFrame)'
  BY <1>2, IdleFrameOK, FrameMonotone
<1> QED BY <1>1, <1>2, <1>3, <1>4, <1>5, <1>6, IdleFrameOK, StepLemma

(* A crash or a failed update: the attempt is over, the loop goes on, or   *)
(* (the prevalidation's ignored errors) the event is inserted all the same.*)
LEMMA FaultSteps ==
  ASSUME IInv, NEW a \in Actors, Crash(a) \/ UpdateFails(a)
  PROVE  IInv'
<1> DEFINE f == frame[a]
<1>0. f \in Frames /\ FrameOK(f) /\ faults' \in 0..MaxFaults /\ UNCHANGED <<db, log, bank>>
  <2>1. Fault /\ UNCHANGED <<db, log, bank>>
    BY DEF Crash, UpdateFails
  <2>2. faults' \in 0..MaxFaults
    BY <2>1, BoundsAssumption DEF Fault, IInv, TypeOK
  <2> QED BY <2>1, <2>2 DEF IInv, TypeOK
<1>1. CASE GiveUp(a)
  <2>1. CASE f.op \in JobKinds
    BY <1>0, <1>1, <2>1, RetryStep DEF GiveUp
  <2>2. CASE f.op \notin JobKinds
    BY <1>0, <1>1, <2>2, IdleFrameOK, FrameStep DEF GiveUp
  <2> QED BY <2>1, <2>2
<1>2. CASE UpdateFails(a) /\ IgnoresUpdateError(f)
  <2> DEFINE g == [f EXCEPT !.at = "log"]
  <2>1. f.at = "write" /\ frame' = [frame EXCEPT ![a] = g] /\ UNCHANGED jobs
    BY <1>2 DEF UpdateFails, IgnoresUpdateError
  <2>2. g \in Frames /\ FrameOK(g)
    BY <1>0, <2>1 DEF Frames, FrameOK, WriteOK, Phases
  <2> QED BY <1>0, <2>1, <2>2, FrameStep
<1>3. CASE UpdateFails(a) /\ ~IgnoresUpdateError(f) /\ f.op = "reconcile"
  <2>1. frame' = [frame EXCEPT ![a] = Goto(f, "next")] /\ UNCHANGED jobs
    BY <1>3 DEF UpdateFails, IgnoresUpdateError
  <2>2. Goto(f, "next") \in Frames /\ FrameOK(Goto(f, "next"))
    BY <1>0, GotoOK DEF Phases
  <2> QED BY <1>0, <2>1, <2>2, FrameStep
<1>4. UpdateFails(a) /\ ~IgnoresUpdateError(f) /\ f.op # "reconcile" => GiveUp(a)
  BY DEF UpdateFails
<1>5. Crash(a) => GiveUp(a)
  BY DEF Crash
<1> QED BY <1>1, <1>2, <1>3, <1>4, <1>5

-----------------------------------------------------------------------------
(* The invariant holds at the start and every step keeps it.               *)

LEMMA InitOK == Init => IInv
<1> SUFFICES ASSUME Init PROVE IInv
  OBVIOUS
<1>1. TypeOK
  BY IdleFrameOK, BoundsAssumption
     DEF Init, TypeOK, Status, MaybeRef, JobStates, Verdicts
<1>2. \A a \in Actors : FrameOK(frame[a])
  BY IdleFrameOK DEF Init
<1> QED BY <1>1, <1>2 DEF Init, IInv, RowOK, BankOK, JobsOK

LEMMA StutterOK ==
  ASSUME IInv, UNCHANGED vars
  PROVE  IInv'
<1>1. /\ status' = status /\ bankRef' = bankRef /\ trail' = trail
      /\ notified' = notified /\ granted' = granted /\ job' = job
      /\ attempt' = attempt /\ frame' = frame /\ orders' = orders
      /\ verdict' = verdict /\ faults' = faults
  BY DEF vars
<1>2. TypeOK'
  BY <1>1 DEF IInv, TypeOK
<1>3. \A p \in Payments : RowOK(p)'
  BY <1>1 DEF IInv, RowOK
<1>4. \A a \in Actors : FrameOK(frame[a])'
  BY <1>1 DEF IInv, FrameOK, WriteOK
<1>5. BankOK' /\ JobsOK'
  BY <1>1 DEF IInv, BankOK, Ordered, JobsOK
<1> QED BY <1>2, <1>3, <1>4, <1>5 DEF IInv

LEMMA NextOK ==
  ASSUME IInv, Next
  PROVE  IInv'
<1>1. ASSUME NEW a \in Actors, Request(a) PROVE IInv'
  BY <1>1, OperatorSteps, ApprovalSteps, VerdictSteps DEF Request
<1>2. ASSUME NEW a \in Actors, Work(a) PROVE IInv'
  BY <1>2, JobStarts, VerdictSteps DEF Work
<1>3. ASSUME NEW a \in Actors, Step(a) PROVE IInv'
  <2>1. CASE WriteStatus(a) \/ LogEvent(a)
    BY <2>1, WriteStep, LogSteps
  <2>2. CASE RescheduleCommit(a)
    BY <2>2, RescheduleCommitStep
  <2>3. CASE RescheduleConflict(a)
    BY <2>3, FrameStep, IdleFrameOK DEF RescheduleConflict, IInv, TypeOK
  <2>4. CASE ApproveNext(a) \/ LoopDone(a)
    BY <2>4, ApprovalSteps
  <2>5. CASE GatewayVerdict(a) \/ GatewayFails(a)
    BY <2>5, GatewaySteps
  <2>6. CASE SendPix(a) \/ SendPixFails(a)
    BY <2>6, SendPixStep, SendPixFailsStep
  <2>7. CASE Complete(a)
    BY <2>7, CompleteStep
  <2>8. CASE PollSkips(a) \/ \E p \in Payments : Poll(a, p)
    BY <2>8, VerdictSteps
  <2> QED BY <1>3, <2>1, <2>2, <2>3, <2>4, <2>5, <2>6, <2>7, <2>8 DEF Step
<1>4. ASSUME NEW a \in Actors, Failure(a) PROVE IInv'
  BY <1>4, FaultSteps, LogSteps DEF Failure
<1> QED BY <1>1, <1>2, <1>3, <1>4, EnqueueStep, BankDecidesStep, AuditStep DEF Next, Actors

(* The inductive invariant of the design: every stored or intended status  *)
(* is one the bank, or an approver, vouches for.                           *)
THEOREM Justified == Spec => []IInv
<1>1. IInv /\ [Next]_vars => IInv'
  BY NextOK, StutterOK
<1> QED BY InitOK, <1>1, PTL DEF Spec

(* Type correctness of the rows, the frames and the job counters: in       *)
(* particular no job is attempted more than MaxAttempts times (River).     *)
THEOREM TypeCorrect == Spec => []TypeOK
<1>1. IInv => TypeOK
  BY DEF IInv
<1> QED BY Justified, <1>1, PTL

(* A payment stored SETTLED was paid by the bank, one stored FAILED was    *)
(* refused: for SubmitPixWorker, HandleItau and ReconcileWorker together.  *)
THEOREM BankAgreement == Spec => []StatusAgreesWithBank
<1>1. IInv => StatusAgreesWithBank
  BY DEF IInv, RowOK, StatusAgreesWithBank
<1> QED BY Justified, <1>1, PTL

(* A SENT payment can always be found again by the bank's reference.       *)
THEOREM SentTraceable == Spec => []SentIsTraceable
<1>1. IInv => SentIsTraceable
  BY DEF IInv, RowOK, SentIsTraceable
<1> QED BY Justified, <1>1, PTL

(* However often SubmitPixWorker runs, and however its answers are lost,   *)
(* the bank holds at most one order of a payment.                          *)
THEOREM NoDoubleOrder == Spec => []OneOrderPerPayment
<1>1. IInv => OneOrderPerPayment
  <2> SUFFICES ASSUME IInv, NEW o1 \in orders, NEW o2 \in orders, o1[2] = o2[2]
               PROVE  o1 = o2
    BY DEF OneOrderPerPayment
  <2>1. o1 \in Keys \X Payments /\ o2 \in Keys \X Payments
    BY DEF IInv, TypeOK
  <2>2. o1[1] = o2[1]
    BY DEF IInv, BankOK
  <2> QED BY <2>1, <2>2
<1> QED BY Justified, <1>1, PTL

(* No money is ordered for a payment that no run approval let through.     *)
THEOREM OrdersGranted == Spec => []OrderWasGranted
<1>1. IInv => OrderWasGranted
  BY DEF IInv, BankOK, OrderWasGranted
<1> QED BY Justified, <1>1, PTL

-----------------------------------------------------------------------------
(* The refinement: which step of Payout each of ours is.                   *)

LEMMA QuietStep ==
  ASSUME UNCHANGED <<status, granted, orders, verdict>>
  PROVE  UNCHANGED P!vars
BY DEF P!vars, Claim

(* An UPDATE of a row withdraws, repeats or makes a claim, or grants.      *)
LEMMA WriteRefines ==
  ASSUME IInv, NEW a \in Actors, WriteStatus(a)
  PROVE  P!Next
<1> DEFINE f == frame[a]
           p == f.pay
<1>1. f \in Frames /\ FrameOK(f) /\ WriteOK(f) /\ f.at = "write" /\ p \in Payments
  BY DEF WriteStatus, IInv, TypeOK, FrameOK
<1>2. /\ status' = [status EXCEPT ![p] = f.to]
      /\ granted' = IF f.op = "approve" THEN granted \cup {p} ELSE granted
      /\ orders' = orders /\ verdict' = verdict
      /\ status \in [Payments -> Status]
  BY DEF WriteStatus, bank, IInv, TypeOK
<1>3. ASSUME NEW c, c = (CASE f.to = "SETTLED" -> "paid"
                           [] f.to = "FAILED"  -> "refused"
                           [] OTHER -> "none")
      PROVE  Claim' = [Claim EXCEPT ![p] = c]
  BY <1>1, <1>2, <1>3 DEF Claim
<1>4. CASE f.op = "approve"
  <2>1. f.to = "APPROVED"
    BY <1>1, <1>4 DEF FrameOK
  <2>2. P!Grant(p)
    BY <1>2, <1>3, <1>4, <2>1 DEF P!Grant
  <2> QED BY <1>1, <2>2 DEF P!Next
<1>5. CASE f.op # "approve" /\ f.to \in {"SETTLED", "FAILED"}
  <2>1. KeyOf[p] \in Keys
    BY <1>1, KeysAssumption
  <2>2. /\ f.to = "SETTLED" => verdict[KeyOf[p]] = "paid"
        /\ f.to = "FAILED"  => verdict[KeyOf[p]] = "refused"
    BY <1>1 DEF WriteOK
  <2>3. PICK q \in Payments : <<KeyOf[p], q>> \in orders
    BY <1>5, <2>1, <2>2 DEF IInv, BankOK, Ordered
  <2>4. q = p
    BY <1>1, <2>3, KeysAssumption DEF IInv, BankOK
  <2>5. Claim' = [Claim EXCEPT ![p] = verdict[KeyOf[p]]]
    BY <1>3, <1>5, <2>2
  <2>6. P!Report(p)
    BY <1>2, <1>5, <2>2, <2>3, <2>4, <2>5 DEF P!Report, P!Outcomes
  <2> QED BY <1>1, <2>6 DEF P!Next
<1>6. CASE f.op # "approve" /\ f.to \notin {"SETTLED", "FAILED"}
  <2>1. P!Withdraw(p)
    BY <1>2, <1>3, <1>6 DEF P!Withdraw
  <2> QED BY <1>1, <2>1 DEF P!Next
<1> QED BY <1>4, <1>5, <1>6

(* The bank's side of a submission orders the payment, or nothing new.     *)
LEMMA OrderRefines ==
  ASSUME IInv, NEW p \in granted, BankAccepts(KeyOf[p], p), UNCHANGED db
  PROVE  P!Next \/ UNCHANGED P!vars
<1>1. p \in Payments
  BY DEF IInv, TypeOK
<1>2. CASE Ordered(KeyOf[p])
  BY <1>2, QuietStep DEF BankAccepts, bank, db
<1>3. CASE ~Ordered(KeyOf[p])
  <2>1. \A o \in orders : o[1] # KeyOf[p] /\ o[2] # p
    <3> SUFFICES ASSUME NEW o \in orders PROVE o[1] # KeyOf[p] /\ o[2] # p
      OBVIOUS
    <3>1. PICK k \in Keys, q \in Payments : o = <<k, q>>
      BY DEF IInv, TypeOK
    <3> QED BY <1>1, <1>3, <3>1 DEF Ordered, IInv, BankOK
  <2>2. P!Order(p)
    BY <1>3, <2>1 DEF BankAccepts, P!Order, db, Claim
  <2> QED BY <1>1, <2>2 DEF P!Next
<1> QED BY <1>2, <1>3

LEMMA StepRefines ==
  ASSUME IInv, [Next]_vars
  PROVE  P!Next \/ UNCHANGED P!vars
<1>1. CASE UNCHANGED vars
  BY <1>1, QuietStep DEF vars
<1>2. ASSUME NEW a \in Actors, Request(a) PROVE UNCHANGED P!vars
  BY <1>2, QuietStep DEF Request, HoldPayment, UnholdPayment, CancelPayment, RejectPayment,
     TransitionPayment, ReschedulePayment, ApproveItems, HandleItau, db, bank
<1>3. ASSUME NEW a \in Actors, Work(a) PROVE UNCHANGED P!vars
  BY <1>3, QuietStep DEF Work, Prevalidate, SubmitPix, Reconcile, db, bank
<1>4. ASSUME NEW a \in Actors, Failure(a) PROVE UNCHANGED P!vars
  BY <1>4, QuietStep DEF Failure, Crash, UpdateFails, EventFails, db, bank
<1>5. ASSUME NEW kind, NEW p, Enqueue(kind, p) PROVE UNCHANGED P!vars
  BY <1>5, QuietStep DEF Enqueue, db, bank
<1>6. ASSUME NEW k \in Keys, BankDecides(k) PROVE P!Next
  <2>1. P!Decide(k)
    BY <1>6 DEF BankDecides, Ordered, P!Decide, P!Outcomes, db, Claim
  <2> QED BY <2>1 DEF P!Next
<1>7. ASSUME NEW a \in Actors, Step(a) PROVE P!Next \/ UNCHANGED P!vars
  <2>1. CASE WriteStatus(a)
    BY <2>1, WriteRefines
  <2>2. CASE RescheduleCommit(a)
    <3> DEFINE p == frame[a].pay
    <3>1. p \in Payments
      BY <2>2 DEF RescheduleCommit, IInv, FrameOK
    <3>2. Claim' = [Claim EXCEPT ![p] = "none"]
      BY <2>2, <3>1 DEF RescheduleCommit, IInv, TypeOK, Claim
    <3>3. P!Withdraw(p)
      BY <2>2, <3>2 DEF RescheduleCommit, P!Withdraw, bank
    <3> QED BY <3>1, <3>3 DEF P!Next
  <2>3. CASE SendPix(a) \/ SendPixFails(a)
    <3>1. frame[a].pay \in granted
      BY <2>3 DEF SendPix, SendPixFails, IInv, FrameOK
    <3>2. /\ UNCHANGED db
          /\ BankAccepts(KeyOf[frame[a].pay], frame[a].pay) \/ UNCHANGED bank
      BY <2>3 DEF SendPix, SendPixFails, SendKey
    <3>3. CASE UNCHANGED bank
      BY <3>2, <3>3, QuietStep DEF db, bank
    <3> QED BY <3>1, <3>2, <3>3, OrderRefines
  <2>4. CASE \/ LogEvent(a) \/ RescheduleConflict(a) \/ ApproveNext(a) \/ LoopDone(a)
             \/ GatewayVerdict(a) \/ GatewayFails(a) \/ Complete(a) \/ PollSkips(a)
             \/ \E p \in Payments : Poll(a, p)
    BY <2>4, QuietStep DEF LogEvent, RescheduleConflict, ApproveNext, LoopDone,
       GatewayVerdict, GatewayFails, Complete, PollSkips, Poll, db, bank
  <2> QED BY <1>7, <2>1, <2>2, <2>3, <2>4 DEF Step
<1>8. ASSUME NEW S, SubmitToBank(S) PROVE UNCHANGED P!vars
  BY <1>8, QuietStep DEF SubmitToBank, db, bank
<1> QED BY <1>1, <1>2, <1>3, <1>4, <1>5, <1>6, <1>7, <1>8 DEF Next, Actors

(* The implementation theorem: rows, goroutines, jobs, retries, crashes    *)
(* and both verdict paths together keep the promise of module Payout.      *)
THEOREM Refinement == Spec => ImplementsPayout
<1>1. Init => P!Init
  BY DEF Init, P!Init, Claim
<1>2. IInv /\ [Next]_vars => P!Next \/ UNCHANGED P!vars
  BY StepRefines
<1> QED BY Justified, <1>1, <1>2, PTL DEF Spec, ImplementsPayout, P!Spec
=============================================================================
