---------------------------- MODULE RunApproval ----------------------------
(***************************************************************************)
(* Payment runs: operators (API goroutines) create runs, attach and detach *)
(* payments, approve a run, submit it to the bank and reschedule payments, *)
(* while a cron job groups whatever is PREVALIDATED into a new run.  A run *)
(* is three tables: its own row, its items and the rows of its payments.   *)
(* A request touches them one statement after the other; only the submit   *)
(* and the reschedule use a transaction.  Event inserts are left to module *)
(* PaymentLifecycle.                                                       *)
(***************************************************************************)
EXTENDS PaymentStatus, Naturals, FiniteSets

CONSTANTS
  Payments,
  Runs,       \* run ids: a bound on how many runs a behaviour creates
  Operators,  \* concurrent API requests
  Crons,      \* worker slots that may run the grouping job
  CreatedAt,  \* payments.created_at
  ListLimit,  \* rows the grouping job reads (1000)
  Endpoints,  \* the operations this instance exercises
  MaxFaults,  \* bound: crashes and failed statements in a behaviour
  NoRun, NoPay

Actors == Operators \cup Crons

ASSUME RunActorsAssumption == Operators \cap Crons = {}
ASSUME RunNullsAssumption == NoRun \notin Runs /\ NoPay \notin Payments
ASSUME RunBoundsAssumption == MaxFaults \in Nat /\ ListLimit \in Nat
ASSUME CreatedAtAssumption ==
  /\ CreatedAt \in [Payments -> Nat]
  /\ \A p, q \in Payments : CreatedAt[p] = CreatedAt[q] => p = q

VARIABLES
  status,    \* payments.status
  runStatus, \* payment_runs.status; "NONE": no such row
  itemOf,    \* payment_run_items: UNIQUE(payment_id) makes it a function
  counters,  \* payments that total_items, pix_count, ted_count and total_amount add up
  approved,  \* history: payments a run's approval loop stored APPROVED
  submitted, \* commits of SubmitToBank (counted up to 2)
  disturbed, \* history: two requests overlapped, or one failed
  frame,     \* what each goroutine is doing: its locals
  faults

vars == <<status, runStatus, itemOf, counters, approved, submitted, disturbed, frame, faults>>
tables == <<status, runStatus, itemOf, counters>>
history == <<approved, submitted, disturbed>>

Ops == {"none", "attach", "detach", "approve", "reschedule", "operator", "group"}
Phases == {"idle", "payment", "insert", "delete", "list", "next", "update",
           "run", "counters", "check", "commit", "create"}

Frames ==
  [ op : Ops, at : Phases, run : Runs \cup {NoRun}, pay : Payments \cup {NoPay},
    to : Status, items : SUBSET Payments, todo : SUBSET Payments ]

IdleFrame ==
  [op |-> "none", at |-> "idle", run |-> NoRun, pay |-> NoPay,
   to |-> "RECEIVED", items |-> {}, todo |-> {}]

TypeOK ==
  /\ status    \in [Payments -> Status]
  /\ runStatus \in [Runs -> RunStatus \cup {"NONE"}]
  /\ itemOf    \in [Payments -> Runs \cup {NoRun}]
  /\ counters  \in [Runs -> SUBSET Payments]
  /\ approved  \in [Runs -> SUBSET Payments]
  /\ submitted \in [Runs -> 0..2]
  /\ disturbed \in BOOLEAN
  /\ frame     \in [Actors -> Frames]
  /\ faults    \in 0..MaxFaults

\* Payments that passed the prevalidation; no runs yet.
Init ==
  /\ status    = [p \in Payments |-> "PREVALIDATED"]
  /\ runStatus = [r \in Runs |-> "NONE"]
  /\ itemOf    = [p \in Payments |-> NoRun]
  /\ counters  = [r \in Runs |-> {}]
  /\ approved  = [r \in Runs |-> {}]
  /\ submitted = [r \in Runs |-> 0]
  /\ disturbed = FALSE
  /\ frame     = [a \in Actors |-> IdleFrame]
  /\ faults    = 0

-----------------------------------------------------------------------------
(* The statements.  Each is atomic, and most test nothing but the id.      *)

GetPayment(p) == status[p]

\* ORDER BY created_at DESC LIMIT: the newest rows, grouped already or not.
ListPaymentsByStatus(s, limit) ==
  {p \in Payments : status[p] = s /\
     Cardinality({q \in Payments : status[q] = s /\ CreatedAt[q] > CreatedAt[p]}) < limit}

UpdatePaymentStatus(p, to) == status' = [status EXCEPT ![p] = to]

GetPaymentRun(r) == runStatus[r]

InsertPaymentRun(r) == runStatus' = [runStatus EXCEPT ![r] = "OPEN"]

UpdatePaymentRunStatus(r, to) == runStatus' = [runStatus EXCEPT ![r] = to]

UpdatePaymentRunCounters(r, items) == counters' = [counters EXCEPT ![r] = items]

ListRunItems(r) == {p \in Payments : itemOf[p] = r}

\* UNIQUE (payment_id) refuses a second item of the payment.
AttachPaymentToRun(p, r) ==
  itemOf' = IF itemOf[p] = NoRun THEN [itemOf EXCEPT ![p] = r] ELSE itemOf

DetachPaymentFromRun(p, r) ==
  itemOf' = IF itemOf[p] = r THEN [itemOf EXCEPT ![p] = NoRun] ELSE itemOf

-----------------------------------------------------------------------------
(* The goroutines.                                                         *)

Idle(a) == frame[a].at = "idle"
At(a, op, phase) == frame[a].op = op /\ frame[a].at = phase

\* A request passes its first test and goes on; a request that fails it does nothing.
Begin(a, f) ==
  /\ Idle(a)
  /\ frame' = [frame EXCEPT ![a] = f]
  /\ disturbed' = (disturbed \/ \E b \in Actors : ~Idle(b))
  /\ UNCHANGED <<tables, approved, submitted, faults>>

Go(a, phase) ==
  /\ frame' = [frame EXCEPT ![a].at = phase]
  /\ UNCHANGED <<tables, history, faults>>

Finish(a) == frame' = [frame EXCEPT ![a] = IdleFrame]

\* The error answers: conflict, not found, 500.
Refuse(a) == Finish(a) /\ UNCHANGED <<tables, history, faults>>

-----------------------------------------------------------------------------
(* Runs and their items.                                                   *)

CreateRun(r) ==
  /\ "create" \in Endpoints
  /\ runStatus[r] = "NONE"
  /\ InsertPaymentRun(r)
  /\ UNCHANGED <<status, itemOf, counters, history, frame, faults>>

AttachPayment(a, r, p) ==
  /\ "attach" \in Endpoints
  /\ GetPaymentRun(r) = "OPEN"
  /\ Begin(a, [IdleFrame EXCEPT !.op = "attach", !.at = "payment", !.run = r, !.pay = p])

AttachChecksPayment(a) ==
  /\ At(a, "attach", "payment")
  /\ IF GetPayment(frame[a].pay) = "PREVALIDATED" THEN Go(a, "insert") ELSE Refuse(a)

AttachInserts(a) ==
  /\ At(a, "attach", "insert")
  /\ AttachPaymentToRun(frame[a].pay, frame[a].run)
  /\ Finish(a)
  /\ UNCHANGED <<status, runStatus, counters, history, faults>>

DetachPayment(a, r, p) ==
  /\ "detach" \in Endpoints
  /\ GetPaymentRun(r) = "OPEN"
  /\ Begin(a, [IdleFrame EXCEPT !.op = "detach", !.at = "delete", !.run = r, !.pay = p])

DetachDeletes(a) ==
  LET f == frame[a] IN
  /\ At(a, "detach", "delete")
  /\ DetachPaymentFromRun(f.pay, f.run)
  /\ Finish(a)
  /\ UNCHANGED <<status, runStatus, counters, history, faults>>

-----------------------------------------------------------------------------
(* Approval: read the run, list its items, move them one by one, then      *)
(* store the run's status and its counters.                                *)

ApproveRun(a, r) ==
  /\ "approve" \in Endpoints
  /\ RunCanTransition(GetPaymentRun(r), "APPROVED")
  /\ Begin(a, [IdleFrame EXCEPT !.op = "approve", !.at = "list", !.run = r])

ApproveLists(a) ==
  /\ At(a, "approve", "list")
  /\ LET items == ListRunItems(frame[a].run) IN
     frame' = [frame EXCEPT ![a].at = "next", ![a].items = items, ![a].todo = items]
  /\ UNCHANGED <<tables, history, faults>>

\* One item that is not PREVALIDATED ends the request where it stands.
ApproveNext(a) ==
  /\ At(a, "approve", "next")
  /\ \E p \in frame[a].todo :
       IF GetPayment(p) = "PREVALIDATED"
         THEN frame' = [frame EXCEPT ![a].at = "update", ![a].pay = p]
         ELSE Finish(a)
  /\ UNCHANGED <<tables, history, faults>>

ApproveStores(a) ==
  LET f == frame[a] IN
  /\ At(a, "approve", "update")
  /\ UpdatePaymentStatus(f.pay, "APPROVED")
  /\ approved' = [approved EXCEPT ![f.run] = @ \cup {f.pay}]
  /\ frame'    = [frame EXCEPT ![a].at = "next", ![a].todo = @ \ {f.pay}]
  /\ UNCHANGED <<runStatus, itemOf, counters, submitted, disturbed, faults>>

\* WHERE id = $1, whatever the run is by now.
ApproveStoresRun(a) ==
  /\ At(a, "approve", "next") /\ frame[a].todo = {}
  /\ UpdatePaymentRunStatus(frame[a].run, "APPROVED")
  /\ frame' = [frame EXCEPT ![a].at = "counters"]
  /\ UNCHANGED <<status, itemOf, counters, history, faults>>

ApproveStoresCounters_Relists(a) == \* mutant: the run's items are read again for its totals
  /\ At(a, "approve", "counters")
  /\ UpdatePaymentRunCounters(frame[a].run, ListRunItems(frame[a].run))
  /\ Finish(a)
  /\ UNCHANGED <<status, runStatus, itemOf, history, faults>>

ApproveStoresCounters(a) ==
  /\ At(a, "approve", "counters")
  /\ UpdatePaymentRunCounters(frame[a].run, frame[a].items)
  /\ Finish(a)
  /\ UNCHANGED <<status, runStatus, itemOf, history, faults>>

SubmitToBank_Unguarded(r) == \* mutant: AND status='APPROVED' dropped
  /\ "submit" \in Endpoints
  /\ runStatus[r] \notin {"NONE", "OPEN"}
  /\ runStatus' = [runStatus EXCEPT ![r] = "EXECUTING"]
  /\ submitted' = [submitted EXCEPT ![r] = IF @ < 2 THEN @ + 1 ELSE @]
  /\ UNCHANGED <<status, itemOf, counters, approved, disturbed, frame, faults>>

\* The conditional UPDATE, alone in its transaction with the audit events.
SubmitToBank(r) ==
  /\ "submit" \in Endpoints
  /\ runStatus[r] = "APPROVED"
  /\ runStatus' = [runStatus EXCEPT ![r] = "EXECUTING"]
  /\ submitted' = [submitted EXCEPT ![r] = IF @ < 2 THEN @ + 1 ELSE @]
  /\ UNCHANGED <<status, itemOf, counters, approved, disturbed, frame, faults>>

-----------------------------------------------------------------------------
(* Single payments: hold, unhold, cancel, reject and reschedule.           *)

RequiredFrom(to) ==
  CASE to = "ON_HOLD"  -> {"APPROVED"}
    [] to = "APPROVED" -> {"ON_HOLD"}
    [] to \in {"CANCELED", "REJECTED"} -> Status

TransitionPayment(a, p, to) ==
  /\ to \in Endpoints
  /\ GetPayment(p) \in RequiredFrom(to)
  /\ CanTransition(GetPayment(p), to)
  /\ Begin(a, [IdleFrame EXCEPT !.op = "operator", !.at = "update", !.pay = p, !.to = to])

TransitionStores(a) ==
  /\ At(a, "operator", "update")
  /\ UpdatePaymentStatus(frame[a].pay, frame[a].to)
  /\ Finish(a)
  /\ UNCHANGED <<runStatus, itemOf, counters, history, faults>>

Reschedulable ==
  {"RECEIVED", "VALIDATED_LOCAL", "PREVALIDATED", "ON_HOLD", "UNDER_REVIEW"}

ReschedulePayment(a, p) ==
  /\ "reschedule" \in Endpoints
  /\ GetPayment(p) \in Reschedulable
  /\ Begin(a, [IdleFrame EXCEPT !.op = "reschedule", !.at = "check", !.pay = p])

RescheduleChecksRun_Never(a) == \* mutant: the run's status is not looked at
  /\ At(a, "reschedule", "check")
  /\ Go(a, "commit")

\* The transaction's SELECT: conflict if the payment's run is past OPEN.
RescheduleChecksRun(a) ==
  LET r == itemOf[frame[a].pay] IN
  /\ At(a, "reschedule", "check")
  /\ IF r # NoRun /\ runStatus[r] \in {"APPROVED", "EXECUTING", "PARTIALLY_SETTLED"}
       THEN Refuse(a)
       ELSE Go(a, "commit")

\* Its DELETE, UPDATE and event, visible at the commit (READ COMMITTED).
RescheduleCommits(a) ==
  LET p == frame[a].pay IN
  /\ At(a, "reschedule", "commit")
  /\ itemOf' = [itemOf EXCEPT ![p] = NoRun]
  /\ status' = [status EXCEPT ![p] = "PREVALIDATED"]
  /\ Finish(a)
  /\ UNCHANGED <<runStatus, counters, history, faults>>

-----------------------------------------------------------------------------
(* The grouping job, every five minutes.                                   *)

AutoGroup(a) ==
  /\ "group" \in Endpoints
  /\ ListPaymentsByStatus("PREVALIDATED", ListLimit) # {}
  /\ Begin(a, [IdleFrame EXCEPT !.op = "group", !.at = "create",
                                !.todo = ListPaymentsByStatus("PREVALIDATED", ListLimit)])

\* A fresh id.  An empty OPEN run nobody works on stands for the next one, so
\* that the ids (Runs) are not used up by the runs of empty passes.
Fresh(r) ==
  \/ runStatus[r] = "NONE"
  \/ /\ runStatus[r] = "OPEN" /\ ListRunItems(r) = {} /\ approved[r] = {}
     /\ \A a \in Actors : frame[a].run # r

AutoCreatesRun(a) ==
  /\ At(a, "group", "create")
  /\ \E r \in Runs :
       /\ Fresh(r)
       /\ InsertPaymentRun(r)
       /\ frame' = [frame EXCEPT ![a].at = "next", ![a].run = r]
  /\ UNCHANGED <<status, itemOf, counters, history, faults>>

AutoAttaches_OnlyFirst(a) == \* mutant: the loop stops at a failed attach
  /\ At(a, "group", "next")
  /\ \E p \in frame[a].todo :
       /\ AttachPaymentToRun(p, frame[a].run)
       /\ frame' = [frame EXCEPT ![a].todo = IF itemOf[p] = NoRun THEN @ \ {p} ELSE {}]
  /\ UNCHANGED <<status, runStatus, counters, history, faults>>

\* No test of the run or of the payment; a failed insert is skipped.
AutoAttaches(a) ==
  /\ At(a, "group", "next")
  /\ \E p \in frame[a].todo :
       /\ AttachPaymentToRun(p, frame[a].run)
       /\ frame' = [frame EXCEPT ![a].todo = @ \ {p}]
  /\ UNCHANGED <<status, runStatus, counters, history, faults>>

AutoDone(a) ==
  /\ At(a, "group", "next") /\ frame[a].todo = {}
  /\ Refuse(a)

-----------------------------------------------------------------------------
(* A statement fails or the process dies: the request ends where it is.    *)

Fault(a) ==
  /\ faults < MaxFaults
  /\ ~Idle(a)
  /\ Finish(a)
  /\ faults' = faults + 1
  /\ disturbed' = TRUE
  /\ UNCHANGED <<tables, approved, submitted>>

Request(a) ==
  \/ \E r \in Runs : ApproveRun(a, r)
  \/ \E r \in Runs, p \in Payments : AttachPayment(a, r, p) \/ DetachPayment(a, r, p)
  \/ \E p \in Payments : ReschedulePayment(a, p)
  \/ \E p \in Payments, to \in {"ON_HOLD", "APPROVED", "CANCELED", "REJECTED"} :
       TransitionPayment(a, p, to)

Step(a) ==
  \/ AttachChecksPayment(a) \/ AttachInserts(a) \/ DetachDeletes(a)
  \/ ApproveLists(a) \/ ApproveNext(a) \/ ApproveStores(a)
  \/ ApproveStoresRun(a) \/ ApproveStoresCounters(a)
  \/ TransitionStores(a)
  \/ RescheduleChecksRun(a) \/ RescheduleCommits(a)
  \/ AutoCreatesRun(a) \/ AutoAttaches(a) \/ AutoDone(a)

Next ==
  \/ \E r \in Runs : CreateRun(r) \/ SubmitToBank(r)
  \/ \E a \in Operators : Request(a)
  \/ \E a \in Crons : AutoGroup(a)
  \/ \E a \in Actors : Step(a) \/ Fault(a)

Spec == Init /\ [][Next]_vars

\* A goroutine that started goes on; River runs the periodic job again and again.
Fairness ==
  /\ \A a \in Actors : WF_vars(Step(a))
  /\ SF_vars(\E a \in Crons : AutoGroup(a))

FairSpec == Spec /\ Fairness

-----------------------------------------------------------------------------
(* What holds under any interleaving and any fault.                        *)

(* The payments a run's totals count were all stored APPROVED by that      *)
(* run's own approval loop: a total never includes a payment nobody        *)
(* approved (ApproveRun counts what it visits, runs.go).                   *)
CountedWereApproved == \A r \in Runs : counters[r] \subseteq approved[r]

\* What a goroutine's locals rest on: an approval has stored what it has visited,
\* and a run somebody read is still there.
FrameOK(f) ==
  /\ f.at # "idle" /\ f.op \in {"attach", "detach", "reschedule", "operator"} => f.pay \in Payments
  /\ f.at # "idle" /\ f.op \in {"attach", "detach", "approve"} => f.run \in Runs
  /\ f.op = "group" /\ f.at = "next" => f.run \in Runs
  /\ f.run \in Runs => runStatus[f.run] # "NONE"
  /\ f.op = "approve" /\ f.at = "update" => f.pay \in Payments
  /\ f.op = "approve" /\ f.at \in {"next", "update", "counters"} =>
       f.items \ f.todo \subseteq approved[f.run]
  /\ f.op = "approve" /\ f.at = "counters" => f.todo = {}

(* The inductive invariant behind CountedWereApproved; an item always has  *)
(* its run (the foreign key of payment_run_items).                         *)
IInv ==
  /\ TypeOK
  /\ CountedWereApproved
  /\ \A p \in Payments : itemOf[p] # NoRun => runStatus[itemOf[p]] # "NONE"
  /\ \A a \in Actors : FrameOK(frame[a])

-----------------------------------------------------------------------------
(* What the checks in runs.go and handlers/runs.go achieve: they read a    *)
(* row before they write it, so they hold of requests that do not overlap. *)

(* The totals of an approved run are those of its items: neither attach,   *)
(* detach, reschedule nor grouping changes a run once its counters are     *)
(* stored (the purpose of the checks in runs.go).                          *)
TotalsMatchItems ==
  ~disturbed /\ (\A a \in Actors : Idle(a)) =>
    \A r \in Runs : runStatus[r] \in {"APPROVED", "EXECUTING"} => counters[r] = ListRunItems(r)

(* A run is submitted to the bank at most once (handlers/runs.go, the      *)
(* conditional UPDATE of SubmitToBank).                                    *)
SubmittedOnce == ~disturbed => \A r \in Runs : submitted[r] <= 1

\* What a request rests on while no other one overlaps it: its run is still as it
\* read it, and the items it listed are still the run's.
FrameUndisturbed(f) ==
  /\ f.op \in {"attach", "detach"} /\ f.at # "idle" => runStatus[f.run] = "OPEN"
  /\ f.op = "group" /\ f.at = "next" => runStatus[f.run] = "OPEN"
  /\ f.op = "approve" /\ f.at \in {"list", "next", "update"} => runStatus[f.run] = "OPEN"
  /\ f.op = "approve" /\ f.at \in {"next", "update", "counters"} => f.items = ListRunItems(f.run)
  /\ f.op = "reschedule" /\ f.at = "commit" /\ itemOf[f.pay] # NoRun =>
       runStatus[itemOf[f.pay]] \notin {"APPROVED", "EXECUTING"}

CountersDue(r) == \E a \in Actors : At(a, "approve", "counters") /\ frame[a].run = r

RunUndisturbed(r) ==
  /\ submitted[r] <= 1
  /\ runStatus[r] \in {"NONE", "OPEN", "APPROVED"} => submitted[r] = 0
  /\ runStatus[r] \in {"APPROVED", "EXECUTING"} => counters[r] = ListRunItems(r) \/ CountersDue(r)

Undisturbed ==
  /\ \A a, b \in Actors : ~Idle(a) /\ ~Idle(b) => a = b
  /\ \A a \in Actors : FrameUndisturbed(frame[a])
  /\ \A r \in Runs : RunUndisturbed(r)

(* The inductive invariant behind TotalsMatchItems and SubmittedOnce: one  *)
(* request at a time, whose run nobody changes under it but a bank submit  *)
(* between the two last statements of an approval.                         *)
UndisturbedIInv == IInv /\ (~disturbed => Undisturbed)

(* A PREVALIDATED payment outside of any run is grouped, or moves on.      *)
EventuallyGrouped ==
  \A p \in Payments :
    (status[p] = "PREVALIDATED" /\ itemOf[p] = NoRun)
      ~> (status[p] # "PREVALIDATED" \/ itemOf[p] # NoRun)

=============================================================================
