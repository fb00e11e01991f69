------------------------------ MODULE PreAnalysis ------------------------------
(* The rules engine a received payment passes before anybody is asked to     *)
(* approve it: blacklist, limits and duplicates of the client it belongs to. *)
(* A prevalidation job reads one table after another without a transaction,  *)
(* while other payments arrive, other jobs decide, operators cancel and      *)
(* reschedule, administrators change the rules and the date changes.         *)
EXTENDS Integers, FiniteSetsExt

CONSTANTS Payments, Clients,
          Requests,      \* the payments clients send
          LimitSettings, \* the limits administrators set
          RuleSettings,  \* and the duplicate rules
          Documents,     \* the documents they blacklist
          Day, Month,    \* ticks of the clock per day and per month
          MaxTime,       \* bound: ticks
          MaxFaults,     \* bound: failing statements, cancelations and reschedules
          MaxChanges,    \* bound: settings and blacklist entries made
          NoClient, NoPayee, Everyone, NoRow, NoLimits, NoRule

Payee == Documents \cup {NoPayee}
Limits == [daily : Nat, monthly : Nat, single : Nat, approval : Nat]   \* 0: none
Rule == [window : Nat \ {0}, action : {"REVIEW", "REJECT", "ALLOW"}]
Request == [client : Clients \cup {NoClient}, amount : Nat \ {0}, document : Payee, beneficiary : Payee]

Dropped == {"REJECTED", "CANCELED"}
Status == {"RECEIVED", "VALIDATED_LOCAL", "PREVALIDATED", "UNDER_REVIEW"} \cup Dropped
Row == [client : Clients \cup {NoClient}, amount : Nat, document : Payee, beneficiary : Payee,
        created : 0..MaxTime, status : Status]

Rules == {"blacklist", "single", "daily", "dailySum", "monthly", "monthlySum", "duplicate", "find"}
Job == [pc : {"none", "queued", "store", "done"} \cup Rules, read : Limits \cup Rule \cup {NoRow},
        action : {"ALLOW", "REVIEW", "REJECT"}]

ASSUME PreAnalysisAssumption ==
  /\ Requests \subseteq Request
  /\ LimitSettings \subseteq Limits
  /\ RuleSettings \subseteq Rule
  /\ Day \in Nat \ {0} /\ Month \in Nat \ {0}
  /\ MaxTime \in Nat /\ MaxFaults \in Nat /\ MaxChanges \in Nat
  /\ NoClient \notin Clients /\ Everyone \notin Clients
  /\ NoPayee \notin Documents
  /\ NoRow \notin Row /\ NoLimits \notin Limits /\ NoRule \notin Rule

VARIABLES
  payments,   \* the rows: the request, when it was created, its status
  job,        \* each payment's prevalidation: the next statement, what it read, its verdict
  limits,     \* client_limits, one row per client
  rules,      \* duplicate_rules, one row per client
  blacklist,  \* <<client or Everyone, document>>
  now,        \* the clock
  faults, changes,
  judged,     \* when a payment's verdict was stored
  covered,    \* payments whose document was blacklisted when they were received
  retuned,    \* clients whose limits or rule changed when they had payments already
  rescheduled, \* payments a request to reschedule found in a state that allows it
  disturbed   \* payments the rules did not judge alone: canceled before their verdict was stored, a
              \* statement of their job failed, or a reschedule moved them

tables == <<limits, rules, blacklist, changes>>
vars == <<payments, job, limits, rules, blacklist, changes, now, faults, judged, covered, retuned, rescheduled, disturbed>>

NoJob == [pc |-> "none", read |-> NoRow, action |-> "ALLOW"]

Init ==
  /\ payments = [p \in Payments |-> NoRow]
  /\ job = [p \in Payments |-> NoJob]
  /\ limits = [c \in Clients |-> NoLimits]
  /\ rules = [c \in Clients |-> NoRule]
  /\ blacklist = {}
  /\ now = 0
  /\ faults = 0 /\ changes = 0
  /\ judged = [p \in Payments |-> 0]
  /\ covered = {} /\ retuned = {} /\ rescheduled = {} /\ disturbed = {}

Rows == {p \in Payments : payments[p] # NoRow}
Of(c) == {p \in Rows : payments[p].client = c}

-----------------------------------------------------------------------------
(* The queries.                                                              *)

\* Mutant: entries without a client_id are overlooked (client_id = $2).
CheckBlacklist_OwnOnly(document, c) == {e \in blacklist : e[2] = document /\ e[1] = c}

CheckBlacklist(document, c) == {e \in blacklist : e[2] = document /\ e[1] \in {Everyone, c}}

\* Mutant: only what was let through is counted.
Counted_OnlyPassed(c) == {p \in Of(c) : payments[p].status = "PREVALIDATED"}

Counted(c) == {p \in Of(c) : payments[p].status \notin Dropped}
Total(S) == MapThenSumSet(LAMBDA p : payments[p].amount, S)

\* created_at >= CURRENT_DATE, and the same for the month.
SumPaymentsTodayByClient(c) == Total({p \in Counted(c) : payments[p].created \div Day = now \div Day})
SumPaymentsMonthByClient(c) == Total({p \in Counted(c) : payments[p].created \div Month = now \div Month})

FindDuplicatePayments(c, beneficiary, amount, since, id) ==
  {p \in Counted(c) : /\ payments[p].beneficiary = beneficiary
                      /\ payments[p].amount = amount
                      /\ payments[p].created > since
                      /\ p # id}

GetClientLimit(c) == limits[c]

GetDuplicateRule(c) == rules[c]

\* client_id is UNIQUE in both tables; an UPDATE of no row changes nothing.
InsertClientLimit(c, l) == limits[c] = NoLimits /\ limits' = [limits EXCEPT ![c] = l]
UpdateClientLimit(c, l) == limits[c] # NoLimits /\ limits' = [limits EXCEPT ![c] = l]
InsertDuplicateRule(c, r) == rules[c] = NoRule /\ rules' = [rules EXCEPT ![c] = r]

InsertBlacklistEntry(c, document) == blacklist' = blacklist \cup {<<c, document>>}

-----------------------------------------------------------------------------
(* The prevalidation job. Evaluate's rules run in this order, and the first  *)
(* one that triggers decides.                                                *)

Goto(p, pc, read) == job' = [job EXCEPT ![p].pc = pc, ![p].read = read]
Verdict(p, action) == job' = [job EXCEPT ![p].pc = "store", ![p].action = action]
Bookkeeping == UNCHANGED <<now, faults, judged, covered, retuned, rescheduled, disturbed>>
Reads == UNCHANGED payments /\ UNCHANGED tables /\ Bookkeeping

At(p, pc) == job[p].pc = pc
Client(p) == payments[p].client

\* The hop to VALIDATED_LOCAL is for RECEIVED rows; any other status goes on
\* all the same.
Evaluate(p) ==
  /\ At(p, "queued")
  /\ IF Client(p) = NoClient THEN Verdict(p, "ALLOW") ELSE Goto(p, "blacklist", NoRow)
  /\ payments' = IF payments[p].status = "RECEIVED"
                 THEN [payments EXCEPT ![p].status = "VALIDATED_LOCAL"] ELSE payments
  /\ UNCHANGED tables /\ Bookkeeping

CheckBlacklistRule(p) ==
  /\ At(p, "blacklist")
  /\ IF payments[p].document # NoPayee /\ CheckBlacklist(payments[p].document, Client(p)) # {}
     THEN Verdict(p, "REJECT")
     ELSE Goto(p, "single", NoRow)
  /\ Reads

Exceeds(amount, limit) == limit > 0 /\ amount > limit

CheckSingleLimit(p) ==
  /\ At(p, "single")
  /\ LET l == GetClientLimit(Client(p)) IN
       IF l # NoLimits /\ (Exceeds(payments[p].amount, l.single) \/ Exceeds(payments[p].amount, l.approval))
       THEN Verdict(p, "REVIEW")
       ELSE Goto(p, "daily", NoRow)
  /\ Reads

\* The limits are read again by every rule, and the sums after them.
CheckDailyLimit(p) ==
  /\ At(p, "daily")
  /\ LET l == GetClientLimit(Client(p)) IN
       IF l # NoLimits /\ l.daily > 0 THEN Goto(p, "dailySum", l) ELSE Goto(p, "monthly", NoRow)
  /\ Reads

\* The row is in the table already: its amount is in the sum and added again.
SumsToday(p) ==
  /\ At(p, "dailySum")
  /\ IF Exceeds(SumPaymentsTodayByClient(Client(p)) + payments[p].amount, job[p].read.daily)
     THEN Verdict(p, "REVIEW")
     ELSE Goto(p, "monthly", NoRow)
  /\ Reads

CheckMonthlyLimit(p) ==
  /\ At(p, "monthly")
  /\ LET l == GetClientLimit(Client(p)) IN
       IF l # NoLimits /\ l.monthly > 0 THEN Goto(p, "monthlySum", l) ELSE Goto(p, "duplicate", NoRow)
  /\ Reads

SumsMonth(p) ==
  /\ At(p, "monthlySum")
  /\ IF Exceeds(SumPaymentsMonthByClient(Client(p)) + payments[p].amount, job[p].read.monthly)
     THEN Verdict(p, "REVIEW")
     ELSE Goto(p, "duplicate", NoRow)
  /\ Reads

CheckDuplicate(p) ==
  /\ At(p, "duplicate")
  /\ LET r == GetDuplicateRule(Client(p)) IN
       IF r # NoRule /\ payments[p].beneficiary # NoPayee THEN Goto(p, "find", r) ELSE Verdict(p, "ALLOW")
  /\ Reads

Duplicates(p, rule) ==
  FindDuplicatePayments(Client(p), payments[p].beneficiary, payments[p].amount, now - rule.window, p)

FindsDuplicates(p) ==
  /\ At(p, "find")
  /\ Verdict(p, IF Duplicates(p, job[p].read) # {} THEN job[p].read.action ELSE "ALLOW")
  /\ Reads

\* Unconditional, whatever became of the row since.
StoreVerdict(p) ==
  /\ At(p, "store")
  /\ payments' = [payments EXCEPT ![p].status =
       CASE job[p].action = "REJECT" -> "REJECTED"
         [] job[p].action = "REVIEW" -> "UNDER_REVIEW"
         [] OTHER -> "PREVALIDATED"]
  /\ job' = [job EXCEPT ![p] = [NoJob EXCEPT !.pc = "done"]]
  /\ judged' = [judged EXCEPT ![p] = now]
  /\ UNCHANGED tables /\ UNCHANGED <<now, faults, covered, retuned, rescheduled, disturbed>>

\* A failing read of the limits or of the duplicate rule counts as none
\* configured. Any other failing statement has the job retried, but for the
\* update to REJECTED or UNDER_REVIEW, whose error is discarded.
StatementFails(p) ==
  /\ faults < MaxFaults
  /\ job[p].pc \notin {"none", "queued", "done"}
  /\ faults' = faults + 1
  /\ disturbed' = disturbed \cup {p}
  /\ CASE At(p, "single") -> Goto(p, "daily", NoRow)
       [] At(p, "daily") -> Goto(p, "monthly", NoRow)
       [] At(p, "monthly") -> Goto(p, "duplicate", NoRow)
       [] At(p, "duplicate") -> Verdict(p, "ALLOW")
       [] At(p, "store") /\ job[p].action # "ALLOW" -> job' = [job EXCEPT ![p] = [NoJob EXCEPT !.pc = "done"]]
       [] OTHER -> job' = [job EXCEPT ![p] = [NoJob EXCEPT !.pc = "queued"]]
  /\ UNCHANGED <<payments, now, judged, covered, retuned, rescheduled>> /\ UNCHANGED tables

-----------------------------------------------------------------------------
(* What happens around it.                                                   *)

\* POST /v1/payments inserts the row and enqueues the job.
Receive(p) ==
  \E r \in Requests :
    /\ payments[p] = NoRow
    /\ payments' = [payments EXCEPT ![p] =
         [client |-> r.client, amount |-> r.amount, document |-> r.document,
          beneficiary |-> r.beneficiary, created |-> now, status |-> "RECEIVED"]]
    /\ job' = [job EXCEPT ![p] = [NoJob EXCEPT !.pc = "queued"]]
    /\ covered' = IF r.client # NoClient /\ \E c \in {Everyone, r.client} : <<c, r.document>> \in blacklist
                  THEN covered \cup {p} ELSE covered
    /\ UNCHANGED <<now, faults, judged, retuned, rescheduled, disturbed>> /\ UNCHANGED tables

\* An operator's cancel (PaymentLifecycle has its races); a reject counts alike.
CancelPayment(p) ==
  /\ faults < MaxFaults /\ faults' = faults + 1
  /\ p \in Rows /\ payments[p].status \notin Dropped
  /\ payments' = [payments EXCEPT ![p].status = "CANCELED"]
  /\ disturbed' = IF At(p, "done") THEN disturbed ELSE disturbed \cup {p}
  /\ UNCHANGED <<job, now, judged, covered, retuned, rescheduled>> /\ UNCHANGED tables

\* An operator's reschedule reads the row and checks its state outside of the
\* transaction that moves it. (ON_HOLD, as all that follows an approval, is
\* PREVALIDATED here: none of the queries tells them apart.)
RescheduleReads(p) ==
  /\ faults < MaxFaults /\ faults' = faults + 1
  /\ p \in Rows /\ payments[p].status \notin Dropped
  /\ rescheduled' = rescheduled \cup {p}
  /\ UNCHANGED <<payments, job, now, judged, covered, retuned, disturbed>> /\ UNCHANGED tables

\* It makes the row PREVALIDATED, whatever became of it since and without
\* asking any rule; its job goes on.
ReschedulePayment(p) ==
  /\ p \in rescheduled
  /\ payments' = [payments EXCEPT ![p].status = "PREVALIDATED"]
  /\ disturbed' = IF payments[p].status = "PREVALIDATED" THEN disturbed ELSE disturbed \cup {p}
  /\ UNCHANGED <<job, now, faults, judged, covered, retuned, rescheduled>> /\ UNCHANGED tables

Change == changes < MaxChanges /\ changes' = changes + 1
Retune(c) == retuned' = IF Of(c) # {} THEN retuned \cup {c} ELSE retuned

\* Looks for the row, then inserts or updates. Of two first settings one meets
\* UNIQUE (client_id) and changes nothing.
SetClientLimits(c) ==
  /\ Change
  /\ \E l \in LimitSettings : InsertClientLimit(c, l) \/ UpdateClientLimit(c, l)
  /\ Retune(c)
  /\ UNCHANGED <<payments, job, rules, blacklist, now, faults, judged, covered, rescheduled, disturbed>>

\* Inserts only: UNIQUE (client_id) refuses a second rule.
SetDuplicateRule(c) ==
  /\ Change
  /\ \E r \in RuleSettings : InsertDuplicateRule(c, r)
  /\ Retune(c)
  /\ UNCHANGED <<payments, job, limits, blacklist, now, faults, judged, covered, rescheduled, disturbed>>

\* For one client or, without a client_id, for all. Nothing deactivates one.
AddBlacklistEntry ==
  /\ Change
  /\ \E c \in Clients \cup {Everyone}, d \in Documents : InsertBlacklistEntry(c, d)
  /\ UNCHANGED <<payments, job, limits, rules, now, faults, judged, covered, retuned, rescheduled, disturbed>>

Tick ==
  /\ now < MaxTime
  /\ now' = now + 1
  /\ UNCHANGED <<payments, job, faults, judged, covered, retuned, rescheduled, disturbed>> /\ UNCHANGED tables

Prevalidates(p) ==
  \/ Evaluate(p)
  \/ CheckBlacklistRule(p)
  \/ CheckSingleLimit(p)
  \/ CheckDailyLimit(p) \/ SumsToday(p)
  \/ CheckMonthlyLimit(p) \/ SumsMonth(p)
  \/ CheckDuplicate(p) \/ FindsDuplicates(p)
  \/ StoreVerdict(p)

Next ==
  \/ \E p \in Payments : Receive(p) \/ Prevalidates(p) \/ StatementFails(p) \/ CancelPayment(p)
                         \/ RescheduleReads(p) \/ ReschedulePayment(p)
  \/ \E c \in Clients : SetClientLimits(c) \/ SetDuplicateRule(c)
  \/ AddBlacklistEntry
  \/ Tick

Spec == Init /\ [][Next]_vars

-----------------------------------------------------------------------------
(* Properties.                                                               *)

TypeOK ==
  /\ payments \in [Payments -> Row \cup {NoRow}]
  /\ job \in [Payments -> Job]
  /\ \A p \in Payments :
       /\ At(p, "dailySum") \/ At(p, "monthlySum") => job[p].read \in Limits
       /\ At(p, "find") => job[p].read \in Rule
       /\ payments[p] = NoRow <=> At(p, "none")
  /\ limits \in [Clients -> Limits \cup {NoLimits}]
  /\ rules \in [Clients -> Rule \cup {NoRule}]
  /\ blacklist \subseteq (Clients \cup {Everyone}) \X Documents
  /\ now \in 0..MaxTime /\ faults \in 0..MaxFaults /\ changes \in 0..MaxChanges
  /\ judged \in [Payments -> 0..MaxTime]
  /\ covered \subseteq Payments /\ retuned \subseteq Clients
  /\ rescheduled \subseteq Payments /\ disturbed \subseteq Payments

\* Let through by the rules: not canceled meanwhile, no statement failed, and
\* no reschedule moved it past them.
Passed(c) == {p \in Of(c) \ disturbed : payments[p].status = "PREVALIDATED"}

\* Counted in the period (of so many ticks) it was created in.
JudgedInTime(c, period) == {p \in Passed(c) : payments[p].created \div period = judged[p] \div period}

PeriodHolds(c, period, limit) ==
  limit > 0 => \A t \in {payments[p].created \div period : p \in JudgedInTime(c, period)} :
    Total({p \in JudgedInTime(c, period) : payments[p].created \div period = t}) <= limit

\* However many jobs evaluate at the same time, what the rules let through in
\* a day and in a month stays within the client's limits, for payments judged
\* in the period they arrived in: every job's sum holds all rows that arrived.
LimitsHold ==
  \A c \in Clients \ retuned : limits[c] # NoLimits =>
    /\ \A p \in Passed(c) : ~Exceeds(payments[p].amount, limits[c].single)
    /\ PeriodHolds(c, Day, limits[c].daily)
    /\ PeriodHolds(c, Month, limits[c].monthly)

Twins(p, q) ==
  /\ p # q
  /\ payments[p].beneficiary = payments[q].beneficiary /\ payments[p].beneficiary # NoPayee
  /\ payments[p].amount = payments[q].amount

\* Of two payments of one amount to one beneficiary, judged within the rule's
\* window of each other, at most one passes, although both jobs may look for
\* the other at the same time.
TwinsAreFlagged ==
  \A c \in Clients \ retuned : rules[c] # NoRule /\ rules[c].action # "ALLOW" =>
    \A p, q \in Passed(c) : Twins(p, q) =>
      \/ judged[p] >= payments[q].created + rules[c].window
      \/ judged[q] >= payments[p].created + rules[c].window

\* The rules never let a blacklisted document pass, also when statements fail,
\* entries of all clients and of one overlap, or cancelations and jobs race.
\* Only an operator's reschedule takes such a payment past them.
BlacklistHolds == \A p \in covered \ rescheduled : payments[p].status \notin {"PREVALIDATED", "UNDER_REVIEW"}

-----------------------------------------------------------------------------
(* Why twins are flagged and the blacklist holds.                            *)

\* The duplicate rule had nothing against p, until now or when p was stored.
Cleared(p) ==
  /\ p \notin disturbed
  /\ \/ At(p, "store") /\ job[p].action = "ALLOW"
     \/ payments[p].status = "PREVALIDATED"
ClearedAt(p) == IF At(p, "done") THEN judged[p] ELSE now

JobOK(p) ==
  /\ job[p].pc \in Rules => Client(p) \in Clients
  /\ At(p, "find") /\ Client(p) \notin retuned => job[p].read = rules[Client(p)]
  /\ p \notin disturbed /\ ~At(p, "done") => payments[p].status \in {"RECEIVED", "VALIDATED_LOCAL"}
  /\ p \in covered =>
       /\ Client(p) \in Clients /\ payments[p].document \in Documents
       /\ CheckBlacklist(payments[p].document, Client(p)) # {}
       /\ p \in rescheduled \/ payments[p].status \notin {"PREVALIDATED", "UNDER_REVIEW"}
       /\ \/ job[p].pc \in {"queued", "blacklist", "done"}
          \/ At(p, "store") /\ job[p].action = "REJECT"

\* q was outside p's window when p was cleared.
Missed(p, q) == ClearedAt(p) >= payments[q].created + rules[Client(p)].window

TwinsOK(p, q) ==
  /\ Cleared(p) /\ Cleared(q) /\ Twins(p, q)
  /\ Client(p) = Client(q) /\ Client(p) \in Clients \ retuned
  /\ rules[Client(p)] # NoRule /\ rules[Client(p)].action # "ALLOW"
  => Missed(p, q) \/ Missed(q, p)

\* The inductive invariant: the later one to look finds the row of the other.
IInv ==
  /\ TypeOK
  /\ covered \subseteq Rows /\ rescheduled \subseteq Rows
  /\ \A p \in Rows : JobOK(p)
  /\ \A p, q \in Rows : TwinsOK(p, q)

-----------------------------------------------------------------------------
(* Why the limits hold.                                                      *)

PastMonthly == {"duplicate", "find"}
PastDaily == {"monthly", "monthlySum"} \cup PastMonthly
PastSingle == {"daily", "dailySum"} \cup PastDaily

\* p's job has a limit behind it: at one of these rules now, or p is cleared.
Beyond(p, past) == (p \notin disturbed /\ job[p].pc \in past) \/ Cleared(p)

\* Received in the t-th period, and since then in it.
InPeriod(c, past, period, t) ==
  {p \in Of(c) : Beyond(p, past) /\ payments[p].created \div period = t /\ ClearedAt(p) \div period = t}

SumWithin(c, past, period, limit) ==
  limit > 0 => \A t \in 0..MaxTime : Total(InPeriod(c, past, period, t)) <= limit

LimitsOK(c) ==
  /\ \A p \in Of(c) : Beyond(p, PastSingle) => ~Exceeds(payments[p].amount, limits[c].single)
  /\ SumWithin(c, PastDaily, Day, limits[c].daily)
  /\ SumWithin(c, PastMonthly, Month, limits[c].monthly)

\* The inductive invariant of the sums: whoever takes one finds the rows of all
\* payments that passed the rule already, and counts them.
LimitsIInv ==
  /\ IInv
  /\ IsFiniteSet(Rows)
  /\ \A p \in Rows :
       /\ payments[p].created <= now
       /\ (At(p, "dailySum") \/ At(p, "monthlySum")) /\ Client(p) \notin retuned =>
            job[p].read = limits[Client(p)]
  /\ \A c \in Clients \ retuned : limits[c] # NoLimits => LimitsOK(c)
=============================================================================
