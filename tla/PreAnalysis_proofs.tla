-------------------------- MODULE PreAnalysis_proofs --------------------------
(* Proofs about PreAnalysis, for any payments, clients, limits, rules and    *)
(* clock: of two twins one is flagged, a blacklisted document never passes,  *)
(* and what passes stays within the limits. Total is a fold; what the limits *)
(* need of it (it exists, grows with its set, forgets the other rows) is     *)
(* proved from the sets that are smallest without it.                        *)
EXTENDS PreAnalysis, FiniteSetTheorems, TLAPS

LEMMA Constants ==
  /\ Requests \subseteq Request /\ LimitSettings \subseteq Limits /\ RuleSettings \subseteq Rule
  /\ MaxTime \in Nat /\ MaxFaults \in Nat /\ MaxChanges \in Nat
  /\ NoClient \notin Clients /\ NoPayee \notin Documents
  /\ NoRow \notin Row /\ NoLimits \notin Limits /\ NoRule \notin Rule
BY PreAnalysisAssumption

LEMMA Facts ==
  ASSUME IInv, NEW p \in Rows
  PROVE  /\ p \in Payments /\ payments[p] \in Row /\ job[p] \in Job /\ job[p].pc # "none"
         /\ JobOK(p) /\ judged[p] \in 0..MaxTime /\ now \in 0..MaxTime
BY DEF IInv, TypeOK, Rows, At

(* p's job and p's row move, by a step of the job, a failing statement or a  *)
(* cancelation. It is enough to look at p, and to see that p is not cleared  *)
(* by this step past a twin.                                                 *)
LEMMA RowStep ==
  ASSUME IInv, NEW p \in Rows, NEW j \in Job, NEW s \in Status,
         job' = [job EXCEPT ![p] = j], j.pc # "none",
         payments' = [payments EXCEPT ![p].status = s],
         UNCHANGED tables, UNCHANGED <<now, covered, retuned, rescheduled>>,
         faults' \in 0..MaxFaults, judged' \in [Payments -> 0..MaxTime],
         \A q \in Payments \ {p} : judged'[q] = judged[q],
         disturbed' \in {disturbed, disturbed \cup {p}},
         j.pc \in {"dailySum", "monthlySum"} => j.read \in Limits,
         j.pc = "find" => j.read \in Rule,
         JobOK(p)',
         Cleared(p)' => \/ Cleared(p) /\ ClearedAt(p)' = ClearedAt(p)
                        \/ \A q \in Rows : TwinsOK(p, q)' \/ ~Cleared(q)
  PROVE  IInv'
<1>1. /\ p \in Payments /\ payments[p] \in Row
      /\ payments' \in [Payments -> Row \cup {NoRow}]
      /\ payments'[p] = [payments[p] EXCEPT !.status = s] /\ payments'[p] \in Row
      /\ \A q \in Payments \ {p} : payments'[q] = payments[q] /\ job'[q] = job[q]
      /\ job'[p] = j /\ job' \in [Payments -> Job]
  <2>1. p \in Payments /\ payments[p] \in Row
    BY Facts
  <2>2. [payments[p] EXCEPT !.status = s] \in Row
    BY <2>1 DEF Row
  <2>3. payments' = [payments EXCEPT ![p] = [payments[p] EXCEPT !.status = s]]
    BY <2>1 DEF IInv, TypeOK
  <2> QED BY <2>1, <2>2, <2>3 DEF IInv, TypeOK
<1>2. Rows' = Rows
  BY <1>1, Constants DEF Rows
<1>3. /\ payments'[p].client = payments[p].client /\ payments'[p].amount = payments[p].amount
      /\ payments'[p].beneficiary = payments[p].beneficiary /\ payments'[p].created = payments[p].created
  BY <1>1 DEF Row
<1>4. TypeOK'
  <2>1. \A q \in Payments : /\ At(q, "dailySum")' \/ At(q, "monthlySum")' => job'[q].read \in Limits
                            /\ At(q, "find")' => job'[q].read \in Rule
                            /\ payments'[q] = NoRow <=> At(q, "none")'
    BY <1>1, Constants DEF At, IInv, TypeOK
  <2>2. disturbed' \subseteq Payments
    BY <1>1 DEF IInv, TypeOK
  <2> QED BY <1>1, <2>1, <2>2 DEF tables, IInv, TypeOK
<1>5. ASSUME NEW q \in Rows, q # p PROVE JobOK(q)'
  <2>1. /\ JobOK(q) /\ payments'[q] = payments[q] /\ job'[q] = job[q]
        /\ q \in disturbed' <=> q \in disturbed
    BY <1>1, <1>5, Facts DEF Rows
  <2> QED BY <2>1 DEF JobOK, At, Client, CheckBlacklist, tables
<1>6. ASSUME NEW q \in Rows, q # p
      PROVE  (Cleared(q)' <=> Cleared(q)) /\ ClearedAt(q)' = ClearedAt(q)
  <2>1. /\ payments'[q] = payments[q] /\ job'[q] = job[q] /\ judged'[q] = judged[q]
        /\ q \in disturbed' <=> q \in disturbed
    BY <1>1, <1>6 DEF Rows
  <2> QED BY <2>1 DEF Cleared, ClearedAt, At
<1>7. ASSUME NEW q \in Rows
      PROVE  /\ payments'[q].client = payments[q].client /\ payments'[q].amount = payments[q].amount
             /\ payments'[q].beneficiary = payments[q].beneficiary /\ payments'[q].created = payments[q].created
  BY <1>1, <1>3 DEF Rows
<1>8. ASSUME NEW q1 \in Rows, NEW q2 \in Rows,
             Cleared(q1)' => Cleared(q1) /\ ClearedAt(q1)' = ClearedAt(q1),
             Cleared(q2)' => Cleared(q2) /\ ClearedAt(q2)' = ClearedAt(q2)
      PROVE  TwinsOK(q1, q2)'
  <2>1. TwinsOK(q1, q2)
    BY DEF IInv
  <2>2. (Twins(q1, q2)' <=> Twins(q1, q2)) /\ Client(q1)' = Client(q1) /\ Client(q2)' = Client(q2)
    BY <1>7 DEF Twins, Client
  <2>3. Cleared(q1)' /\ Cleared(q2)' =>
          (Missed(q1, q2)' <=> Missed(q1, q2)) /\ (Missed(q2, q1)' <=> Missed(q2, q1))
    BY <1>7, <1>8, <2>2 DEF Missed, tables
  <2> QED BY <1>8, <2>1, <2>2, <2>3 DEF TwinsOK, tables
<1>9. \A q1, q2 \in Rows : TwinsOK(q1, q2)' <=> TwinsOK(q2, q1)'
  <2>1. \A q1, q2 \in Rows : Twins(q1, q2)' <=> Twins(q2, q1)'
    BY DEF Twins
  <2> QED BY <2>1 DEF TwinsOK
<1>10. \A q \in Rows : TwinsOK(p, q)'
  <2> SUFFICES ASSUME NEW q \in Rows PROVE TwinsOK(p, q)'
    OBVIOUS
  <2>1. CASE p = q
    BY <2>1 DEF TwinsOK, Twins
  <2>2. CASE ~Cleared(p)' \/ ~Cleared(q)'
    BY <2>2 DEF TwinsOK
  <2>3. CASE p # q /\ Cleared(p)' /\ Cleared(q)'
    BY <1>6, <1>8, <2>3
  <2> QED BY <2>1, <2>2, <2>3
<1>11. \A q1, q2 \in Rows : TwinsOK(q1, q2)'
  <2> SUFFICES ASSUME NEW q1 \in Rows, NEW q2 \in Rows PROVE TwinsOK(q1, q2)'
    OBVIOUS
  <2>1. CASE q1 = p \/ q2 = p
    BY <1>9, <1>10, <2>1
  <2>2. CASE q1 # p /\ q2 # p
    BY <1>6, <1>8, <2>2
  <2> QED BY <2>1, <2>2
<1> QED BY <1>2, <1>4, <1>5, <1>11 DEF IInv

(* A step of the job that reads and goes on, or decides against the payment. *)
LEMMA ReadStep ==
  ASSUME IInv, NEW p \in Rows, NEW j \in Job,
         job' = [job EXCEPT ![p] = j], Reads,
         j.pc \in Rules \cup {"store"}, ~At(p, "done"), Client(p) \in Clients,
         j.pc \in {"dailySum", "monthlySum"} => j.read \in Limits,
         j.pc = "find" => j.read \in Rule /\ j.read = rules[Client(p)],
         j.pc = "store" => j.action # "ALLOW",
         p \in covered => j.pc = "store" /\ j.action = "REJECT"
  PROVE  IInv'
<1>1. p \in Payments /\ payments[p] \in Row /\ JobOK(p) /\ payments[p].status \in Status
  BY Facts DEF Row
<1>2. payments' = [payments EXCEPT ![p].status = payments[p].status]
  BY <1>1 DEF Reads, Row, IInv, TypeOK
<1>3. UNCHANGED payments /\ UNCHANGED tables /\ UNCHANGED <<now, faults, judged, covered, retuned, rescheduled, disturbed>>
  BY DEF Reads, Bookkeeping
<1>4. job'[p] = j
  BY <1>1 DEF IInv, TypeOK
<1>5. j.pc # "none" /\ j.pc # "done"
  BY DEF Rules
<1>6. JobOK(p)'
  BY <1>1, <1>3, <1>4, <1>5 DEF JobOK, At, Client, CheckBlacklist, tables
<1>7. ~Cleared(p)'
  BY <1>1, <1>3, <1>4, <1>5 DEF Cleared, JobOK, At
<1>8. faults' \in 0..MaxFaults /\ judged' \in [Payments -> 0..MaxTime]
  BY <1>3 DEF IInv, TypeOK
<1> QED BY <1>1, <1>2, <1>3, <1>5, <1>6, <1>7, <1>8, RowStep

(* Goto and Verdict as one assignment.                                       *)
LEMMA GotoAssigns ==
  ASSUME TypeOK, NEW p \in Payments, NEW pc \in Rules \cup {"queued", "store", "done"},
         NEW read \in Limits \cup Rule \cup {NoRow}, Goto(p, pc, read)
  PROVE  \E j \in Job : j.pc = pc /\ j.read = read /\ job' = [job EXCEPT ![p] = j]
<1> DEFINE j == [job[p] EXCEPT !.pc = pc, !.read = read]
<1>1. job' = [job EXCEPT ![p] = j]
  BY DEF TypeOK, Job, Goto
<1>2. job[p] \in Job
  BY DEF TypeOK
<1>3. j \in Job /\ j.pc = pc /\ j.read = read
  BY <1>2 DEF Job
<1> QED BY <1>1, <1>3

LEMMA VerdictAssigns ==
  ASSUME TypeOK, NEW p \in Payments, NEW action \in {"ALLOW", "REVIEW", "REJECT"}, Verdict(p, action)
  PROVE  \E j \in Job : j.pc = "store" /\ j.action = action /\ job' = [job EXCEPT ![p] = j]
<1> DEFINE j == [job[p] EXCEPT !.pc = "store", !.action = action]
<1>1. job' = [job EXCEPT ![p] = j]
  BY DEF TypeOK, Job, Verdict
<1>2. job[p] \in Job
  BY DEF TypeOK
<1>3. j \in Job /\ j.pc = "store" /\ j.action = action
  BY <1>2 DEF Job
<1> QED BY <1>1, <1>3

LEMMA GoesOn ==
  ASSUME IInv, NEW p \in Rows, NEW pc \in Rules, NEW read \in Limits \cup Rule \cup {NoRow},
         Goto(p, pc, read), Reads, job[p].pc \in Rules, p \notin covered,
         pc \in {"dailySum", "monthlySum"} => read \in Limits,
         pc = "find" => read \in Rule /\ read = rules[Client(p)]
  PROVE  IInv'
<1>1. p \in Payments /\ JobOK(p)
  BY Facts
<1>2. PICK j \in Job : j.pc = pc /\ j.read = read /\ job' = [job EXCEPT ![p] = j]
  BY <1>1, GotoAssigns DEF IInv
<1>4. Client(p) \in Clients /\ ~At(p, "done") /\ pc # "store"
  BY <1>1 DEF JobOK, At, Rules
<1> QED BY <1>2, <1>4, ReadStep

LEMMA Decides ==
  ASSUME IInv, NEW p \in Rows, NEW action \in {"REVIEW", "REJECT"},
         Verdict(p, action), Reads, job[p].pc \in Rules, p \in covered => action = "REJECT"
  PROVE  IInv'
<1>1. p \in Payments /\ JobOK(p)
  BY Facts
<1>2. PICK j \in Job : j.pc = "store" /\ j.action = action /\ job' = [job EXCEPT ![p] = j]
  BY <1>1, VerdictAssigns DEF IInv
<1>4. Client(p) \in Clients /\ ~At(p, "done")
  BY <1>1 DEF JobOK, At, Rules
<1> QED BY <1>2, <1>4, ReadStep

(* An allowed payment: it is cleared now.                                    *)
LEMMA Allows ==
  ASSUME IInv, NEW p \in Rows, Verdict(p, "ALLOW"), Reads, ~At(p, "done"), p \notin covered,
         \A q \in Rows : TwinsOK(p, q)' \/ ~Cleared(q)
  PROVE  IInv'
<1>1. p \in Payments /\ payments[p] \in Row /\ job[p] \in Job /\ JobOK(p) /\ payments[p].status \in Status
  BY Facts DEF Row
<1>2. PICK j \in Job : j.pc = "store" /\ j.action = "ALLOW" /\ job' = [job EXCEPT ![p] = j]
  BY <1>1, VerdictAssigns DEF IInv
<1>4. UNCHANGED payments /\ UNCHANGED tables /\ UNCHANGED <<now, faults, judged, covered, retuned, rescheduled, disturbed>>
  BY DEF Reads, Bookkeeping
<1>5. payments' = [payments EXCEPT ![p].status = payments[p].status]
  BY <1>1, <1>4 DEF Row, IInv, TypeOK
<1>6. job'[p] = j
  BY <1>1, <1>2 DEF IInv, TypeOK
<1>7. JobOK(p)'
  <2>1. j.pc \notin Rules
    BY <1>2 DEF Rules
  <2> QED BY <1>1, <1>2, <1>4, <1>6, <2>1 DEF JobOK, At, Client, CheckBlacklist, tables
<1>8. faults' \in 0..MaxFaults /\ judged' \in [Payments -> 0..MaxTime]
  BY <1>4 DEF IInv, TypeOK
<1> QED BY <1>1, <1>2, <1>4, <1>5, <1>7, <1>8, RowStep

LEMMA AtRule ==
  ASSUME IInv, NEW p \in Payments, job[p].pc \in Rules
  PROVE  /\ p \in Rows /\ Client(p) \in Clients /\ JobOK(p)
         /\ limits[Client(p)] \in Limits \cup {NoLimits} /\ rules[Client(p)] \in Rule \cup {NoRule}
         /\ NoRow \in Limits \cup Rule \cup {NoRow}
         /\ job[p].pc # "blacklist" => p \notin covered
<1>1. p \in Rows
  BY DEF IInv, TypeOK, Rows, At, Rules
<1>2. JobOK(p) /\ Client(p) \in Clients
  BY <1>1, Facts DEF JobOK
<1>3. job[p].pc # "blacklist" => p \notin covered
  BY <1>2 DEF JobOK, At, Rules
<1> QED BY <1>1, <1>2, <1>3 DEF IInv, TypeOK

LEMMA BlacklistPreserves ==
  ASSUME IInv, NEW p \in Payments, CheckBlacklistRule(p)
  PROVE  IInv'
<1>1. job[p].pc = "blacklist" /\ job[p].pc \in Rules /\ "single" \in Rules /\ Reads
  BY DEF CheckBlacklistRule, At, Rules
<1>2. CASE payments[p].document # NoPayee /\ CheckBlacklist(payments[p].document, Client(p)) # {}
  <2>1. Verdict(p, "REJECT")
    BY <1>2 DEF CheckBlacklistRule
  <2> QED BY <1>1, <2>1, AtRule, Decides
<1>3. CASE ~(payments[p].document # NoPayee /\ CheckBlacklist(payments[p].document, Client(p)) # {})
  <2>1. Goto(p, "single", NoRow)
    BY <1>3 DEF CheckBlacklistRule
  <2>2. p \notin covered
    BY <1>1, <1>3, AtRule, Constants DEF JobOK
  <2> QED BY <1>1, <2>1, <2>2, AtRule, GoesOn
<1> QED BY <1>2, <1>3

LEMMA LimitRulesPreserve ==
  ASSUME IInv, NEW p \in Payments,
         \/ CheckSingleLimit(p) \/ CheckDailyLimit(p) \/ SumsToday(p)
         \/ CheckMonthlyLimit(p) \/ SumsMonth(p)
  PROVE  IInv'
<1>1. /\ job[p].pc \in Rules /\ job[p].pc # "blacklist" /\ Reads
      /\ {"daily", "dailySum", "monthly", "monthlySum", "duplicate"} \subseteq Rules
  BY DEF CheckSingleLimit, CheckDailyLimit, SumsToday, CheckMonthlyLimit, SumsMonth, At, Rules
<1>2. p \in Rows /\ p \notin covered /\ GetClientLimit(Client(p)) \in Limits \cup {NoLimits}
      /\ NoRow \in Limits \cup Rule \cup {NoRow}
  BY <1>1, AtRule DEF GetClientLimit
<1>3. \/ Verdict(p, "REVIEW")
      \/ \E pc \in {"daily", "monthly", "duplicate"} : Goto(p, pc, NoRow)
      \/ \E pc \in {"dailySum", "monthlySum"}, read \in Limits : Goto(p, pc, read)
  <2>1. CASE CheckSingleLimit(p)
    BY <2>1 DEF CheckSingleLimit
  <2>2. CASE CheckDailyLimit(p)
    BY <1>2, <2>2 DEF CheckDailyLimit
  <2>3. CASE SumsToday(p)
    BY <2>3 DEF SumsToday
  <2>4. CASE CheckMonthlyLimit(p)
    BY <1>2, <2>4 DEF CheckMonthlyLimit
  <2>5. CASE SumsMonth(p)
    BY <2>5 DEF SumsMonth
  <2> QED BY <2>1, <2>2, <2>3, <2>4, <2>5
<1>4. CASE Verdict(p, "REVIEW")
  BY <1>1, <1>2, <1>4, Decides
<1>5. CASE \E pc \in {"daily", "monthly", "duplicate"} : Goto(p, pc, NoRow)
  BY <1>1, <1>2, <1>5, GoesOn
<1>6. CASE \E pc \in {"dailySum", "monthlySum"}, read \in Limits : Goto(p, pc, read)
  BY <1>1, <1>2, <1>6, GoesOn
<1> QED BY <1>3, <1>4, <1>5, <1>6

LEMMA DuplicatePreserves ==
  ASSUME IInv, NEW p \in Payments, CheckDuplicate(p)
  PROVE  IInv'
<1>1. job[p].pc = "duplicate" /\ job[p].pc \in Rules /\ "find" \in Rules /\ Reads
  BY DEF CheckDuplicate, At, Rules
<1>2. p \in Rows /\ p \notin covered /\ rules[Client(p)] \in Rule \cup {NoRule}
  BY <1>1, AtRule
<1>3. CASE rules[Client(p)] # NoRule /\ payments[p].beneficiary # NoPayee
  <2>1. Goto(p, "find", rules[Client(p)])
    BY <1>3 DEF CheckDuplicate, GetDuplicateRule
  <2>2. rules[Client(p)] \in Rule
    BY <1>2, <1>3
  <2> QED BY <1>1, <1>2, <2>1, <2>2, GoesOn
<1>4. CASE ~(rules[Client(p)] # NoRule /\ payments[p].beneficiary # NoPayee)
  <2>1. Verdict(p, "ALLOW")
    BY <1>4 DEF CheckDuplicate, GetDuplicateRule
  <2>2. \A q \in Rows : TwinsOK(p, q)'
    BY <1>1, <1>4 DEF TwinsOK, Twins, Reads, tables, Client
  <2> QED BY <1>1, <1>2, <2>1, <2>2, Allows DEF At
<1> QED BY <1>3, <1>4

LEMMA FindPreserves ==
  ASSUME IInv, NEW p \in Payments, FindsDuplicates(p)
  PROVE  IInv'
<1>1. job[p].pc = "find" /\ job[p].pc \in Rules /\ Reads
      /\ Verdict(p, IF Duplicates(p, job[p].read) # {} THEN job[p].read.action ELSE "ALLOW")
  BY DEF FindsDuplicates, At, Rules
<1>2. p \in Rows /\ p \notin covered /\ Client(p) \in Clients /\ JobOK(p) /\ job[p].read \in Rule
  BY <1>1, AtRule DEF IInv, TypeOK, At
<1>3. job[p].read.action \in {"REVIEW", "REJECT", "ALLOW"}
  BY <1>2 DEF Rule
<1>4. CASE Duplicates(p, job[p].read) # {} /\ job[p].read.action # "ALLOW"
  <2>1. Verdict(p, job[p].read.action) /\ job[p].read.action \in {"REVIEW", "REJECT"}
    BY <1>1, <1>3, <1>4
  <2> QED BY <1>1, <1>2, <2>1, Decides
<1>5. CASE Duplicates(p, job[p].read) = {} \/ job[p].read.action = "ALLOW"
  <2>1. Verdict(p, "ALLOW")
    BY <1>1, <1>5
  <2>2. ASSUME NEW q \in Rows, Cleared(q) PROVE TwinsOK(p, q)'
    <3>1. UNCHANGED <<payments, limits, rules, now, retuned>>
      BY <1>1 DEF Reads, Bookkeeping, tables
    <3> SUFFICES ASSUME Twins(p, q), Client(p) = Client(q), Client(p) \notin retuned,
                        rules[Client(p)].action # "ALLOW"
                 PROVE  Missed(p, q)'
      BY <3>1 DEF TwinsOK, Twins, Client
    <3>2. job[p].read = rules[Client(p)] /\ Duplicates(p, job[p].read) = {}
      BY <1>1, <1>2, <1>5 DEF JobOK, At
    <3>3. payments[q].status \notin Dropped /\ q \in Payments /\ payments[q] \in Row
      BY <2>2, Facts DEF Cleared, JobOK, Dropped, At
    <3>4. q \in Counted(Client(p))
      BY <3>3 DEF Counted, Of, Client
    <3>5. ~(payments[q].created > now - rules[Client(p)].window)
      BY <3>2, <3>4 DEF Duplicates, FindDuplicatePayments, Twins
    <3>6. payments[q].created \in Int /\ now \in Int /\ rules[Client(p)].window \in Int
      BY <1>2, <3>2, <3>3, Facts, Constants DEF Row, Rule
    <3>7. ClearedAt(p)' = now
      <4>1. PICK j \in Job : j.pc = "store" /\ job' = [job EXCEPT ![p] = j]
        BY <2>1, VerdictAssigns DEF IInv
      <4>2. job'[p].pc = "store"
        BY <4>1 DEF IInv, TypeOK
      <4> QED BY <3>1, <4>2 DEF ClearedAt, At
    <3>8. Missed(p, q)' <=> now >= payments[q].created + rules[Client(p)].window
      BY <3>1, <3>7 DEF Missed, Client
    <3> QED BY <3>5, <3>6, <3>8
  <2> QED BY <1>1, <1>2, <2>1, <2>2, Allows DEF At
<1> QED BY <1>3, <1>4, <1>5

LEMMA EvaluatePreserves ==
  ASSUME IInv, NEW p \in Payments, Evaluate(p)
  PROVE  IInv'
<1> DEFINE s == IF payments[p].status = "RECEIVED" THEN "VALIDATED_LOCAL" ELSE payments[p].status
<1>1. At(p, "queued") /\ UNCHANGED tables /\ UNCHANGED <<now, faults, judged, covered, retuned, rescheduled, disturbed>>
  BY DEF Evaluate, Bookkeeping
<1>2. p \in Rows
  BY <1>1 DEF IInv, TypeOK, Rows, At
<1>3. payments[p] \in Row /\ JobOK(p) /\ payments[p].status \in Status /\ s \in Status
  BY <1>2, Facts DEF Row, Status
<1>4. payments' = [payments EXCEPT ![p].status = s]
  BY <1>3 DEF Evaluate, Row, IInv, TypeOK
<1>5. payments'[p].status = s /\ payments'[p].client = payments[p].client /\ payments'[p].document = payments[p].document
  BY <1>3, <1>4 DEF Row, IInv, TypeOK
<1>6. faults' \in 0..MaxFaults /\ judged' \in [Payments -> 0..MaxTime]
  BY <1>1 DEF IInv, TypeOK
<1>7. "queued" \notin Rules /\ "store" \notin Rules /\ "blacklist" \in Rules
  BY DEF Rules
<1> HIDE DEF s
<1>8. s \in {"VALIDATED_LOCAL", payments[p].status}
  BY DEF s
<1>9. CASE Client(p) = NoClient
  <2>1. Verdict(p, "ALLOW")
    BY <1>9 DEF Evaluate
  <2>2. PICK j \in Job : j.pc = "store" /\ j.action = "ALLOW" /\ job' = [job EXCEPT ![p] = j]
    BY <2>1, VerdictAssigns DEF IInv
  <2>3. job'[p] = j
    BY <2>2 DEF IInv, TypeOK
  <2>4. p \notin covered
    BY <1>3, <1>9, Constants DEF JobOK
  <2>5. JobOK(p)'
    BY <1>1, <1>3, <1>5, <1>7, <1>8, <2>2, <2>3, <2>4 DEF JobOK, At
  <2>6. \A q \in Rows : TwinsOK(p, q)'
    BY <1>5, <1>9, Constants DEF TwinsOK, Client
  <2> QED BY <1>1, <1>2, <1>3, <1>4, <1>6, <2>2, <2>5, <2>6, RowStep
<1>10. CASE Client(p) # NoClient
  <2>1. Goto(p, "blacklist", NoRow)
    BY <1>10 DEF Evaluate
  <2>2. PICK j \in Job : j.pc = "blacklist" /\ job' = [job EXCEPT ![p] = j]
    BY <1>7, <2>1, GotoAssigns DEF IInv
  <2>3. job'[p] = j
    BY <2>2 DEF IInv, TypeOK
  <2>4. Client(p) \in Clients
    BY <1>3, <1>10 DEF Client, Row
  <2>5. JobOK(p)'
    BY <1>1, <1>3, <1>5, <1>8, <2>2, <2>3, <2>4 DEF JobOK, At, Client, CheckBlacklist, tables
  <2>6. ~Cleared(p)'
    BY <1>1, <1>3, <1>5, <1>8, <2>2, <2>3 DEF Cleared, JobOK, At
  <2> QED BY <1>1, <1>2, <1>3, <1>4, <1>6, <2>2, <2>5, <2>6, RowStep
<1> QED BY <1>9, <1>10

LEMMA StorePreserves ==
  ASSUME IInv, NEW p \in Payments, StoreVerdict(p)
  PROVE  IInv'
<1> DEFINE s == CASE job[p].action = "REJECT" -> "REJECTED"
                  [] job[p].action = "REVIEW" -> "UNDER_REVIEW"
                  [] OTHER -> "PREVALIDATED"
           j == [NoJob EXCEPT !.pc = "done"]
<1>1. /\ At(p, "store") /\ payments' = [payments EXCEPT ![p].status = s] /\ job' = [job EXCEPT ![p] = j]
      /\ judged' = [judged EXCEPT ![p] = now]
      /\ UNCHANGED tables /\ UNCHANGED <<now, faults, covered, retuned, rescheduled, disturbed>>
  BY DEF StoreVerdict
<1>2. p \in Rows
  BY <1>1 DEF IInv, TypeOK, Rows, At
<1>3. payments[p] \in Row /\ JobOK(p) /\ job[p].action \in {"ALLOW", "REVIEW", "REJECT"} /\ now \in 0..MaxTime
  BY <1>2, Facts DEF Job
<1>4. /\ s \in Status /\ (s = "PREVALIDATED" => job[p].action = "ALLOW")
      /\ job[p].action = "REJECT" => s = "REJECTED"
  BY <1>3 DEF Status, Dropped
<1>5. j \in Job /\ j.pc = "done"
  BY DEF NoJob, Job
<1> HIDE DEF s, j
<1>6. payments'[p].status = s /\ payments'[p].client = payments[p].client /\ payments'[p].document = payments[p].document
  BY <1>1, <1>3 DEF Row, IInv, TypeOK
<1>7. /\ job'[p] = j /\ judged'[p] = now /\ judged' \in [Payments -> 0..MaxTime]
      /\ \A q \in Payments \ {p} : judged'[q] = judged[q]
  BY <1>1, <1>3 DEF IInv, TypeOK
<1>8. JobOK(p)'
  <2>1. p \in covered => s = "REJECTED"
    BY <1>1, <1>3, <1>4 DEF JobOK, At
  <2>2. "done" \notin Rules
    BY DEF Rules
  <2> QED BY <1>1, <1>3, <1>5, <1>6, <1>7, <2>1, <2>2 DEF JobOK, At, Client, CheckBlacklist, tables
<1>9. Cleared(p)' => Cleared(p) /\ ClearedAt(p)' = ClearedAt(p)
  BY <1>1, <1>4, <1>5, <1>6, <1>7 DEF Cleared, ClearedAt, At
<1>10. faults' \in 0..MaxFaults
  BY <1>1 DEF IInv, TypeOK
<1> QED BY <1>1, <1>2, <1>4, <1>5, <1>7, <1>8, <1>9, <1>10, RowStep

LEMMA FailurePreserves ==
  ASSUME IInv, NEW p \in Payments, StatementFails(p)
  PROVE  IInv'
<1>1. /\ job[p].pc \notin {"none", "queued", "done"} /\ faults < MaxFaults /\ faults' = faults + 1
      /\ disturbed' = disturbed \cup {p} /\ UNCHANGED <<payments, now, judged, covered, retuned, rescheduled>>
      /\ UNCHANGED tables
  BY DEF StatementFails
<1>2. p \in Rows
  BY <1>1 DEF IInv, TypeOK, Rows, At
<1>3. payments[p] \in Row /\ JobOK(p) /\ payments[p].status \in Status
  BY <1>2, Facts DEF Row
<1>4. PICK j \in Job :
        /\ job' = [job EXCEPT ![p] = j] /\ j.pc \notin {"none", "dailySum", "monthlySum", "find"}
        /\ j.pc \in Rules => job[p].pc \in Rules \ {"blacklist"}
        /\ job[p].pc = "blacklist" => j.pc = "queued"
        /\ job[p].pc = "store" /\ job[p].action = "REJECT" => j.pc = "done"
  <2>1. NoRow \in Limits \cup Rule \cup {NoRow}
    OBVIOUS
  <2>2. {"single", "daily", "monthly", "duplicate", "blacklist"} \subseteq Rules
    BY DEF Rules
  <2>3. CASE job[p].pc = "single"
    <3>1. Goto(p, "daily", NoRow)
      BY <2>3 DEF StatementFails, At
    <3> QED BY <2>1, <2>2, <2>3, <3>1, GotoAssigns DEF IInv
  <2>4. CASE job[p].pc = "daily"
    <3>1. Goto(p, "monthly", NoRow)
      BY <2>4 DEF StatementFails, At
    <3> QED BY <2>1, <2>2, <2>4, <3>1, GotoAssigns DEF IInv
  <2>5. CASE job[p].pc = "monthly"
    <3>1. Goto(p, "duplicate", NoRow)
      BY <2>5 DEF StatementFails, At
    <3> QED BY <2>1, <2>2, <2>5, <3>1, GotoAssigns DEF IInv
  <2>6. CASE job[p].pc = "duplicate"
    <3>1. Verdict(p, "ALLOW")
      BY <2>6 DEF StatementFails, At
    <3>2. PICK j \in Job : j.pc = "store" /\ job' = [job EXCEPT ![p] = j]
      BY <3>1, VerdictAssigns DEF IInv
    <3>3. "store" \notin Rules
      BY DEF Rules
    <3> QED BY <2>6, <3>2, <3>3
  <2>7. CASE job[p].pc = "store" /\ job[p].action # "ALLOW"
    <3>1. job' = [job EXCEPT ![p] = [NoJob EXCEPT !.pc = "done"]]
      BY <2>7 DEF StatementFails, At
    <3>2. [NoJob EXCEPT !.pc = "done"] \in Job /\ [NoJob EXCEPT !.pc = "done"].pc = "done"
      BY DEF NoJob, Job
    <3>3. "done" \notin Rules
      BY DEF Rules
    <3> QED BY <2>7, <3>1, <3>2, <3>3
  <2>8. CASE /\ job[p].pc \notin {"single", "daily", "monthly", "duplicate"}
             /\ ~(job[p].pc = "store" /\ job[p].action # "ALLOW")
    <3>1. job' = [job EXCEPT ![p] = [NoJob EXCEPT !.pc = "queued"]]
      BY <2>8 DEF StatementFails, At
    <3>2. [NoJob EXCEPT !.pc = "queued"] \in Job /\ [NoJob EXCEPT !.pc = "queued"].pc = "queued"
      BY DEF NoJob, Job
    <3>3. "queued" \notin Rules
      BY DEF Rules
    <3> QED BY <2>8, <3>1, <3>2, <3>3
  <2> QED BY <2>3, <2>4, <2>5, <2>6, <2>7, <2>8
<1>5. job'[p] = j
  BY <1>4 DEF IInv, TypeOK
<1>6. payments' = [payments EXCEPT ![p].status = payments[p].status]
  BY <1>1, <1>3 DEF Row, IInv, TypeOK
<1>7. JobOK(p)'
  <2>1. p \in covered => job[p].pc = "blacklist" \/ (job[p].pc = "store" /\ job[p].action = "REJECT")
    BY <1>1, <1>3 DEF JobOK, At
  <2> QED BY <1>1, <1>3, <1>4, <1>5, <2>1 DEF JobOK, At, Client, CheckBlacklist, tables
<1>8. ~Cleared(p)'
  BY <1>1 DEF Cleared
<1>9. faults' \in 0..MaxFaults /\ judged' \in [Payments -> 0..MaxTime]
  BY <1>1, Constants DEF IInv, TypeOK
<1> QED BY <1>1, <1>2, <1>3, <1>4, <1>6, <1>7, <1>8, <1>9, RowStep

LEMMA CancelPreserves ==
  ASSUME IInv, NEW p \in Payments, CancelPayment(p)
  PROVE  IInv'
<1>1. /\ p \in Rows /\ faults < MaxFaults /\ faults' = faults + 1
      /\ payments' = [payments EXCEPT ![p].status = "CANCELED"]
      /\ disturbed' = IF At(p, "done") THEN disturbed ELSE disturbed \cup {p}
      /\ UNCHANGED <<job, now, judged, covered, retuned, rescheduled>> /\ UNCHANGED tables
  BY DEF CancelPayment
<1>2. payments[p] \in Row /\ JobOK(p) /\ job[p] \in Job /\ job[p].pc # "none"
  BY <1>1, Facts
<1>3. payments'[p].status = "CANCELED" /\ payments'[p].client = payments[p].client
      /\ payments'[p].document = payments[p].document
  BY <1>1, <1>2 DEF Row, IInv, TypeOK
<1>4. job' = [job EXCEPT ![p] = job[p]] /\ "CANCELED" \in Status
  BY <1>1 DEF Status, Dropped, IInv, TypeOK
<1>5. JobOK(p)'
  BY <1>1, <1>2, <1>3 DEF JobOK, At, Client, CheckBlacklist, tables
<1>6. ~Cleared(p)'
  BY <1>1, <1>3 DEF Cleared, At
<1>7. faults' \in 0..MaxFaults /\ judged' \in [Payments -> 0..MaxTime]
  BY <1>1, Constants DEF IInv, TypeOK
<1>8. /\ job[p].pc \in {"dailySum", "monthlySum"} => job[p].read \in Limits
      /\ job[p].pc = "find" => job[p].read \in Rule
  BY DEF At, IInv, TypeOK
<1> QED BY <1>1, <1>2, <1>4, <1>5, <1>6, <1>7, <1>8, RowStep

LEMMA ReceivePreserves ==
  ASSUME IInv, NEW p \in Payments, Receive(p)
  PROVE  IInv'
<1>1. PICK r \in Requests :
        /\ payments[p] = NoRow
        /\ payments' = [payments EXCEPT ![p] =
             [client |-> r.client, amount |-> r.amount, document |-> r.document,
              beneficiary |-> r.beneficiary, created |-> now, status |-> "RECEIVED"]]
        /\ job' = [job EXCEPT ![p] = [NoJob EXCEPT !.pc = "queued"]]
        /\ covered' = IF r.client # NoClient /\ \E c \in {Everyone, r.client} : <<c, r.document>> \in blacklist
                      THEN covered \cup {p} ELSE covered
        /\ UNCHANGED <<now, faults, judged, retuned, rescheduled, disturbed>> /\ UNCHANGED tables
  BY DEF Receive
<1> DEFINE row == [client |-> r.client, amount |-> r.amount, document |-> r.document,
                   beneficiary |-> r.beneficiary, created |-> now, status |-> "RECEIVED"]
           j == [NoJob EXCEPT !.pc = "queued"]
<1>2. row \in Row /\ row # NoRow
  <2>1. r \in Request /\ now \in 0..MaxTime
    BY Constants DEF IInv, TypeOK
  <2>2. row \in Row
    BY <2>1 DEF Request, Row, Status
  <2> QED BY <2>2, Constants
<1>3. j \in Job /\ j.pc = "queued"
  BY DEF NoJob, Job
<1>4. row.client = r.client /\ row.document = r.document /\ row.status = "RECEIVED"
  OBVIOUS
<1>5. /\ payments' = [payments EXCEPT ![p] = row] /\ job' = [job EXCEPT ![p] = j]
  BY <1>1
<1> HIDE DEF row, j
<1>6. /\ payments'[p] = row /\ job'[p] = j /\ \A q \in Payments \ {p} : payments'[q] = payments[q] /\ job'[q] = job[q]
      /\ Rows' = Rows \cup {p} /\ p \notin Rows
  BY <1>1, <1>2, <1>5 DEF Rows, IInv, TypeOK
<1>7. TypeOK'
  <2>1. payments' \in [Payments -> Row \cup {NoRow}] /\ job' \in [Payments -> Job] /\ covered' \subseteq Payments
    BY <1>1, <1>2, <1>3, <1>5 DEF IInv, TypeOK
  <2>2. \A q \in Payments : /\ At(q, "dailySum")' \/ At(q, "monthlySum")' => job'[q].read \in Limits
                            /\ At(q, "find")' => job'[q].read \in Rule
                            /\ payments'[q] = NoRow <=> At(q, "none")'
    BY <1>2, <1>3, <1>6 DEF At, IInv, TypeOK
  <2> QED BY <1>1, <2>1, <2>2 DEF tables, IInv, TypeOK
<1>8. JobOK(p)'
  <2>1. p \in covered' => /\ r.client # NoClient /\ \E c \in {Everyone, r.client} : <<c, r.document>> \in blacklist
    BY <1>1, <1>6 DEF IInv
  <2>2. r.client \in Clients \cup {NoClient}
    BY Constants DEF Request
  <2>3. blacklist \subseteq (Clients \cup {Everyone}) \X Documents /\ blacklist' = blacklist
    BY <1>1 DEF IInv, TypeOK, tables
  <2>4. p \in covered' => /\ Client(p)' \in Clients /\ payments'[p].document \in Documents
                          /\ CheckBlacklist(payments[p].document, Client(p))' # {}
    <3> SUFFICES ASSUME p \in covered'
                 PROVE  /\ Client(p)' \in Clients /\ payments'[p].document \in Documents
                        /\ CheckBlacklist(payments[p].document, Client(p))' # {}
      OBVIOUS
    <3>1. PICK c \in {Everyone, r.client} : <<c, r.document>> \in blacklist
      BY <2>1
    <3>2. r.document \in Documents /\ r.client \in Clients
      BY <2>1, <2>2, <2>3, <3>1
    <3>3. <<c, r.document>> \in {e \in blacklist' : e[2] = r.document /\ e[1] \in {Everyone, r.client}}
      BY <2>3, <3>1
    <3> QED BY <1>4, <1>6, <3>2, <3>3 DEF Client, CheckBlacklist
  <2> QED BY <1>3, <1>4, <1>6, <2>4 DEF JobOK, At, Rules
<1>9. ASSUME NEW q \in Rows
      PROVE  /\ JobOK(q)' /\ (Cleared(q)' => Cleared(q)) /\ ClearedAt(q)' = ClearedAt(q)
             /\ payments'[q] = payments[q] /\ Client(q)' = Client(q)
  <2>1. q \in Payments \ {p} /\ JobOK(q)
    BY <1>6, Facts
  <2>2. payments'[q] = payments[q] /\ job'[q] = job[q]
    BY <1>6, <2>1
  <2>3. q \in covered' => q \in covered
    BY <1>1, <2>1
  <2> QED BY <1>1, <2>1, <2>2, <2>3 DEF JobOK, Cleared, ClearedAt, At, Client, CheckBlacklist, tables
<1>10. \A q1, q2 \in Rows : TwinsOK(q1, q2)'
  <2> SUFFICES ASSUME NEW q1 \in Rows, NEW q2 \in Rows PROVE TwinsOK(q1, q2)'
    OBVIOUS
  <2>1. TwinsOK(q1, q2)
    BY DEF IInv
  <2> QED BY <1>1, <1>9, <2>1 DEF TwinsOK, Twins, Missed, tables
<1>11. ~Cleared(p)'
  BY <1>3, <1>4, <1>6 DEF Cleared, At
<1>12. \A q1, q2 \in Rows' : TwinsOK(q1, q2)'
  BY <1>6, <1>10, <1>11 DEF TwinsOK
<1>13. covered' \subseteq Rows' /\ rescheduled' \subseteq Rows'
  BY <1>1, <1>6 DEF IInv
<1> QED BY <1>6, <1>7, <1>8, <1>9, <1>12, <1>13 DEF IInv

(* A change of the rules, or a tick, touches no payment.                     *)
LEMMA SettingsStep ==
  ASSUME IInv, TypeOK', UNCHANGED <<payments, job, judged, covered, disturbed>>,
         now' \in Nat, now' >= now,
         blacklist \subseteq blacklist', retuned \subseteq retuned',
         rescheduled \subseteq rescheduled', rescheduled' \subseteq rescheduled \cup Rows,
         \A c \in Clients : Of(c) = {} \/ c \in retuned' \/ rules'[c] = rules[c]
  PROVE  IInv'
<1>1. Rows' = Rows /\ covered' \subseteq Rows' /\ rescheduled' \subseteq Rows'
  BY DEF Rows, IInv
<1>2. ASSUME NEW q \in Rows
      PROVE  /\ payments[q] \in Row /\ (Client(q) \in Clients \ retuned' => rules'[Client(q)] = rules[Client(q)])
             /\ Client(q)' = Client(q) /\ (Cleared(q)' <=> Cleared(q))
             /\ ClearedAt(q)' \in Nat /\ ClearedAt(q) \in Nat /\ ClearedAt(q)' >= ClearedAt(q)
  <2>1. q \in Of(Client(q)) /\ payments[q] \in Row /\ judged[q] \in Nat /\ now \in Nat
    BY Facts, Constants DEF Of, Client
  <2> QED BY <2>1 DEF Client, Cleared, ClearedAt, At
<1>3. ASSUME NEW q \in Rows PROVE JobOK(q)'
  <2>1. JobOK(q)
    BY DEF IInv
  <2>2. q \in covered => CheckBlacklist(payments[q].document, Client(q))' # {}
    BY <2>1 DEF JobOK, CheckBlacklist, Client
  <2>3. job[q].pc \in Rules => Client(q) \in Clients
    BY <2>1 DEF JobOK
  <2> QED BY <1>2, <2>1, <2>2, <2>3 DEF JobOK, At, Rules
<1>4. ASSUME NEW q1 \in Rows, NEW q2 \in Rows PROVE TwinsOK(q1, q2)'
  <2> SUFFICES ASSUME Cleared(q1), Cleared(q2), Twins(q1, q2), Client(q1) = Client(q2),
                      Client(q1) \in Clients \ retuned', rules[Client(q1)] # NoRule,
                      rules[Client(q1)].action # "ALLOW"
               PROVE  Missed(q1, q2)' \/ Missed(q2, q1)'
    BY <1>2 DEF TwinsOK, Twins
  <2>1. TwinsOK(q1, q2)
    BY DEF IInv
  <2>2. Missed(q1, q2) \/ Missed(q2, q1)
    BY <2>1 DEF TwinsOK
  <2>3. rules[Client(q1)] \in Rule
    BY DEF IInv, TypeOK
  <2>4. /\ payments[q1].created \in Nat /\ payments[q2].created \in Nat /\ rules[Client(q1)].window \in Nat
        /\ Client(q2) = Client(q1)
    BY <1>2, <2>3, Constants DEF Row, Rule
  <2>5. Missed(q1, q2) => Missed(q1, q2)'
    BY <1>2, <2>4 DEF Missed
  <2>6. Missed(q2, q1) => Missed(q2, q1)'
    BY <1>2, <2>4 DEF Missed
  <2> QED BY <2>2, <2>5, <2>6
<1> QED BY <1>1, <1>3, <1>4 DEF IInv

LEMMA SettingsPreserve ==
  ASSUME IInv, (\E c \in Clients : SetClientLimits(c) \/ SetDuplicateRule(c)) \/ AddBlacklistEntry \/ Tick
  PROVE  IInv'
<1>1. now \in Nat /\ changes \in 0..MaxChanges
  BY Constants DEF IInv, TypeOK
<1>2. ASSUME NEW c \in Clients, SetClientLimits(c) PROVE IInv'
  <2>1. PICK l \in Limits : limits' = [limits EXCEPT ![c] = l]
    BY <1>2, Constants DEF SetClientLimits, InsertClientLimit, UpdateClientLimit
  <2>2. changes' \in 0..MaxChanges /\ retuned \subseteq retuned' /\ retuned' \subseteq Clients
        /\ UNCHANGED <<payments, job, rules, blacklist, now, faults, judged, covered, rescheduled, disturbed>>
    BY <1>1, <1>2, Constants DEF SetClientLimits, Change, Retune, IInv, TypeOK
  <2>3. TypeOK'
    BY <2>1, <2>2 DEF IInv, TypeOK, At
  <2> QED BY <1>1, <2>2, <2>3, SettingsStep
<1>3. ASSUME NEW c \in Clients, SetDuplicateRule(c) PROVE IInv'
  <2>1. PICK r \in Rule : rules' = [rules EXCEPT ![c] = r]
    BY <1>3, Constants DEF SetDuplicateRule, InsertDuplicateRule
  <2>2. changes' \in 0..MaxChanges /\ retuned \subseteq retuned' /\ retuned' \subseteq Clients
        /\ UNCHANGED <<payments, job, limits, blacklist, now, faults, judged, covered, rescheduled, disturbed>>
    BY <1>1, <1>3, Constants DEF SetDuplicateRule, Change, Retune, IInv, TypeOK
  <2>3. TypeOK'
    BY <2>1, <2>2 DEF IInv, TypeOK, At
  <2>4. \A d \in Clients : Of(d) = {} \/ d \in retuned' \/ rules'[d] = rules[d]
    BY <1>3, <2>1 DEF SetDuplicateRule, Retune, IInv, TypeOK
  <2> QED BY <1>1, <2>2, <2>3, <2>4, SettingsStep
<1>4. CASE AddBlacklistEntry
  <2>1. /\ changes' \in 0..MaxChanges /\ blacklist \subseteq blacklist'
        /\ blacklist' \subseteq (Clients \cup {Everyone}) \X Documents
        /\ UNCHANGED <<payments, job, limits, rules, now, faults, judged, covered, retuned, rescheduled, disturbed>>
    BY <1>1, <1>4, Constants DEF AddBlacklistEntry, InsertBlacklistEntry, Change, IInv, TypeOK
  <2>2. TypeOK'
    BY <2>1 DEF IInv, TypeOK, At
  <2> QED BY <1>1, <2>1, <2>2, SettingsStep
<1>5. CASE Tick
  <2>1. /\ now' = now + 1 /\ now' \in 0..MaxTime
        /\ UNCHANGED <<payments, job, faults, judged, covered, retuned, rescheduled, disturbed>> /\ UNCHANGED tables
    BY <1>1, <1>5, Constants DEF Tick, IInv, TypeOK
  <2>2. TypeOK'
    BY <2>1 DEF IInv, TypeOK, At, tables
  <2> QED BY <1>1, <2>1, <2>2, SettingsStep DEF tables
<1> QED BY <1>2, <1>3, <1>4, <1>5

(* A reschedule reads, and moves a row past the rules: it is disturbed then.  *)
LEMMA ReschedulePreserves ==
  ASSUME IInv, NEW p \in Payments, RescheduleReads(p) \/ ReschedulePayment(p)
  PROVE  IInv'
<1>1. CASE RescheduleReads(p)
  <2>1. /\ UNCHANGED <<payments, job, judged, covered, disturbed>> /\ UNCHANGED tables
        /\ now' = now /\ retuned' = retuned /\ rescheduled' = rescheduled \cup {p} /\ p \in Rows
        /\ faults' \in 0..MaxFaults /\ now \in Nat
    BY <1>1, Constants DEF RescheduleReads, IInv, TypeOK
  <2>2. TypeOK'
    BY <2>1 DEF IInv, TypeOK, At, tables
  <2> QED BY <2>1, <2>2, SettingsStep DEF tables
<1>2. CASE ReschedulePayment(p)
  <2>1. /\ p \in rescheduled
        /\ payments' = [payments EXCEPT ![p].status = "PREVALIDATED"]
        /\ disturbed' = IF payments[p].status = "PREVALIDATED" THEN disturbed ELSE disturbed \cup {p}
        /\ UNCHANGED <<job, now, faults, judged, covered, retuned, rescheduled>> /\ UNCHANGED tables
    BY <1>2 DEF ReschedulePayment
  <2>2. p \in Rows /\ payments[p] \in Row /\ JobOK(p) /\ job[p] \in Job /\ job[p].pc # "none"
    BY <2>1, Facts DEF IInv
  <2>3. payments'[p].status = "PREVALIDATED" /\ payments'[p].client = payments[p].client
        /\ payments'[p].document = payments[p].document
    BY <2>1, <2>2 DEF Row, IInv, TypeOK
  <2>4. job' = [job EXCEPT ![p] = job[p]] /\ "PREVALIDATED" \in Status
    BY <2>1 DEF Status, IInv, TypeOK
  <2>5. JobOK(p)'
    BY <2>1, <2>2, <2>3 DEF JobOK, At, Client, CheckBlacklist, tables
  <2>6. Cleared(p)' => Cleared(p) /\ ClearedAt(p)' = ClearedAt(p)
    BY <2>1 DEF Cleared, ClearedAt, At
  <2>7. faults' \in 0..MaxFaults /\ judged' \in [Payments -> 0..MaxTime]
    BY <2>1 DEF IInv, TypeOK
  <2>8. /\ job[p].pc \in {"dailySum", "monthlySum"} => job[p].read \in Limits
        /\ job[p].pc = "find" => job[p].read \in Rule
    BY DEF At, IInv, TypeOK
  <2> QED BY <2>1, <2>2, <2>4, <2>5, <2>6, <2>7, <2>8, RowStep
<1> QED BY <1>1, <1>2

LEMMA Initially == Init => IInv
<1> SUFFICES ASSUME Init PROVE IInv
  OBVIOUS
<1>1. NoJob \in Job /\ NoJob.pc = "none"
  BY DEF NoJob, Job
<1>2. TypeOK
  BY <1>1, Constants DEF Init, TypeOK, At
<1> QED BY <1>2 DEF Init, IInv, Rows

LEMMA NextPreserves ==
  ASSUME IInv, [Next]_vars
  PROVE  IInv'
<1>1. CASE UNCHANGED vars
  <2>1. now' \in Nat /\ now' >= now
    BY <1>1, Constants DEF vars, IInv, TypeOK
  <2>2. TypeOK'
    BY <1>1 DEF vars, IInv, TypeOK, At
  <2> QED BY <1>1, <2>1, <2>2, SettingsStep DEF vars
<1>2. ASSUME NEW p \in Payments, Prevalidates(p) PROVE IInv'
  BY <1>2, EvaluatePreserves, BlacklistPreserves, LimitRulesPreserve, DuplicatePreserves, FindPreserves,
     StorePreserves DEF Prevalidates
<1>3. CASE Next
  BY <1>2, <1>3, ReceivePreserves, FailurePreserves, CancelPreserves, ReschedulePreserves, SettingsPreserve DEF Next
<1> QED BY <1>1, <1>3

(* The inductive invariant: what a job has read still is the rule, a covered *)
(* payment is only ever refused, and of two cleared twins one had the other  *)
(* outside its window.                                                       *)
THEOREM PreAnalysisInvariant == Spec => []IInv
<1>1. IInv /\ [Next]_vars => IInv'
  BY NextPreserves
<1> QED BY <1>1, Initially, PTL DEF Spec

(* Of two payments of one amount to one beneficiary, judged within the       *)
(* client's window of each other, one is flagged, however many jobs look for *)
(* duplicates at the same time: each row is in the table before its job runs.*)
THEOREM TwinsFlagged == Spec => []TwinsAreFlagged
<1>1. ASSUME IInv PROVE TwinsAreFlagged
  <2> SUFFICES ASSUME NEW c \in Clients \ retuned, rules[c] # NoRule, rules[c].action # "ALLOW",
                      NEW p \in Passed(c), NEW q \in Passed(c), Twins(p, q)
               PROVE  \/ judged[p] >= payments[q].created + rules[c].window
                      \/ judged[q] >= payments[p].created + rules[c].window
    BY DEF TwinsAreFlagged
  <2>1. /\ p \in Rows /\ q \in Rows /\ Client(p) = c /\ Client(q) = c
        /\ p \notin disturbed /\ payments[p].status = "PREVALIDATED"
        /\ q \notin disturbed /\ payments[q].status = "PREVALIDATED"
    BY DEF Passed, Of, Client
  <2>2. At(p, "done") /\ At(q, "done")
    BY <1>1, <2>1 DEF IInv, JobOK
  <2>3. TwinsOK(p, q)
    BY <1>1, <2>1 DEF IInv
  <2> QED BY <2>1, <2>2, <2>3 DEF TwinsOK, Cleared, ClearedAt, Missed
<1> QED BY <1>1, PreAnalysisInvariant, PTL

(* The rules never let a payment pass whose document was blacklisted when it *)
(* was received, also when statements of its job fail; only an operator's    *)
(* reschedule takes one past them.                                           *)
THEOREM BlacklistStands == Spec => []BlacklistHolds
<1>1. IInv => BlacklistHolds
  BY DEF IInv, JobOK, BlacklistHolds
<1> QED BY <1>1, PreAnalysisInvariant, PTL

-----------------------------------------------------------------------------
(* The sums.                                                                 *)

\* Total, of any table of payments.
TotalOf(rows, S) == MapThenSumSet(LAMBDA p : rows[p].amount, S)

\* h adds up f on every subset of S, in whatever order.
IsSum(h, f, S) ==
  /\ h \in [SUBSET S -> Nat] /\ h[{}] = 0
  /\ \A t \in SUBSET S : \A x \in t : h[t] = f[x] + h[t \ {x}]

(* Induction over the subsets of a finite set, with the good ones as a set   *)
(* G: a smallest subset outside of G would have all of its own subsets in G. *)
LEMMA SubsetInduction ==
  ASSUME NEW S, IsFiniteSet(S), NEW G,
         \A t \in SUBSET S : (\A u \in SUBSET t : u # t => u \in G) => t \in G
  PROVE  S \in G
<1> SUFFICES ASSUME S \notin G PROVE FALSE
  OBVIOUS
<1>1. IsWellFoundedOn(StrictSubsetOrdering(S), SUBSET S)
  <2>1. FiniteSubsetsOf(S) = SUBSET S
    BY FS_FiniteSubsetsOfFinite
  <2>2. IsWellFoundedOn(StrictSubsetOrdering(S), FiniteSubsetsOf(S))
    BY FS_StrictSubsetOrderingWellFounded
  <2> QED BY <2>1, <2>2
<1>2. PICK T : T = (SUBSET S) \ G
  OBVIOUS
<1>3. PICK m \in T : \A u \in T : <<u, m>> \notin StrictSubsetOrdering(S)
  BY <1>1, <1>2, WFMin
<1>4. ASSUME NEW u \in SUBSET m, u # m PROVE u \in G
  <2>1. u \in SUBSET S /\ m \in SUBSET S
    BY <1>2, <1>3
  <2>2. <<u, m>> \in StrictSubsetOrdering(S)
    BY <1>4, <2>1 DEF StrictSubsetOrdering
  <2> QED BY <1>2, <1>3, <2>1, <2>2
<1> QED BY <1>2, <1>3, <1>4

(* Every finite family of numbers has a sum.                                 *)
LEMMA SumExists ==
  ASSUME NEW S, IsFiniteSet(S), NEW f, \A x \in S : f[x] \in Nat
  PROVE  \E h : IsSum(h, f, S)
<1> DEFINE G == {t \in SUBSET S : \E h : IsSum(h, f, t)}
<1>1. {} \in G
  <2>1. IsSum([t \in SUBSET {} |-> 0], f, {})
    BY DEF IsSum
  <2> QED BY <2>1
<1>2. ASSUME NEW t \in SUBSET S, NEW y \in S, y \notin t, t \in G PROVE t \cup {y} \in G
  <2>1. PICK h : IsSum(h, f, t)
    BY <1>2
  <2>2. \E k : IsSum(k, f, t \cup {y})
    <3> DEFINE k == [u \in SUBSET (t \cup {y}) |-> IF y \in u THEN f[y] + h[u \ {y}] ELSE h[u]]
    <3>1. ASSUME NEW u \in SUBSET (t \cup {y}) PROVE u \ {y} \in SUBSET t /\ h[u \ {y}] \in Nat
      BY <2>1 DEF IsSum
    <3>2. k \in [SUBSET (t \cup {y}) -> Nat] /\ k[{}] = 0
      <4>1. ASSUME NEW u \in SUBSET (t \cup {y}), y \notin u PROVE h[u] \in Nat
        BY <2>1, <4>1 DEF IsSum
      <4> QED BY <2>1, <3>1, <4>1 DEF IsSum
    <3>3. ASSUME NEW u \in SUBSET (t \cup {y}), NEW x \in u PROVE k[u] = f[x] + k[u \ {x}]
      <4>1. CASE x = y
        <5>1. k[u] = f[y] + h[u \ {y}] /\ k[u \ {x}] = h[u \ {y}]
          BY <4>1
        <5> QED BY <4>1, <5>1
      <4>2. CASE x # y /\ y \in u
        <5>1. h[u \ {y}] = f[x] + h[(u \ {y}) \ {x}]
          BY <2>1, <3>1, <4>2 DEF IsSum
        <5>2. (u \ {y}) \ {x} = (u \ {x}) \ {y}
          OBVIOUS
        <5>3. k[u] = f[y] + h[u \ {y}] /\ k[u \ {x}] = f[y] + h[(u \ {x}) \ {y}]
          BY <3>1, <4>2
        <5>4. h[(u \ {x}) \ {y}] \in Nat /\ f[x] \in Nat /\ f[y] \in Nat
          BY <3>1
        <5>5. PICK n \in Nat : n = h[(u \ {x}) \ {y}]
          BY <5>4
        <5>6. k[u] = f[y] + (f[x] + n) /\ k[u \ {x}] = f[y] + n
          BY <5>1, <5>2, <5>3, <5>5
        <5> HIDE DEF k
        <5> QED BY <5>4, <5>6
      <4>3. CASE y \notin u
        <5>1. u \in SUBSET t /\ u \ {x} \in SUBSET t
          BY <4>3
        <5>2. h[u] = f[x] + h[u \ {x}]
          BY <2>1, <5>1 DEF IsSum
        <5> QED BY <4>3, <5>1, <5>2
      <4> QED BY <4>1, <4>2, <4>3
    <3> HIDE DEF k
    <3>4. IsSum(k, f, t \cup {y})
      BY <3>2, <3>3 DEF IsSum
    <3> QED BY <3>4
  <2> QED BY <1>2, <2>2
<1> HIDE DEF G
<1>3. ASSUME NEW t \in SUBSET S, \A u \in SUBSET t : u # t => u \in G PROVE t \in G
  <2>1. CASE t = {}
    BY <1>1, <2>1
  <2>2. CASE t # {}
    <3>1. PICK y \in t : TRUE
      BY <2>2
    <3>2. t \ {y} \in G /\ t = (t \ {y}) \cup {y}
      BY <1>3, <3>1
    <3>3. t \ {y} \in SUBSET S /\ y \in S /\ y \notin t \ {y}
      BY <3>1
    <3> QED BY <1>2, <3>2, <3>3
  <2> QED BY <2>1, <2>2
<1>4. S \in G
  BY <1>3, SubsetInduction
<1> QED BY <1>4 DEF G

(* It is the one the fold behind Total computes, which takes the elements in *)
(* the order its CHOOSE gives.                                               *)
LEMMA TotalIsSum ==
  ASSUME NEW S, IsFiniteSet(S), NEW rows, NEW f, \A x \in S : f[x] \in Nat /\ rows[x].amount = f[x],
         NEW h, IsSum(h, f, S)
  PROVE  TotalOf(rows, S) = h[S]
<1> DEFINE eq(g) == g = [s \in SUBSET S |-> IF s = {} THEN 0
                            ELSE LET x == CHOOSE x \in s : TRUE IN rows[x].amount + g[s \ {x}]]
<1> DEFINE iter == CHOOSE g : eq(g)
<1>1. TotalOf(rows, S) = iter[S]
  BY DEF TotalOf, MapThenSumSet, MapThenFoldSet
<1>2. eq(h)
  <2> DEFINE body(s) == IF s = {} THEN 0 ELSE LET x == CHOOSE x \in s : TRUE IN rows[x].amount + h[s \ {x}]
  <2>1. ASSUME NEW s \in SUBSET S PROVE h[s] = body(s)
    <3>1. CASE s = {}
      BY <3>1 DEF IsSum
    <3>2. CASE s # {}
      <4>1. (CHOOSE x \in s : TRUE) \in s
        BY <3>2
      <4> QED BY <3>2, <4>1 DEF IsSum
    <3> QED BY <3>1, <3>2
  <2>2. h = [s \in SUBSET S |-> h[s]]
    BY DEF IsSum
  <2> QED BY <2>1, <2>2
<1> HIDE DEF eq
<1>3. eq(iter)
  BY <1>2
<1> DEFINE G == {t \in SUBSET S : iter[t] = h[t]}
<1> HIDE DEF iter
<1>4. \A s \in SUBSET S : iter[s] = IF s = {} THEN 0 ELSE LET x == CHOOSE x \in s : TRUE IN rows[x].amount + iter[s \ {x}]
  BY <1>3 DEF eq
<1>5. ASSUME NEW t \in SUBSET S, \A u \in SUBSET t : u # t => u \in G PROVE t \in G
  <2>1. CASE t = {}
    BY <1>4, <2>1 DEF IsSum
  <2>2. CASE t # {}
    <3>1. PICK x \in t : x = CHOOSE y \in t : TRUE
      BY <2>2
    <3>2. iter[t] = rows[x].amount + iter[t \ {x}] /\ h[t] = f[x] + h[t \ {x}]
      BY <1>4, <2>2, <3>1 DEF IsSum
    <3>3. iter[t \ {x}] = h[t \ {x}]
      BY <1>5
    <3> QED BY <3>2, <3>3
  <2> QED BY <2>1, <2>2
<1> HIDE DEF G
<1>6. S \in G
  BY <1>5, SubsetInduction
<1> QED BY <1>1, <1>6 DEF G

(* Of no payments, it is 0.                                                  *)
LEMMA NothingIsZero ==
  ASSUME NEW rows
  PROVE  TotalOf(rows, {}) = 0
<1>1. IsFiniteSet({}) /\ \A x \in {} : rows[x].amount \in Nat
  BY FS_EmptySet
<1>2. PICK f : f = [x \in {} |-> 0]
  OBVIOUS
<1>3. PICK h : IsSum(h, f, {})
  BY <1>1, SumExists
<1>4. TotalOf(rows, {}) = h[{}]
  BY <1>1, <1>3, TotalIsSum
<1> QED BY <1>3, <1>4 DEF IsSum

(* Adding payments to a set does not lower its total.                        *)
LEMMA TotalGrows ==
  ASSUME NEW S, IsFiniteSet(S), NEW rows, \A x \in S : rows[x].amount \in Nat, NEW A \in SUBSET S
  PROVE  /\ TotalOf(rows, A) \in Nat /\ TotalOf(rows, S) \in Nat
         /\ TotalOf(rows, A) <= TotalOf(rows, S)
<1> DEFINE f == [x \in S |-> rows[x].amount]
<1>1. \A x \in S : f[x] \in Nat /\ rows[x].amount = f[x]
  OBVIOUS
<1> HIDE DEF f
<1>2. PICK h : IsSum(h, f, S)
  BY <1>1, SumExists
<1>3. TotalOf(rows, S) = h[S]
  BY <1>1, <1>2, TotalIsSum
<1>4. IsFiniteSet(A)
  BY FS_Subset
<1>5. TotalOf(rows, A) = h[A]
  <2> DEFINE k == [t \in SUBSET A |-> h[t]]
  <2>1. IsSum(k, f, A)
    <3>1. \A t \in SUBSET A : t \in SUBSET S /\ h[t] \in Nat /\ k[t] = h[t]
      BY <1>2 DEF IsSum
    <3>2. \A t \in SUBSET A : \A x \in t : h[t] = f[x] + h[t \ {x}] /\ t \ {x} \in SUBSET A
      BY <1>2 DEF IsSum
    <3>3. k[{}] = 0
      BY <1>2 DEF IsSum
    <3> QED BY <3>1, <3>2, <3>3 DEF IsSum
  <2>2. k[A] = h[A]
    OBVIOUS
  <2> HIDE DEF k
  <2> QED BY <1>1, <1>4, <2>1, <2>2, TotalIsSum
<1>6. h[A] \in Nat /\ h[S] \in Nat
  BY <1>2 DEF IsSum
<1>7. h[A] <= h[S]
  <2> DEFINE G == {t \in SUBSET (S \ A) : h[A] <= h[A \cup t]}
  <2>1. ASSUME NEW t \in SUBSET (S \ A), \A u \in SUBSET t : u # t => u \in G PROVE t \in G
    <3>1. CASE t = {}
      <4>1. A \cup t = A
        BY <3>1
      <4>2. h[A] <= h[A]
        BY <1>6
      <4> QED BY <4>1, <4>2
    <3>2. CASE t # {}
      <4>1. PICK x \in t : TRUE
        BY <3>2
      <4>2. t \ {x} \in G
        BY <2>1, <4>1
      <4>3. (A \cup t) \ {x} = A \cup (t \ {x}) /\ A \cup t \in SUBSET S /\ x \in A \cup t /\ x \in S
        BY <4>1
      <4>4. h[A \cup t] = f[x] + h[A \cup (t \ {x})]
        BY <1>2, <4>3 DEF IsSum
      <4>5. h[A \cup (t \ {x})] \in Nat /\ f[x] \in Nat
        BY <1>1, <1>2, <4>3 DEF IsSum
      <4>6. h[A] <= h[A \cup (t \ {x})]
        BY <4>2
      <4> HIDE DEF G
      <4>7. h[A] <= h[A \cup t]
        BY <1>6, <4>4, <4>5, <4>6
      <4> QED BY <4>7 DEF G
    <3> QED BY <3>1, <3>2
  <2>2. IsFiniteSet(S \ A)
    BY FS_Difference
  <2> HIDE DEF G
  <2>3. S \ A \in G
    BY <2>1, <2>2, SubsetInduction
  <2>4. A \cup (S \ A) = S
    OBVIOUS
  <2> QED BY <2>3, <2>4 DEF G
<1> QED BY <1>3, <1>5, <1>6, <1>7

(* A total depends on the amounts of its own payments only.                  *)
LEMMA TotalOfSame ==
  ASSUME NEW S, IsFiniteSet(S), NEW rows, NEW rows2,
         \A x \in S : rows[x].amount \in Nat /\ rows2[x].amount = rows[x].amount
  PROVE  TotalOf(rows2, S) = TotalOf(rows, S)
<1> DEFINE f == [x \in S |-> rows[x].amount]
<1>1. \A x \in S : f[x] \in Nat /\ rows[x].amount = f[x] /\ rows2[x].amount = f[x]
  OBVIOUS
<1> HIDE DEF f
<1>2. PICK h : IsSum(h, f, S)
  BY <1>1, SumExists
<1> QED BY <1>1, <1>2, TotalIsSum

-----------------------------------------------------------------------------
(* The limits. A payment joins those a limit counts by the step that passes  *)
(* the limit's rule, and leaves them by a cancelation or by the clock.       *)

LEMMA Periods == Day \in Nat \ {0} /\ Month \in Nat \ {0}
BY PreAnalysisAssumption

LEMMA LimitFacts ==
  ASSUME LimitsIInv, NEW p \in Rows
  PROVE  /\ p \in Payments /\ payments[p] \in Row /\ JobOK(p)
         /\ payments[p].amount \in Nat /\ payments[p].created \in 0..MaxTime
         /\ ClearedAt(p) \in 0..MaxTime /\ now \in 0..MaxTime
         /\ Client(p) = payments[p].client /\ p \in Of(Client(p))
BY Facts DEF LimitsIInv, Row, ClearedAt, Client, Of

(* Any set of rows has a total.                                              *)
LEMMA RowTotals ==
  ASSUME LimitsIInv, NEW S \in SUBSET Rows
  PROVE  /\ IsFiniteSet(S) /\ Total(S) = TotalOf(payments, S) /\ Total(S) \in Nat
         /\ \A A \in SUBSET S : Total(A) <= Total(S)
<1>1. IsFiniteSet(S) /\ \A p \in S : payments[p].amount \in Nat
  BY LimitFacts, FS_Subset DEF LimitsIInv
<1>2. \A A : Total(A) = TotalOf(payments, A)
  BY DEF Total, TotalOf
<1> QED BY <1>1, <1>2, TotalGrows

(* A sum that nobody joins stays within its limit.                           *)
LEMMA SumStays ==
  ASSUME LimitsIInv, NEW c, NEW past, NEW period, NEW limit,
         SumWithin(c, past, period, limit),
         \A p \in Rows : payments'[p].amount = payments[p].amount,
         \A t \in 0..MaxTime : InPeriod(c, past, period, t)' \subseteq InPeriod(c, past, period, t),
         limit \in Nat
  PROVE  limit > 0 => \A t \in 0..MaxTime : TotalOf(payments', InPeriod(c, past, period, t)') <= limit
<1> SUFFICES ASSUME limit > 0, NEW t \in 0..MaxTime
             PROVE  TotalOf(payments', InPeriod(c, past, period, t)') <= limit
  OBVIOUS
<1>1. PICK A : A = InPeriod(c, past, period, t)'
  OBVIOUS
<1>2. PICK S : S = InPeriod(c, past, period, t)
  OBVIOUS
<1>3. A \subseteq S /\ S \subseteq Rows
  BY <1>1, <1>2 DEF InPeriod, Of
<1>4. Total(S) <= limit
  BY <1>2 DEF SumWithin
<1>5. Total(A) <= Total(S) /\ Total(A) \in Nat /\ Total(S) \in Nat /\ Total(A) = TotalOf(payments, A) /\ IsFiniteSet(A)
  BY <1>3, RowTotals
<1>6. TotalOf(payments', A) = TotalOf(payments, A)
  <2>1. \A p \in A : payments[p].amount \in Nat /\ payments'[p].amount = payments[p].amount
    BY <1>3, LimitFacts
  <2> QED BY <1>5, <2>1, TotalOfSame
<1> QED BY <1>1, <1>4, <1>5, <1>6

(* p joins by finding the sum of all rows that count within the limit.       *)
LEMMA SumJoined ==
  ASSUME LimitsIInv, NEW p \in Rows, NEW c, c = Client(p),
         NEW past \in SUBSET Rules, NEW period, NEW limit \in Nat,
         \A q \in Rows : payments'[q].amount = payments[q].amount,
         SumWithin(c, past, period, limit),
         payments[p].status \notin Dropped,
         limit > 0 => Total({q \in Counted(c) : payments[q].created \div period = now \div period})
                        + payments[p].amount <= limit,
         \A t \in 0..MaxTime :
           InPeriod(c, past, period, t)' \subseteq
             InPeriod(c, past, period, t)
               \cup {q \in {p} : payments[p].created \div period = t /\ now \div period = t}
  PROVE  limit > 0 => \A t \in 0..MaxTime : TotalOf(payments', InPeriod(c, past, period, t)') <= limit
<1> SUFFICES ASSUME limit > 0, NEW t \in 0..MaxTime
             PROVE  TotalOf(payments', InPeriod(c, past, period, t)') <= limit
  OBVIOUS
<1>1. PICK A : A = InPeriod(c, past, period, t)'
  OBVIOUS
<1>2. PICK S : S = InPeriod(c, past, period, t)
  OBVIOUS
<1>3. PICK C : C = {q \in Counted(c) : payments[q].created \div period = now \div period}
  OBVIOUS
<1>4. S \subseteq Rows /\ C \subseteq Rows
  BY <1>2, <1>3 DEF InPeriod, Counted, Of
<1>5. Total(S) <= limit /\ Total(C) + payments[p].amount <= limit
  BY <1>2, <1>3 DEF SumWithin
<1>6. A \subseteq S \cup {q \in {p} : payments[p].created \div period = t /\ now \div period = t}
  BY <1>1, <1>2
<1>7. A \subseteq S \/ A \subseteq C
  <2>1. CASE payments[p].created \div period = t /\ now \div period = t
    <3>1. ASSUME NEW q \in S PROVE q \in C
      <4>1. q \in Rows /\ q \in Of(c) /\ Beyond(q, past) /\ payments[q].created \div period = t
        BY <1>2 DEF InPeriod, Of
      <4>2. payments[q].status \notin Dropped
        <5>1. JobOK(q) /\ "done" \notin past
          BY <4>1, LimitFacts DEF Rules
        <5> QED BY <4>1, <5>1 DEF Beyond, Cleared, JobOK, Dropped, At
      <4> QED BY <1>3, <2>1, <4>1, <4>2 DEF Counted
    <3>2. p \in C
      BY <1>3, <2>1, LimitFacts DEF Counted
    <3> QED BY <1>6, <3>1, <3>2
  <2>2. CASE ~(payments[p].created \div period = t /\ now \div period = t)
    BY <1>6, <2>2
  <2> QED BY <2>1, <2>2
<1>8. A \subseteq Rows
  BY <1>4, <1>7
<1>9. Total(A) \in Nat /\ Total(A) = TotalOf(payments, A) /\ IsFiniteSet(A)
      /\ Total(S) \in Nat /\ Total(C) \in Nat /\ payments[p].amount \in Nat
  BY <1>4, <1>8, RowTotals, LimitFacts
<1>10. Total(A) <= limit
  <2>1. Total(A) <= Total(S) \/ Total(A) <= Total(C)
    BY <1>4, <1>7, RowTotals
  <2> QED BY <1>5, <1>9, <2>1
<1>11. TotalOf(payments', A) = TotalOf(payments, A)
  <2>1. \A q \in A : payments[q].amount \in Nat /\ payments'[q].amount = payments[q].amount
    BY <1>8, LimitFacts
  <2> QED BY <1>9, <2>1, TotalOfSame
<1> QED BY <1>1, <1>9, <1>10, <1>11

\* p does not get past a rule by this step.
Stays(p, past) == Beyond(p, past)' => Beyond(p, past) /\ ClearedAt(p)' = ClearedAt(p)

\* Or it does, and the sum it took has room for it.
Fits(p, past, period, limit) ==
  \/ Stays(p, past)
  \/ /\ ClearedAt(p)' = now /\ payments[p].status \notin Dropped
     /\ limit > 0 =>
          Total({q \in Counted(Client(p)) : payments[q].created \div period = now \div period})
            + payments[p].amount <= limit

(* One payment moves: it is enough to look at the limits of its client.      *)
LEMMA LimitsStep ==
  ASSUME LimitsIInv, IInv', NEW p \in Rows, NEW j \in Job, NEW s \in Status,
         job' = [job EXCEPT ![p] = j], payments' = [payments EXCEPT ![p].status = s],
         UNCHANGED tables, UNCHANGED <<now, retuned>>,
         \A q \in Payments \ {p} : judged'[q] = judged[q],
         disturbed' \in {disturbed, disturbed \cup {p}},
         j.pc \in {"dailySum", "monthlySum"} /\ Client(p) \notin retuned => j.read = limits[Client(p)],
         Client(p) \in Clients \ retuned /\ limits[Client(p)] # NoLimits =>
           /\ Beyond(p, PastSingle)' =>
                Beyond(p, PastSingle) \/ ~Exceeds(payments[p].amount, limits[Client(p)].single)
           /\ Fits(p, PastDaily, Day, limits[Client(p)].daily)
           /\ Fits(p, PastMonthly, Month, limits[Client(p)].monthly)
  PROVE  LimitsIInv'
<1>0. p \in Payments /\ payments[p] \in Row /\ IInv /\ TypeOK
  BY LimitFacts DEF LimitsIInv, IInv
<1>1. /\ \A q \in Payments \ {p} : payments'[q] = payments[q] /\ job'[q] = job[q]
      /\ job'[p] = j /\ payments'[p] = [payments[p] EXCEPT !.status = s]
  BY <1>0 DEF TypeOK
<1>2. payments'[p] \in Row /\ payments'[p] # NoRow /\ payments[p] # NoRow
  BY <1>0, <1>1, Constants DEF Row
<1>3. Rows' = Rows
  BY <1>0, <1>1, <1>2 DEF Rows
<1>4. ASSUME NEW q \in Rows
      PROVE  /\ payments'[q].client = payments[q].client /\ payments'[q].amount = payments[q].amount
             /\ payments'[q].created = payments[q].created
  BY <1>0, <1>1 DEF Row, Rows
<1>5. \A c : Of(c)' = Of(c)
  BY <1>3, <1>4 DEF Of
<1>6. ASSUME NEW q \in Rows, q # p, NEW past
      PROVE  (Beyond(q, past)' <=> Beyond(q, past)) /\ ClearedAt(q)' = ClearedAt(q)
  <2>1. /\ payments'[q] = payments[q] /\ job'[q] = job[q] /\ judged'[q] = judged[q]
        /\ q \in disturbed' <=> q \in disturbed
    BY <1>1, <1>6 DEF Rows
  <2> QED BY <2>1 DEF Beyond, Cleared, ClearedAt, At
<1>7. ASSUME NEW c \in Clients, NEW past \in {PastDaily, PastMonthly}, NEW period, NEW limit \in Nat,
             SumWithin(c, past, period, limit), c = Client(p) => Fits(p, past, period, limit)
      PROVE  limit > 0 => \A t \in 0..MaxTime : TotalOf(payments', InPeriod(c, past, period, t)') <= limit
  <2>1. ASSUME NEW t, NEW q \in InPeriod(c, past, period, t)', q # p
        PROVE  q \in InPeriod(c, past, period, t)
    <3>1. q \in Rows /\ q \in Of(c)
      BY <1>3, <1>5 DEF InPeriod, Of
    <3> QED BY <1>4, <1>6, <2>1, <3>1 DEF InPeriod
  <2>2. ASSUME NEW t, p \in InPeriod(c, past, period, t)'
        PROVE  c = Client(p) /\ Beyond(p, past)' /\ payments[p].created \div period = t
               /\ ClearedAt(p)' \div period = t /\ p \in Of(c)
    BY <1>4, <1>5, <2>2 DEF InPeriod, Of, Client
  <2>3. CASE c # Client(p) \/ Stays(p, past)
    <3>1. \A t \in 0..MaxTime : InPeriod(c, past, period, t)' \subseteq InPeriod(c, past, period, t)
      BY <2>1, <2>2, <2>3 DEF Stays, InPeriod
    <3> QED BY <1>4, <1>7, <3>1, SumStays
  <2>4. CASE c = Client(p) /\ ~Stays(p, past)
    <3>1. past \in SUBSET Rules
      BY DEF PastDaily, PastMonthly, Rules
    <3>2. /\ ClearedAt(p)' = now /\ payments[p].status \notin Dropped
          /\ limit > 0 =>
               Total({q \in Counted(Client(p)) : payments[q].created \div period = now \div period})
                 + payments[p].amount <= limit
      BY <1>7, <2>4 DEF Fits
    <3>3. \A t \in 0..MaxTime : InPeriod(c, past, period, t)' \subseteq
            InPeriod(c, past, period, t) \cup {q \in {p} : payments[p].created \div period = t /\ now \div period = t}
      BY <2>1, <2>2, <3>2
    <3> QED BY <1>4, <1>7, <2>4, <3>1, <3>2, <3>3, SumJoined
  <2> QED BY <2>3, <2>4
<1>8. ASSUME NEW c \in Clients \ retuned', limits'[c] # NoLimits PROVE LimitsOK(c)'
  <2>1. limits' = limits /\ c \in Clients \ retuned /\ limits[c] \in Limits
    BY <1>0, <1>8 DEF tables, TypeOK
  <2>2. LimitsOK(c) /\ limits[c].daily \in Nat /\ limits[c].monthly \in Nat
    BY <1>8, <2>1 DEF LimitsIInv, Limits
  <2>3. \A q \in Of(c)' : Beyond(q, PastSingle)' => ~Exceeds(payments'[q].amount, limits[c].single)
    <3> SUFFICES ASSUME NEW q \in Of(c), Beyond(q, PastSingle)'
                 PROVE  ~Exceeds(payments[q].amount, limits[c].single)
      BY <1>4, <1>5 DEF Of
    <3>1. q \in Rows /\ Client(q) = c
      BY DEF Of, Client
    <3>2. Beyond(q, PastSingle) => ~Exceeds(payments[q].amount, limits[c].single)
      BY <2>2 DEF LimitsOK
    <3>3. CASE q = p
      BY <1>8, <2>1, <3>1, <3>2, <3>3
    <3>4. CASE q # p
      BY <1>6, <3>1, <3>2, <3>4
    <3> QED BY <3>3, <3>4
  <2>4. SumWithin(c, PastDaily, Day, limits[c].daily)'
    <3>1. c = Client(p) => Fits(p, PastDaily, Day, limits[c].daily)
      BY <1>8, <2>1
    <3>2. limits[c].daily > 0 =>
            \A t \in 0..MaxTime : TotalOf(payments', InPeriod(c, PastDaily, Day, t)') <= limits[c].daily
      BY <1>7, <2>2, <3>1 DEF LimitsOK
    <3>3. \A t : Total(InPeriod(c, PastDaily, Day, t))' = TotalOf(payments', InPeriod(c, PastDaily, Day, t)')
      BY DEF Total, TotalOf, MapThenSumSet, MapThenFoldSet
    <3> QED BY <2>1, <3>2, <3>3 DEF SumWithin
  <2>5. SumWithin(c, PastMonthly, Month, limits[c].monthly)'
    <3>1. c = Client(p) => Fits(p, PastMonthly, Month, limits[c].monthly)
      BY <1>8, <2>1
    <3>2. limits[c].monthly > 0 =>
            \A t \in 0..MaxTime : TotalOf(payments', InPeriod(c, PastMonthly, Month, t)') <= limits[c].monthly
      BY <1>7, <2>2, <3>1 DEF LimitsOK
    <3>3. \A t : Total(InPeriod(c, PastMonthly, Month, t))' = TotalOf(payments', InPeriod(c, PastMonthly, Month, t)')
      BY DEF Total, TotalOf, MapThenSumSet, MapThenFoldSet
    <3> QED BY <2>1, <3>2, <3>3 DEF SumWithin
  <2> QED BY <2>1, <2>3, <2>4, <2>5 DEF LimitsOK
<1>9. ASSUME NEW q \in Rows
      PROVE  /\ payments'[q].created <= now'
             /\ (At(q, "dailySum")' \/ At(q, "monthlySum")') /\ Client(q)' \notin retuned' =>
                  job'[q].read = limits'[Client(q)']
  <2>1. Client(q)' = Client(q) /\ payments[q].created <= now
    BY <1>4 DEF LimitsIInv, Client
  <2>2. CASE q = p
    BY <1>1, <1>4, <2>1, <2>2 DEF At, tables
  <2>3. CASE q # p
    <3>1. job'[q] = job[q]
      BY <1>1, <2>3 DEF Rows
    <3> QED BY <1>4, <2>1, <3>1 DEF At, tables, LimitsIInv
  <2> QED BY <2>2, <2>3
<1>10. IsFiniteSet(Rows')
  BY <1>3 DEF LimitsIInv
<1> QED BY <1>3, <1>8, <1>9, <1>10 DEF LimitsIInv

\* All rows of p's client that count in the present period, and p once more.
SumWith(p, period) ==
  Total({q \in Counted(Client(p)) : payments[q].created \div period = now \div period}) + payments[p].amount

(* A statement of p's job: the rule it passes had nothing against p.         *)
LEMMA RuleStep ==
  ASSUME LimitsIInv, IInv', NEW p \in Rows, NEW j \in Job,
         job' = [job EXCEPT ![p] = j], Reads, ~At(p, "done"), j.pc # "done",
         j.pc \in {"dailySum", "monthlySum"} /\ Client(p) \notin retuned => j.read = limits[Client(p)],
         Client(p) \in Clients \ retuned /\ limits[Client(p)] # NoLimits =>
           /\ j.pc = "store" /\ j.action = "ALLOW" => job[p].pc \in PastMonthly
           /\ j.pc \in PastSingle =>
                job[p].pc \in PastSingle \/ ~Exceeds(payments[p].amount, limits[Client(p)].single)
           /\ j.pc \in PastDaily =>
                job[p].pc \in PastDaily \/ ~Exceeds(SumWith(p, Day), limits[Client(p)].daily)
           /\ j.pc \in PastMonthly =>
                job[p].pc \in PastMonthly \/ ~Exceeds(SumWith(p, Month), limits[Client(p)].monthly)
  PROVE  LimitsIInv'
<1>1. /\ p \in Payments /\ payments[p] \in Row /\ payments[p].status \in Status /\ JobOK(p)
      /\ IInv /\ TypeOK
  BY LimitFacts DEF LimitsIInv, IInv, Row
<1>2. UNCHANGED payments /\ UNCHANGED tables /\ UNCHANGED <<now, judged, retuned, disturbed>>
  BY DEF Reads, Bookkeeping
<1>3. payments' = [payments EXCEPT ![p].status = payments[p].status]
  BY <1>1, <1>2 DEF Row, TypeOK
<1>4. job'[p] = j
  BY <1>1 DEF TypeOK
<1>5. p \notin disturbed => payments[p].status \in {"RECEIVED", "VALIDATED_LOCAL"}
  BY <1>1 DEF JobOK
<1>6. ClearedAt(p)' = ClearedAt(p) /\ ClearedAt(p) = now
  BY <1>2, <1>4 DEF ClearedAt, At
<1>7. Cleared(p)' => p \notin disturbed /\ j.pc = "store" /\ j.action = "ALLOW"
  BY <1>2, <1>4, <1>5 DEF Cleared, At
<1>8. SUFFICES ASSUME Client(p) \in Clients \ retuned, limits[Client(p)] # NoLimits
               PROVE  /\ Beyond(p, PastSingle)' =>
                           Beyond(p, PastSingle) \/ ~Exceeds(payments[p].amount, limits[Client(p)].single)
                      /\ Fits(p, PastDaily, Day, limits[Client(p)].daily)
                      /\ Fits(p, PastMonthly, Month, limits[Client(p)].monthly)
  BY <1>1, <1>2, <1>3, LimitsStep
<1>9. PastMonthly \subseteq PastDaily /\ PastDaily \subseteq PastSingle
  BY DEF PastDaily, PastSingle
<1>10. ASSUME NEW past \in {PastSingle, PastDaily, PastMonthly}, Beyond(p, past)'
       PROVE  p \notin disturbed /\ (Beyond(p, past) \/ j.pc \in past)
  <2>1. CASE Cleared(p)'
    BY <1>7, <1>8, <1>9, <2>1 DEF Beyond
  <2>2. CASE ~Cleared(p)'
    BY <1>2, <1>4, <1>10, <2>2 DEF Beyond
  <2> QED BY <2>1, <2>2
<1>11. ASSUME NEW past \in {PastDaily, PastMonthly}, NEW period, NEW limit \in Nat,
              j.pc \in past => job[p].pc \in past \/ ~Exceeds(SumWith(p, period), limit)
       PROVE  Fits(p, past, period, limit)
  <2>1. CASE Stays(p, past)
    BY <2>1 DEF Fits
  <2>2. CASE ~Stays(p, past)
    <3>1. Beyond(p, past)' /\ ~Beyond(p, past)
      BY <1>6, <2>2 DEF Stays
    <3>2. p \notin disturbed /\ j.pc \in past
      BY <1>10, <3>1
    <3>3. ~Exceeds(SumWith(p, period), limit)
      BY <1>11, <3>1, <3>2 DEF Beyond
    <3>4. payments[p].status \notin Dropped
      BY <1>5, <3>2 DEF Dropped
    <3>5. PICK C \in SUBSET Rows :
            C = {q \in Counted(Client(p)) : payments[q].created \div period = now \div period}
      BY DEF Counted, Of
    <3>6. Total(C) \in Nat /\ payments[p].amount \in Nat
      BY RowTotals, LimitFacts
    <3>7. limit > 0 => Total(C) + payments[p].amount <= limit
      BY <3>3, <3>5, <3>6 DEF Exceeds, SumWith
    <3> QED BY <1>6, <3>4, <3>5, <3>7 DEF Fits
  <2> QED BY <2>1, <2>2
<1>12. Beyond(p, PastSingle)' =>
         Beyond(p, PastSingle) \/ ~Exceeds(payments[p].amount, limits[Client(p)].single)
  <2> SUFFICES ASSUME Beyond(p, PastSingle)', ~Beyond(p, PastSingle)
               PROVE  ~Exceeds(payments[p].amount, limits[Client(p)].single)
    OBVIOUS
  <2>1. p \notin disturbed /\ j.pc \in PastSingle
    BY <1>10
  <2> QED BY <1>8, <2>1 DEF Beyond
<1>13. limits[Client(p)].daily \in Nat /\ limits[Client(p)].monthly \in Nat
  <2>1. limits[Client(p)] \in Limits
    BY <1>1, <1>8 DEF TypeOK
  <2> QED BY <2>1 DEF Limits
<1> QED BY <1>8, <1>11, <1>12, <1>13

(* The rules that decide against p, and those no limit is about.             *)
LEMMA LimitsGoOn ==
  ASSUME LimitsIInv, IInv', NEW p \in Rows, NEW pc \in Rules, NEW read \in Limits \cup Rule \cup {NoRow},
         Goto(p, pc, read), Reads, job[p].pc \in Rules,
         pc \in {"dailySum", "monthlySum"} => read = limits[Client(p)],
         Client(p) \in Clients \ retuned /\ limits[Client(p)] # NoLimits =>
           /\ pc \in PastSingle =>
                job[p].pc \in PastSingle \/ ~Exceeds(payments[p].amount, limits[Client(p)].single)
           /\ pc \in PastDaily =>
                job[p].pc \in PastDaily \/ ~Exceeds(SumWith(p, Day), limits[Client(p)].daily)
           /\ pc \in PastMonthly =>
                job[p].pc \in PastMonthly \/ ~Exceeds(SumWith(p, Month), limits[Client(p)].monthly)
  PROVE  LimitsIInv'
<1>1. PICK j \in Job : j.pc = pc /\ j.read = read /\ job' = [job EXCEPT ![p] = j]
  BY LimitFacts, GotoAssigns DEF LimitsIInv, IInv
<1>2. ~At(p, "done") /\ pc # "done" /\ pc # "store"
  BY DEF At, Rules
<1> QED BY <1>1, <1>2, RuleStep

LEMMA LimitsDecide ==
  ASSUME LimitsIInv, IInv', NEW p \in Rows, NEW action \in {"ALLOW", "REVIEW", "REJECT"},
         Verdict(p, action), Reads, job[p].pc \in Rules,
         action = "ALLOW" => job[p].pc \in PastMonthly
  PROVE  LimitsIInv'
<1>1. PICK j \in Job : j.pc = "store" /\ j.action = action /\ job' = [job EXCEPT ![p] = j]
  BY LimitFacts, VerdictAssigns DEF LimitsIInv, IInv
<1>2. ~At(p, "done") /\ "store" \notin PastSingle /\ "store" \notin PastDaily /\ "store" \notin PastMonthly
  BY DEF At, Rules, PastSingle, PastDaily, PastMonthly
<1> QED BY <1>1, <1>2, RuleStep

LEMMA RulesKeepLimits ==
  ASSUME LimitsIInv, IInv', NEW p \in Payments,
         \/ CheckBlacklistRule(p) \/ CheckSingleLimit(p) \/ CheckDailyLimit(p) \/ SumsToday(p)
         \/ CheckMonthlyLimit(p) \/ SumsMonth(p) \/ CheckDuplicate(p) \/ FindsDuplicates(p)
  PROVE  LimitsIInv'
<1>1. job[p].pc \in Rules /\ Reads
  BY DEF CheckBlacklistRule, CheckSingleLimit, CheckDailyLimit, SumsToday, CheckMonthlyLimit, SumsMonth,
         CheckDuplicate, FindsDuplicates, At, Rules
<1>2. /\ p \in Rows /\ Client(p) \in Clients /\ IInv
      /\ limits[Client(p)] \in Limits \cup {NoLimits} /\ rules[Client(p)] \in Rule \cup {NoRule}
      /\ NoRow \in Limits \cup Rule \cup {NoRow}
  BY <1>1, AtRule DEF LimitsIInv
<1>3. ASSUME NEW action \in {"REVIEW", "REJECT"}, Verdict(p, action) PROVE LimitsIInv'
  BY <1>1, <1>2, <1>3, LimitsDecide
<1> USE DEF PastSingle, PastDaily, PastMonthly
<1>4. CASE CheckBlacklistRule(p)
  <2>1. Verdict(p, "REJECT") \/ Goto(p, "single", NoRow)
    BY <1>4 DEF CheckBlacklistRule
  <2>2. "single" \in Rules
    BY DEF Rules
  <2> QED BY <1>1, <1>2, <1>3, <2>1, <2>2, LimitsGoOn
<1>5. CASE CheckSingleLimit(p)
  <2>1. CASE Verdict(p, "REVIEW")
    BY <1>3, <2>1
  <2>2. CASE ~Verdict(p, "REVIEW")
    <3>1. Goto(p, "daily", NoRow)
      BY <1>5, <2>2 DEF CheckSingleLimit
    <3>2. limits[Client(p)] # NoLimits => ~Exceeds(payments[p].amount, limits[Client(p)].single)
      BY <1>5, <2>2 DEF CheckSingleLimit, GetClientLimit
    <3>3. "daily" \in Rules
      BY DEF Rules
    <3> QED BY <1>1, <1>2, <3>1, <3>2, <3>3, LimitsGoOn
  <2> QED BY <2>1, <2>2
<1>6. CASE CheckDailyLimit(p)
  <2>1. job[p].pc = "daily" /\ {"monthly", "dailySum"} \subseteq Rules
    BY <1>6 DEF CheckDailyLimit, At, Rules
  <2>2. CASE limits[Client(p)] # NoLimits /\ limits[Client(p)].daily > 0
    <3>1. Goto(p, "dailySum", limits[Client(p)])
      BY <1>6, <2>2 DEF CheckDailyLimit, GetClientLimit
    <3> QED BY <1>1, <1>2, <2>1, <2>2, <3>1, LimitsGoOn
  <2>3. CASE ~(limits[Client(p)] # NoLimits /\ limits[Client(p)].daily > 0)
    <3>1. Goto(p, "monthly", NoRow)
      BY <1>6, <2>3 DEF CheckDailyLimit, GetClientLimit
    <3>2. limits[Client(p)] # NoLimits => ~Exceeds(SumWith(p, Day), limits[Client(p)].daily)
      BY <2>3 DEF Exceeds
    <3> QED BY <1>1, <1>2, <2>1, <3>1, <3>2, LimitsGoOn
  <2> QED BY <2>2, <2>3
<1>7. CASE SumsToday(p)
  <2>1. job[p].pc = "dailySum" /\ "monthly" \in Rules
    BY <1>7 DEF SumsToday, At, Rules
  <2>2. CASE Verdict(p, "REVIEW")
    BY <1>3, <2>2
  <2>3. CASE ~Verdict(p, "REVIEW")
    <3>1. Goto(p, "monthly", NoRow) /\ ~Exceeds(SumWith(p, Day), job[p].read.daily)
      BY <1>7, <2>3 DEF SumsToday, SumPaymentsTodayByClient, SumWith
    <3>2. Client(p) \notin retuned => job[p].read = limits[Client(p)]
      BY <1>2, <2>1 DEF LimitsIInv, At
    <3> QED BY <1>1, <1>2, <2>1, <3>1, <3>2, LimitsGoOn
  <2> QED BY <2>2, <2>3
<1>8. CASE CheckMonthlyLimit(p)
  <2>1. job[p].pc = "monthly" /\ {"duplicate", "monthlySum"} \subseteq Rules
    BY <1>8 DEF CheckMonthlyLimit, At, Rules
  <2>2. CASE limits[Client(p)] # NoLimits /\ limits[Client(p)].monthly > 0
    <3>1. Goto(p, "monthlySum", limits[Client(p)])
      BY <1>8, <2>2 DEF CheckMonthlyLimit, GetClientLimit
    <3> QED BY <1>1, <1>2, <2>1, <2>2, <3>1, LimitsGoOn
  <2>3. CASE ~(limits[Client(p)] # NoLimits /\ limits[Client(p)].monthly > 0)
    <3>1. Goto(p, "duplicate", NoRow)
      BY <1>8, <2>3 DEF CheckMonthlyLimit, GetClientLimit
    <3>2. limits[Client(p)] # NoLimits => ~Exceeds(SumWith(p, Month), limits[Client(p)].monthly)
      BY <2>3 DEF Exceeds
    <3> QED BY <1>1, <1>2, <2>1, <3>1, <3>2, LimitsGoOn
  <2> QED BY <2>2, <2>3
<1>9. CASE SumsMonth(p)
  <2>1. job[p].pc = "monthlySum" /\ "duplicate" \in Rules
    BY <1>9 DEF SumsMonth, At, Rules
  <2>2. CASE Verdict(p, "REVIEW")
    BY <1>3, <2>2
  <2>3. CASE ~Verdict(p, "REVIEW")
    <3>1. Goto(p, "duplicate", NoRow) /\ ~Exceeds(SumWith(p, Month), job[p].read.monthly)
      BY <1>9, <2>3 DEF SumsMonth, SumPaymentsMonthByClient, SumWith
    <3>2. Client(p) \notin retuned => job[p].read = limits[Client(p)]
      BY <1>2, <2>1 DEF LimitsIInv, At
    <3> QED BY <1>1, <1>2, <2>1, <3>1, <3>2, LimitsGoOn
  <2> QED BY <2>2, <2>3
<1>10. CASE CheckDuplicate(p)
  <2>1. job[p].pc = "duplicate" /\ "find" \in Rules
    BY <1>10 DEF CheckDuplicate, At, Rules
  <2>2. Verdict(p, "ALLOW") \/ (rules[Client(p)] \in Rule /\ Goto(p, "find", rules[Client(p)]))
    BY <1>2, <1>10 DEF CheckDuplicate, GetDuplicateRule
  <2>3. CASE Verdict(p, "ALLOW")
    BY <1>1, <1>2, <2>1, <2>3, LimitsDecide
  <2>4. CASE rules[Client(p)] \in Rule /\ Goto(p, "find", rules[Client(p)])
    BY <1>1, <1>2, <2>1, <2>4, LimitsGoOn
  <2> QED BY <2>2, <2>3, <2>4
<1>11. CASE FindsDuplicates(p)
  <2>1. job[p].pc = "find" /\ job[p].read \in Rule
    BY <1>2, <1>11 DEF FindsDuplicates, At, IInv, TypeOK
  <2>2. PICK action \in {"ALLOW", "REVIEW", "REJECT"} : Verdict(p, action)
    BY <1>11, <2>1 DEF FindsDuplicates, Rule
  <2> QED BY <1>1, <1>2, <2>1, <2>2, LimitsDecide
<1> QED BY <1>4, <1>5, <1>6, <1>7, <1>8, <1>9, <1>10, <1>11

(* The steps of p's job and of its operators that no limit is about.         *)
LEMMA NeitherBeyond ==
  ASSUME LimitsIInv, IInv', NEW p \in Rows, NEW j \in Job, NEW s \in Status,
         job' = [job EXCEPT ![p] = j], payments' = [payments EXCEPT ![p].status = s],
         UNCHANGED tables, UNCHANGED <<now, retuned>>,
         \A q \in Payments \ {p} : judged'[q] = judged[q],
         disturbed' \in {disturbed, disturbed \cup {p}},
         p \notin disturbed' => j.pc \notin PastSingle, ~Cleared(p)',
         j.pc \notin {"dailySum", "monthlySum"}
  PROVE  LimitsIInv'
<1>1. job'[p] = j
  BY LimitFacts DEF LimitsIInv, IInv, TypeOK
<1>2. \A past \in {PastSingle, PastDaily, PastMonthly} : ~Beyond(p, past)'
  BY <1>1 DEF Beyond, PastSingle, PastDaily, PastMonthly
<1> QED BY <1>2, LimitsStep DEF Fits, Stays

LEMMA EvaluateKeepsLimits ==
  ASSUME LimitsIInv, IInv', NEW p \in Payments, Evaluate(p)
  PROVE  LimitsIInv'
<1> DEFINE s == IF payments[p].status = "RECEIVED" THEN "VALIDATED_LOCAL" ELSE payments[p].status
<1>1. At(p, "queued") /\ UNCHANGED tables /\ UNCHANGED <<now, faults, judged, covered, retuned, rescheduled, disturbed>>
  BY DEF Evaluate, Bookkeeping
<1>2. p \in Rows /\ IInv /\ TypeOK
  BY <1>1 DEF LimitsIInv, IInv, TypeOK, Rows, At
<1>3. payments[p] \in Row /\ JobOK(p) /\ s \in Status
  BY <1>2, LimitFacts DEF Row, Status
<1>4. payments' = [payments EXCEPT ![p].status = s]
  BY <1>3 DEF Evaluate, Row, IInv, TypeOK
<1>5. p \notin disturbed => s = "VALIDATED_LOCAL"
  BY <1>1, <1>3 DEF JobOK, At
<1>6. payments'[p].status = s
  BY <1>2, <1>3, <1>4 DEF Row, TypeOK
<1> HIDE DEF s
<1>7. CASE Client(p) = NoClient
  <2>1. PICK j \in Job : j.pc = "store" /\ job' = [job EXCEPT ![p] = j]
    BY <1>2, <1>7, VerdictAssigns DEF Evaluate
  <2>2. Client(p) \notin Clients
    BY <1>7, Constants
  <2> QED BY <1>1, <1>2, <1>3, <1>4, <2>1, <2>2, LimitsStep
<1>8. CASE Client(p) # NoClient
  <2>1. Goto(p, "blacklist", NoRow) /\ "blacklist" \in Rules
    BY <1>8 DEF Evaluate, Rules
  <2>2. PICK j \in Job : j.pc = "blacklist" /\ job' = [job EXCEPT ![p] = j]
    BY <1>2, <2>1, GotoAssigns
  <2>3. job'[p] = j /\ j.pc \notin PastSingle
    BY <1>2, <2>2 DEF TypeOK, PastSingle, PastDaily, PastMonthly
  <2>4. ~Cleared(p)'
    BY <1>1, <1>5, <1>6, <2>2, <2>3 DEF Cleared, At
  <2> QED BY <1>1, <1>2, <1>3, <1>4, <2>2, <2>3, <2>4, NeitherBeyond
<1> QED BY <1>7, <1>8

LEMMA StoreKeepsLimits ==
  ASSUME LimitsIInv, IInv', NEW p \in Payments, StoreVerdict(p)
  PROVE  LimitsIInv'
<1> DEFINE s == CASE job[p].action = "REJECT" -> "REJECTED"
                  [] job[p].action = "REVIEW" -> "UNDER_REVIEW"
                  [] OTHER -> "PREVALIDATED"
           j == [NoJob EXCEPT !.pc = "done"]
<1>1. /\ At(p, "store") /\ payments' = [payments EXCEPT ![p].status = s] /\ job' = [job EXCEPT ![p] = j]
      /\ judged' = [judged EXCEPT ![p] = now]
      /\ UNCHANGED tables /\ UNCHANGED <<now, faults, covered, retuned, rescheduled, disturbed>>
  BY DEF StoreVerdict
<1>2. p \in Rows /\ IInv /\ TypeOK
  BY <1>1 DEF LimitsIInv, IInv, TypeOK, Rows, At
<1>3. payments[p] \in Row /\ job[p].action \in {"ALLOW", "REVIEW", "REJECT"}
  BY <1>2, Facts DEF Job
<1>4. s \in Status /\ (s = "PREVALIDATED" => job[p].action = "ALLOW")
  BY <1>3 DEF Status, Dropped
<1>5. j \in Job /\ j.pc = "done"
  BY DEF NoJob, Job
<1> HIDE DEF s, j
<1>6. /\ payments'[p].status = s /\ job'[p] = j /\ judged'[p] = now
      /\ \A q \in Payments \ {p} : judged'[q] = judged[q]
  BY <1>1, <1>2, <1>3 DEF Row, TypeOK
<1>7. Cleared(p)' => Cleared(p) /\ ClearedAt(p)' = ClearedAt(p)
  BY <1>1, <1>4, <1>5, <1>6 DEF Cleared, ClearedAt, At
<1>8. j.pc \notin PastSingle /\ j.pc \notin PastDaily /\ j.pc \notin PastMonthly
  BY <1>5 DEF PastSingle, PastDaily, PastMonthly
<1>9. \A past \in {PastSingle, PastDaily, PastMonthly} : Stays(p, past)
  BY <1>6, <1>7, <1>8 DEF Stays, Beyond
<1> QED BY <1>1, <1>2, <1>4, <1>5, <1>6, <1>9, LimitsStep DEF Fits, Stays

LEMMA FailureKeepsLimits ==
  ASSUME LimitsIInv, IInv', NEW p \in Payments, StatementFails(p)
  PROVE  LimitsIInv'
<1>1. /\ job[p].pc \notin {"none", "queued", "done"} /\ disturbed' = disturbed \cup {p}
      /\ UNCHANGED <<payments, now, judged, covered, retuned, rescheduled>> /\ UNCHANGED tables
  BY DEF StatementFails
<1>2. p \in Rows /\ IInv /\ TypeOK
  BY <1>1 DEF LimitsIInv, IInv, TypeOK, Rows, At
<1>3. payments' = [payments EXCEPT ![p].status = payments[p].status] /\ payments[p].status \in Status
  BY <1>1, <1>2, LimitFacts DEF Row, TypeOK
<1>4. PICK j \in Job : job' = [job EXCEPT ![p] = j] /\ j.pc \notin {"dailySum", "monthlySum"}
  <2>1. NoRow \in Limits \cup Rule \cup {NoRow} /\ {"daily", "monthly", "duplicate"} \subseteq Rules
    BY DEF Rules
  <2>2. CASE \E pc \in {"daily", "monthly", "duplicate"} : Goto(p, pc, NoRow)
    BY <1>2, <2>1, <2>2, GotoAssigns
  <2>3. CASE Verdict(p, "ALLOW")
    BY <1>2, <2>3, VerdictAssigns
  <2>4. CASE \E pc \in {"done", "queued"} : job' = [job EXCEPT ![p] = [NoJob EXCEPT !.pc = pc]]
    <3>1. ASSUME NEW pc \in {"done", "queued"}
          PROVE  [NoJob EXCEPT !.pc = pc] \in Job /\ [NoJob EXCEPT !.pc = pc].pc = pc
      BY DEF NoJob, Job
    <3> QED BY <2>4, <3>1
  <2>5. \/ \E pc \in {"daily", "monthly", "duplicate"} : Goto(p, pc, NoRow)
        \/ Verdict(p, "ALLOW")
        \/ \E pc \in {"done", "queued"} : job' = [job EXCEPT ![p] = [NoJob EXCEPT !.pc = pc]]
    <3>1. CASE At(p, "single") \/ At(p, "daily") \/ At(p, "monthly") \/ At(p, "duplicate")
      BY <3>1 DEF StatementFails, At
    <3>2. CASE ~(At(p, "single") \/ At(p, "daily") \/ At(p, "monthly") \/ At(p, "duplicate"))
      BY <3>2 DEF StatementFails
    <3> QED BY <3>1, <3>2
  <2> QED BY <2>2, <2>3, <2>4, <2>5
<1>5. p \in disturbed' /\ ~Cleared(p)'
  BY <1>1 DEF Cleared
<1> QED BY <1>1, <1>2, <1>3, <1>4, <1>5, NeitherBeyond

LEMMA CancelKeepsLimits ==
  ASSUME LimitsIInv, IInv', NEW p \in Payments, CancelPayment(p)
  PROVE  LimitsIInv'
<1>1. /\ p \in Rows /\ payments' = [payments EXCEPT ![p].status = "CANCELED"]
      /\ disturbed' = IF At(p, "done") THEN disturbed ELSE disturbed \cup {p}
      /\ UNCHANGED <<job, now, judged, covered, retuned, rescheduled>> /\ UNCHANGED tables
  BY DEF CancelPayment
<1>2. IInv /\ TypeOK /\ payments[p] \in Row /\ job[p] \in Job
  BY <1>1, Facts DEF LimitsIInv, IInv
<1>3. payments'[p].status = "CANCELED" /\ job' = [job EXCEPT ![p] = job[p]] /\ "CANCELED" \in Status
  BY <1>1, <1>2 DEF Row, TypeOK, Status, Dropped
<1>4. \A past \in {PastSingle, PastDaily, PastMonthly} : ~Beyond(p, past)'
  BY <1>1, <1>3 DEF Beyond, Cleared, At, PastSingle, PastDaily, PastMonthly
<1>5. job[p].pc \in {"dailySum", "monthlySum"} /\ Client(p) \notin retuned => job[p].read = limits[Client(p)]
  BY <1>1 DEF LimitsIInv, At
<1> QED BY <1>1, <1>2, <1>3, <1>4, <1>5, LimitsStep DEF Fits, Stays

(* The clock only ever takes payments out of a period.                       *)
LEMMA PeriodsPass ==
  ASSUME NEW a \in Nat, NEW b \in Nat, NEW c \in Nat, a <= b, b <= c,
         NEW period \in Nat \ {0}, a \div period = c \div period
  PROVE  b \div period = c \div period
OBVIOUS

(* Nobody's job moves: payments arrive, settings or the clock change.        *)
LEMMA QuietStep ==
  ASSUME LimitsIInv, IInv', Rows \subseteq Rows', IsFiniteSet(Rows'),
         \A q \in Rows : /\ payments'[q] = payments[q] /\ job'[q] = job[q] /\ judged'[q] = judged[q]
                         /\ q \in disturbed' <=> q \in disturbed,
         \A q \in Rows' \ Rows : /\ payments'[q].created <= now' /\ payments'[q].status = "RECEIVED"
                                 /\ job'[q].pc = "queued",
         now' \in 0..MaxTime, now <= now', retuned \subseteq retuned',
         \A c \in Clients : Of(c) = {} \/ c \in retuned' \/ limits'[c] = limits[c]
  PROVE  LimitsIInv'
<1>0. MaxTime \in Nat /\ IInv /\ TypeOK
  BY Constants DEF LimitsIInv, IInv
<1>1. ASSUME NEW q \in Rows, NEW past
      PROVE  /\ Beyond(q, past)' <=> Beyond(q, past)
             /\ ClearedAt(q)' = IF At(q, "done") THEN ClearedAt(q) ELSE now'
             /\ ~At(q, "done") => ClearedAt(q) = now
  BY DEF Beyond, Cleared, ClearedAt, At
<1>2. \A past \in {PastSingle, PastDaily, PastMonthly} : \A q \in Rows' \ Rows : ~Beyond(q, past)'
  BY DEF Beyond, Cleared, At, PastSingle, PastDaily, PastMonthly
<1>3. ASSUME NEW c, NEW past \in {PastDaily, PastMonthly}, NEW period \in Nat \ {0}, NEW t \in 0..MaxTime
      PROVE  InPeriod(c, past, period, t)' \subseteq InPeriod(c, past, period, t)
  <2> SUFFICES ASSUME NEW q \in InPeriod(c, past, period, t)' PROVE q \in InPeriod(c, past, period, t)
    OBVIOUS
  <2>1. q \in Rows' /\ payments'[q].client = c /\ Beyond(q, past)'
        /\ payments'[q].created \div period = t /\ ClearedAt(q)' \div period = t
    BY DEF InPeriod, Of
  <2>2. q \in Rows /\ payments'[q] = payments[q]
    BY <1>2, <2>1
  <2>3. payments[q].created \in Nat /\ now \in Nat /\ now' \in Nat /\ payments[q].created <= now
    BY <1>0, <2>2, LimitFacts DEF LimitsIInv
  <2>4. ClearedAt(q) \div period = t
    <3>1. CASE At(q, "done")
      BY <1>1, <2>1, <2>2, <3>1
    <3>2. CASE ~At(q, "done")
      <4>1. ClearedAt(q)' = now' /\ ClearedAt(q) = now
        BY <1>1, <2>2, <3>2
      <4>2. now' \div period = t /\ payments[q].created \div period = t
        BY <2>1, <2>2, <4>1
      <4> QED BY <2>3, <4>1, <4>2, PeriodsPass
    <3> QED BY <3>1, <3>2
  <2> QED BY <1>1, <2>1, <2>2, <2>4 DEF InPeriod, Of
<1>4. ASSUME NEW c \in Clients \ retuned', limits'[c] # NoLimits PROVE LimitsOK(c)'
  <2>1. limits'[c] \in Limits /\ limits'[c].daily \in Nat /\ limits'[c].monthly \in Nat
    BY <1>4 DEF IInv, TypeOK, Limits
  <2>2. Of(c) = {} \/ (limits'[c] = limits[c] /\ LimitsOK(c))
    BY <1>4 DEF LimitsIInv
  <2>3. \A q \in Of(c)' : Beyond(q, PastSingle)' => ~Exceeds(payments'[q].amount, limits'[c].single)
    <3> SUFFICES ASSUME NEW q \in Of(c)', Beyond(q, PastSingle)'
                 PROVE  ~Exceeds(payments'[q].amount, limits'[c].single)
      OBVIOUS
    <3>1. q \in Rows /\ payments'[q] = payments[q] /\ q \in Of(c)
      BY <1>2 DEF Of
    <3> QED BY <1>1, <2>2, <3>1 DEF LimitsOK
  <2>4. ASSUME NEW past \in {PastDaily, PastMonthly}, NEW period \in Nat \ {0}, NEW limit \in Nat,
               Of(c) = {} \/ SumWithin(c, past, period, limit)
        PROVE  limit > 0 => \A t \in 0..MaxTime : TotalOf(payments', InPeriod(c, past, period, t)') <= limit
    <3>1. SumWithin(c, past, period, limit)
      <4>1. CASE Of(c) = {}
        <5>1. \A t : InPeriod(c, past, period, t) = {}
          BY <4>1 DEF InPeriod
        <5>2. Total({}) = TotalOf(payments, {})
          BY DEF Total, TotalOf
        <5>3. TotalOf(payments, {}) = 0
          BY NothingIsZero
        <5> QED BY <5>1, <5>2, <5>3 DEF SumWithin
      <4> QED BY <2>4, <4>1
    <3> QED BY <1>3, <3>1, SumStays
  <2>5. SumWithin(c, PastDaily, Day, limits[c].daily)'
    <3>1. limits'[c].daily > 0 =>
            \A t \in 0..MaxTime : TotalOf(payments', InPeriod(c, PastDaily, Day, t)') <= limits'[c].daily
      BY <2>1, <2>2, <2>4, Periods DEF LimitsOK
    <3>2. \A t : Total(InPeriod(c, PastDaily, Day, t))' = TotalOf(payments', InPeriod(c, PastDaily, Day, t)')
      BY DEF Total, TotalOf, MapThenSumSet, MapThenFoldSet
    <3> QED BY <3>1, <3>2 DEF SumWithin
  <2>6. SumWithin(c, PastMonthly, Month, limits[c].monthly)'
    <3>1. limits'[c].monthly > 0 =>
            \A t \in 0..MaxTime : TotalOf(payments', InPeriod(c, PastMonthly, Month, t)') <= limits'[c].monthly
      BY <2>1, <2>2, <2>4, Periods DEF LimitsOK
    <3>2. \A t : Total(InPeriod(c, PastMonthly, Month, t))' = TotalOf(payments', InPeriod(c, PastMonthly, Month, t)')
      BY DEF Total, TotalOf, MapThenSumSet, MapThenFoldSet
    <3> QED BY <3>1, <3>2 DEF SumWithin
  <2> QED BY <2>3, <2>5, <2>6 DEF LimitsOK
<1>5. ASSUME NEW q \in Rows'
      PROVE  /\ payments'[q].created <= now'
             /\ (At(q, "dailySum")' \/ At(q, "monthlySum")') /\ Client(q)' \notin retuned' =>
                  job'[q].read = limits'[Client(q)']
  <2>1. CASE q \notin Rows
    BY <2>1 DEF At
  <2>2. CASE q \in Rows
    <3>1. payments'[q] = payments[q] /\ job'[q] = job[q] /\ Client(q)' = Client(q)
      BY <2>2 DEF Client
    <3>2. payments[q].created <= now'
      <4>1. payments[q].created \in Nat /\ now \in Nat /\ now' \in Nat /\ payments[q].created <= now
        BY <1>0, <2>2, LimitFacts DEF LimitsIInv
      <4> QED BY <4>1
    <3>3. ASSUME At(q, "dailySum") \/ At(q, "monthlySum"), Client(q) \notin retuned'
          PROVE  job[q].read = limits'[Client(q)]
      <4>1. Client(q) \in Clients /\ q \in Of(Client(q))
        BY <2>2, <3>3, LimitFacts DEF JobOK, At, Rules
      <4>2. job[q].read = limits[Client(q)]
        BY <2>2, <3>3 DEF LimitsIInv
      <4> QED BY <3>3, <4>1, <4>2
    <3> QED BY <3>1, <3>2, <3>3 DEF At
  <2> QED BY <2>1, <2>2
<1> QED BY <1>4, <1>5 DEF LimitsIInv

LEMMA ReceiveKeepsLimits ==
  ASSUME LimitsIInv, IInv', NEW p \in Payments, Receive(p)
  PROVE  LimitsIInv'
<1>0. IInv /\ TypeOK /\ now \in 0..MaxTime /\ MaxTime \in Nat
  BY Constants DEF LimitsIInv, IInv, TypeOK
<1>1. PICK r \in Requests :
        /\ payments[p] = NoRow
        /\ payments' = [payments EXCEPT ![p] =
             [client |-> r.client, amount |-> r.amount, document |-> r.document,
              beneficiary |-> r.beneficiary, created |-> now, status |-> "RECEIVED"]]
        /\ job' = [job EXCEPT ![p] = [NoJob EXCEPT !.pc = "queued"]]
        /\ UNCHANGED <<now, faults, judged, retuned, rescheduled, disturbed>> /\ UNCHANGED tables
  BY DEF Receive
<1>2. /\ payments'[p].created = now /\ payments'[p].status = "RECEIVED" /\ job'[p].pc = "queued"
      /\ \A q \in Payments \ {p} : payments'[q] = payments[q] /\ job'[q] = job[q]
  BY <1>0, <1>1 DEF TypeOK, NoJob
<1>3. Rows' \subseteq Rows \cup {p} /\ p \notin Rows
  BY <1>1, <1>2 DEF Rows
<1>4. Rows \subseteq Rows' /\ \A q \in Rows : payments'[q] = payments[q] /\ job'[q] = job[q]
  BY <1>1, <1>2 DEF Rows
<1>5. IsFiniteSet(Rows')
  <2>1. IsFiniteSet(Rows \cup {p})
    BY FS_AddElement DEF LimitsIInv
  <2> QED BY <1>3, <2>1, FS_Subset
<1>6. now <= now' /\ now' \in 0..MaxTime
  BY <1>0, <1>1
<1>7. limits' = limits /\ retuned' = retuned /\ judged' = judged /\ disturbed' = disturbed
  BY <1>1 DEF tables
<1>8. \A q \in Rows' \ Rows : /\ payments'[q].created <= now' /\ payments'[q].status = "RECEIVED"
                              /\ job'[q].pc = "queued"
  BY <1>0, <1>1, <1>2, <1>3
<1> QED BY <1>4, <1>5, <1>6, <1>7, <1>8, QuietStep

LEMMA SettingsKeepLimits ==
  ASSUME LimitsIInv, IInv',
         \/ \E c \in Clients : SetClientLimits(c) \/ SetDuplicateRule(c)
         \/ AddBlacklistEntry
         \/ Tick
         \/ UNCHANGED vars
  PROVE  LimitsIInv'
<1>0. TypeOK /\ now \in 0..MaxTime /\ MaxTime \in Nat
  BY Constants DEF LimitsIInv, IInv, TypeOK
<1>1. UNCHANGED <<payments, job, judged, disturbed>>
  BY DEF SetClientLimits, SetDuplicateRule, AddBlacklistEntry, Tick, vars
<1>2. Rows' = Rows /\ IsFiniteSet(Rows')
  BY <1>1 DEF Rows, LimitsIInv
<1>3. now' \in 0..MaxTime /\ now <= now'
  <2>1. now' = now \/ (now < MaxTime /\ now' = now + 1)
    BY DEF SetClientLimits, SetDuplicateRule, AddBlacklistEntry, Tick, vars
  <2> QED BY <1>0, <2>1
<1>4. retuned \subseteq retuned'
  BY DEF SetClientLimits, SetDuplicateRule, Retune, AddBlacklistEntry, Tick, vars
<1>5. \A c \in Clients : Of(c) = {} \/ c \in retuned' \/ limits'[c] = limits[c]
  <2>1. ASSUME NEW c \in Clients, SetClientLimits(c), NEW d \in Clients
        PROVE  Of(d) = {} \/ d \in retuned' \/ limits'[d] = limits[d]
    <3>1. c = d => Of(d) = {} \/ d \in retuned'
      BY <2>1 DEF SetClientLimits, Retune
    <3>2. c # d => limits'[d] = limits[d]
      BY <1>0, <2>1 DEF SetClientLimits, InsertClientLimit, UpdateClientLimit, TypeOK
    <3> QED BY <3>1, <3>2
  <2>2. CASE limits' = limits
    BY <2>2
  <2>3. (\E c \in Clients : SetClientLimits(c)) \/ limits' = limits
    BY DEF SetDuplicateRule, AddBlacklistEntry, Tick, tables, vars
  <2> QED BY <2>1, <2>2, <2>3
<1> QED BY <1>1, <1>2, <1>3, <1>4, <1>5, QuietStep

LEMMA RescheduleKeepsLimits ==
  ASSUME LimitsIInv, IInv', NEW p \in Payments, RescheduleReads(p) \/ ReschedulePayment(p)
  PROVE  LimitsIInv'
<1>0. IInv /\ TypeOK
  BY DEF LimitsIInv, IInv
<1>1. CASE RescheduleReads(p)
  <2>1. UNCHANGED <<payments, job, judged, disturbed, limits, retuned, now>>
    BY <1>1 DEF RescheduleReads, tables
  <2>2. Rows' = Rows /\ IsFiniteSet(Rows') /\ now \in Nat /\ now' \in 0..MaxTime
    BY <1>0, <2>1, Constants DEF Rows, LimitsIInv, TypeOK
  <2> QED BY <2>1, <2>2, QuietStep
<1>2. CASE ReschedulePayment(p)
  <2>1. /\ payments' = [payments EXCEPT ![p].status = "PREVALIDATED"]
        /\ disturbed' = IF payments[p].status = "PREVALIDATED" THEN disturbed ELSE disturbed \cup {p}
        /\ UNCHANGED <<job, now, judged, covered, retuned>> /\ UNCHANGED tables
        /\ p \in Rows
    BY <1>0, <1>2 DEF ReschedulePayment, IInv
  <2>2. payments[p] \in Row /\ job[p] \in Job
    BY <1>0, <2>1, Facts
  <2>3. job' = [job EXCEPT ![p] = job[p]] /\ "PREVALIDATED" \in Status
    BY <1>0, <2>1 DEF TypeOK, Status
  <2>4. \A past : Stays(p, past)
    BY <2>1 DEF Stays, Beyond, Cleared, ClearedAt, At
  <2>5. Beyond(p, PastSingle)' => Beyond(p, PastSingle)
    BY <2>4 DEF Stays
  <2>6. job[p].pc \in {"dailySum", "monthlySum"} /\ Client(p) \notin retuned => job[p].read = limits[Client(p)]
    BY <2>1 DEF LimitsIInv, At
  <2> QED BY <2>1, <2>2, <2>3, <2>4, <2>5, <2>6, LimitsStep DEF Fits
<1> QED BY <1>1, <1>2

LEMMA LimitsInitially == Init => LimitsIInv
<1> SUFFICES ASSUME Init PROVE LimitsIInv
  OBVIOUS
<1>1. IInv /\ Rows = {}
  BY Initially DEF Init, Rows
<1>2. \A c \in Clients : limits[c] = NoLimits
  BY DEF Init
<1>3. IsFiniteSet({})
  BY FS_EmptySet
<1> QED BY <1>1, <1>2, <1>3 DEF LimitsIInv

LEMMA NextKeepsLimits ==
  ASSUME LimitsIInv, [Next]_vars
  PROVE  LimitsIInv'
<1>1. IInv'
  BY NextPreserves DEF LimitsIInv
<1>2. ASSUME NEW p \in Payments, Prevalidates(p) PROVE LimitsIInv'
  BY <1>1, <1>2, EvaluateKeepsLimits, RulesKeepLimits, StoreKeepsLimits DEF Prevalidates
<1>3. ASSUME NEW p \in Payments, Receive(p) \/ StatementFails(p) \/ CancelPayment(p)
                                \/ RescheduleReads(p) \/ ReschedulePayment(p)
      PROVE  LimitsIInv'
  BY <1>1, <1>3, ReceiveKeepsLimits, FailureKeepsLimits, CancelKeepsLimits, RescheduleKeepsLimits
<1>4. \/ \E p \in Payments : \/ Receive(p) \/ Prevalidates(p) \/ StatementFails(p) \/ CancelPayment(p)
                               \/ RescheduleReads(p) \/ ReschedulePayment(p)
      \/ \E c \in Clients : SetClientLimits(c) \/ SetDuplicateRule(c)
      \/ AddBlacklistEntry
      \/ Tick
      \/ UNCHANGED vars
  BY DEF Next
<1> QED BY <1>1, <1>2, <1>3, <1>4, SettingsKeepLimits

(* The inductive invariant of the sums: the payments past a limit's rule are *)
(* within that limit together, and a job that has read the limits but not    *)
(* the sum yet has read the ones in force.                                   *)
THEOREM LimitsInvariant == Spec => []LimitsIInv
<1>1. LimitsIInv /\ [Next]_vars => LimitsIInv'
  BY NextKeepsLimits
<1> QED BY <1>1, LimitsInitially, PTL DEF Spec

(* However many jobs sum up at the same time, what the rules let through in  *)
(* a day or a month stays within the client's limits: a row is in the table  *)
(* before its job runs, so the later of two sums holds both.                 *)
THEOREM LimitsStand == Spec => []LimitsHold
<1>1. ASSUME LimitsIInv, NEW c \in Clients \ retuned, limits[c] # NoLimits
      PROVE  /\ \A p \in Passed(c) : ~Exceeds(payments[p].amount, limits[c].single)
             /\ PeriodHolds(c, Day, limits[c].daily)
             /\ PeriodHolds(c, Month, limits[c].monthly)
  <2>0. LimitsOK(c) /\ MaxTime \in Nat
    BY <1>1, Constants DEF LimitsIInv
  <2>1. ASSUME NEW p \in Passed(c)
        PROVE  /\ p \in Rows /\ p \in Of(c) /\ ClearedAt(p) = judged[p]
               /\ \A past : Beyond(p, past)
               /\ payments[p].created \in 0..MaxTime
    <3>1. p \in Rows /\ p \in Of(c) /\ p \notin disturbed /\ payments[p].status = "PREVALIDATED"
      BY DEF Passed, Of
    <3>2. At(p, "done")
      BY <1>1, <3>1 DEF LimitsIInv, IInv, JobOK
    <3> QED BY <1>1, <3>1, <3>2, LimitFacts DEF Beyond, Cleared, ClearedAt
  <2>2. \A p \in Passed(c) : ~Exceeds(payments[p].amount, limits[c].single)
    BY <2>0, <2>1 DEF LimitsOK
  <2>3. ASSUME NEW past, NEW period \in Nat \ {0}, NEW limit, limit \in Nat, SumWithin(c, past, period, limit)
        PROVE  PeriodHolds(c, period, limit)
    <3> SUFFICES ASSUME limit > 0, NEW p \in JudgedInTime(c, period), NEW t, t = payments[p].created \div period
                 PROVE  Total({q \in JudgedInTime(c, period) : payments[q].created \div period = t}) <= limit
      BY DEF PeriodHolds
    <3>1. t \in 0..MaxTime
      <4>1. payments[p].created \in 0..MaxTime
        BY <2>1 DEF JudgedInTime
      <4> QED BY <2>0, <4>1
    <3>2. PICK A : A = {q \in JudgedInTime(c, period) : payments[q].created \div period = t}
      OBVIOUS
    <3>3. PICK S : S = InPeriod(c, past, period, t)
      OBVIOUS
    <3>4. S \subseteq Rows
      BY <3>3 DEF InPeriod, Of
    <3>5. A \subseteq S
      BY <2>1, <3>2, <3>3 DEF JudgedInTime, InPeriod
    <3>6. Total(A) <= Total(S) /\ Total(A) \in Nat /\ Total(S) \in Nat
      <4>1. A \subseteq Rows
        BY <3>4, <3>5
      <4> QED BY <1>1, <3>4, <3>5, <4>1, RowTotals
    <3>7. Total(S) <= limit
      BY <2>3, <3>1, <3>3 DEF SumWithin
    <3>8. Total(A) <= limit
      BY <2>3, <3>6, <3>7
    <3> QED BY <3>2, <3>8
  <2>4. limits[c].daily \in Nat /\ limits[c].monthly \in Nat
    <3>1. limits[c] \in Limits
      BY <1>1 DEF LimitsIInv, IInv, TypeOK
    <3> QED BY <3>1 DEF Limits
  <2> QED BY <2>0, <2>2, <2>3, <2>4, Periods DEF LimitsOK
<1>2. LimitsIInv => LimitsHold
  BY <1>1 DEF LimitsHold
<1> QED BY <1>2, LimitsInvariant, PTL
=============================================================================
