------------------------- MODULE RunApproval_proofs -------------------------
(***************************************************************************)
(* Proofs about RunApproval, for any payments, runs, goroutines and faults:*)
(* the totals of a run count only payments its own approval loop stored    *)
(* APPROVED, because the listed items an approval has visited are stored;  *)
(* and where no requests overlap and none fails, totals are those of the   *)
(* items and a run is submitted once.                                      *)
(***************************************************************************)
EXTENDS RunApproval, TLAPS

\* The statements are expanded wherever the action that runs them is.
USE DEF GetPayment, UpdatePaymentStatus, GetPaymentRun, InsertPaymentRun,
        UpdatePaymentRunStatus, UpdatePaymentRunCounters, DetachPaymentFromRun

\* A run read once stays in the table, and what was approved was approved.
Grows ==
  \A r \in Runs :
    /\ runStatus[r] # "NONE" => runStatus'[r] # "NONE"
    /\ approved[r] \subseteq approved'[r]

ItemsHaveRuns == \A p \in Payments : itemOf[p] # NoRun => runStatus[itemOf[p]] # "NONE"

(* A step of one goroutine: the others keep what their locals rest on.     *)
LEMMA StepLemma ==
  ASSUME IInv, Grows, NEW a \in Actors, NEW f \in Frames, FrameOK(f)',
         frame' = [frame EXCEPT ![a] = f],
         TypeOK', CountedWereApproved', ItemsHaveRuns'
  PROVE  IInv'
<1>1. ASSUME NEW b \in Actors PROVE FrameOK(frame[b])'
  <2>1. CASE b = a
    BY <2>1 DEF IInv, TypeOK, FrameOK
  <2>2. CASE b # a
    <3>1. PICK g \in Frames : g = frame[b] /\ g = frame'[b]
      BY <2>2 DEF IInv, TypeOK
    <3>2. FrameOK(g)
      BY <3>1 DEF IInv, FrameOK
    <3>3. /\ g.run \in Runs => runStatus'[g.run] # "NONE"
          /\ g.op = "approve" /\ g.at \in {"next", "update", "counters"} =>
               g.items \ g.todo \subseteq approved'[g.run]
      BY <3>2 DEF FrameOK, Grows
    <3> QED BY <3>1, <3>2, <3>3 DEF FrameOK
  <2> QED BY <2>1, <2>2
<1> QED BY <1>1 DEF IInv, ItemsHaveRuns

(* A step that moves one goroutine and touches no table.                   *)
LEMMA FrameStep ==
  ASSUME IInv, NEW a \in Actors, NEW f \in Frames, FrameOK(f),
         frame' = [frame EXCEPT ![a] = f],
         UNCHANGED <<tables, approved, submitted>>,
         disturbed' \in BOOLEAN, faults' \in 0..MaxFaults
  PROVE  IInv'
<1> USE DEF tables
<1>1. Grows
  BY DEF Grows
<1>2. FrameOK(f)'
  BY DEF FrameOK
<1>3. TypeOK' /\ CountedWereApproved' /\ ItemsHaveRuns'
  BY DEF IInv, TypeOK, CountedWereApproved, ItemsHaveRuns
<1> QED BY <1>1, <1>2, <1>3, StepLemma

LEMMA IdleFrameOK == IdleFrame \in Frames /\ FrameOK(IdleFrame) /\ FrameOK(IdleFrame)'
BY RunNullsAssumption DEF IdleFrame, Frames, FrameOK, Ops, Phases, Status

(* A request that passes its first test.                                   *)
LEMMA BeginStep ==
  ASSUME IInv, NEW a \in Actors, NEW f \in Frames, FrameOK(f), Begin(a, f)
  PROVE  IInv'
BY FrameStep DEF Begin, IInv, TypeOK

(* Moving on to a phase that rests on nothing new, or giving up.           *)
LEMMA GoStep ==
  ASSUME IInv, NEW a \in Actors, NEW phase \in {"insert", "commit"},
         frame[a].op \in {"attach", "reschedule"}, ~Idle(a), Go(a, phase)
  PROVE  IInv'
<1> DEFINE f == [frame[a] EXCEPT !.at = phase]
<1>1. frame[a] \in Frames /\ FrameOK(frame[a])
  BY DEF IInv, TypeOK
<1>2. f \in Frames
  BY <1>1 DEF Frames, Phases
<1>3. FrameOK(f)
  BY <1>1 DEF FrameOK, Idle, Frames
<1>4. /\ frame' = [frame EXCEPT ![a] = f]
      /\ UNCHANGED <<tables, approved, submitted, disturbed, faults>>
  BY DEF Go, history
<1>5. disturbed' \in BOOLEAN /\ faults' \in 0..MaxFaults
  BY <1>4 DEF IInv, TypeOK
<1> QED BY <1>2, <1>3, <1>4, <1>5, FrameStep

LEMMA FinishStep ==
  ASSUME IInv, NEW a \in Actors, Finish(a), UNCHANGED <<tables, approved, submitted>>,
         disturbed' \in BOOLEAN, faults' \in 0..MaxFaults
  PROVE  IInv'
BY IdleFrameOK, FrameStep DEF Finish

-----------------------------------------------------------------------------

LEMMA RequestSteps ==
  ASSUME IInv, NEW a \in Operators, Request(a)
  PROVE  IInv'
<1>0. a \in Actors
  BY DEF Actors
<1> USE RunNullsAssumption DEF IdleFrame, Frames, FrameOK, Ops, Phases, Status
<1>1. ASSUME NEW r \in Runs, ApproveRun(a, r) PROVE IInv'
  <2>1. runStatus[r] # "NONE"
    BY <1>1 DEF ApproveRun, RunCanTransition, RunAllowed
  <2> DEFINE f == [IdleFrame EXCEPT !.op = "approve", !.at = "list", !.run = r]
  <2>2. f \in Frames /\ FrameOK(f)
    BY <2>1
  <2> QED BY <1>0, <1>1, <2>2, BeginStep DEF ApproveRun
<1>2. ASSUME NEW r \in Runs, NEW p \in Payments, AttachPayment(a, r, p) PROVE IInv'
  <2> DEFINE f == [IdleFrame EXCEPT !.op = "attach", !.at = "payment", !.run = r, !.pay = p]
  <2>1. f \in Frames /\ FrameOK(f)
    BY <1>2 DEF AttachPayment
  <2> QED BY <1>0, <1>2, <2>1, BeginStep DEF AttachPayment
<1>3. ASSUME NEW r \in Runs, NEW p \in Payments, DetachPayment(a, r, p) PROVE IInv'
  <2> DEFINE f == [IdleFrame EXCEPT !.op = "detach", !.at = "delete", !.run = r, !.pay = p]
  <2>1. f \in Frames /\ FrameOK(f)
    BY <1>3 DEF DetachPayment
  <2> QED BY <1>0, <1>3, <2>1, BeginStep DEF DetachPayment
<1>4. ASSUME NEW p \in Payments, ReschedulePayment(a, p) PROVE IInv'
  <2> DEFINE f == [IdleFrame EXCEPT !.op = "reschedule", !.at = "check", !.pay = p]
  <2>1. f \in Frames /\ FrameOK(f)
    OBVIOUS
  <2> QED BY <1>0, <1>4, <2>1, BeginStep DEF ReschedulePayment
<1>5. ASSUME NEW p \in Payments, NEW to \in {"ON_HOLD", "APPROVED", "CANCELED", "REJECTED"},
             TransitionPayment(a, p, to)
      PROVE  IInv'
  <2> DEFINE f == [IdleFrame EXCEPT !.op = "operator", !.at = "update", !.pay = p, !.to = to]
  <2>1. f \in Frames /\ FrameOK(f)
    OBVIOUS
  <2> QED BY <1>0, <1>5, <2>1, BeginStep DEF TransitionPayment
<1> QED BY <1>1, <1>2, <1>3, <1>4, <1>5 DEF Request

(* Attach, detach and reschedule change which run a payment is in; the run *)
(* they name is still in the table.                                        *)
LEMMA ItemSteps ==
  ASSUME IInv, NEW a \in Actors,
         \/ AttachChecksPayment(a) \/ AttachInserts(a) \/ DetachDeletes(a)
         \/ RescheduleChecksRun(a) \/ RescheduleCommits(a) \/ TransitionStores(a)
  PROVE  IInv'
<1>0. /\ frame[a] \in Frames /\ FrameOK(frame[a])
      /\ disturbed \in BOOLEAN /\ faults \in 0..MaxFaults
  BY DEF IInv, TypeOK
<1>1. CASE AttachChecksPayment(a)
  BY <1>0, <1>1, GoStep, FinishStep DEF AttachChecksPayment, At, Idle, Refuse, history
<1>2. CASE RescheduleChecksRun(a)
  BY <1>0, <1>2, GoStep, FinishStep DEF RescheduleChecksRun, At, Idle, Refuse, history
<1>3. CASE AttachInserts(a) \/ DetachDeletes(a) \/ RescheduleCommits(a) \/ TransitionStores(a)
  <2>1. /\ frame' = [frame EXCEPT ![a] = IdleFrame]
        /\ UNCHANGED <<runStatus, counters, approved, submitted, disturbed, faults>>
    BY <1>3 DEF AttachInserts, DetachDeletes, RescheduleCommits, TransitionStores,
                Finish, history
  <2>2. frame[a].pay \in Payments
    BY <1>0, <1>3 DEF AttachInserts, DetachDeletes, RescheduleCommits, TransitionStores,
                      At, FrameOK
  <2>3. status' \in [Payments -> Status]
    <3>1. frame[a].to \in Status /\ "PREVALIDATED" \in Status
      BY <1>0 DEF Frames, Status
    <3> QED BY <1>3, <3>1 DEF AttachInserts, DetachDeletes, RescheduleCommits,
                              TransitionStores, IInv, TypeOK
  <2>4. PICK p \in Payments, x \in Runs \cup {NoRun} :
          /\ itemOf' = [itemOf EXCEPT ![p] = x]
          /\ x # NoRun => runStatus[x] # "NONE"
    <3>1. CASE AttachInserts(a)
      <4>1. frame[a].run \in Runs /\ runStatus[frame[a].run] # "NONE"
        BY <1>0, <3>1 DEF AttachInserts, At, FrameOK
      <4>2. CASE itemOf[frame[a].pay] = NoRun
        BY <2>2, <3>1, <4>1, <4>2 DEF AttachInserts, AttachPaymentToRun
      <4>3. CASE itemOf[frame[a].pay] # NoRun
        <5>1. itemOf' = [itemOf EXCEPT ![frame[a].pay] = itemOf[frame[a].pay]]
          BY <3>1, <4>3 DEF AttachInserts, AttachPaymentToRun, IInv, TypeOK
        <5> QED BY <2>2, <5>1 DEF IInv, TypeOK
      <4> QED BY <4>2, <4>3
    <3>2. CASE DetachDeletes(a)
      <4>1. CASE itemOf[frame[a].pay] = frame[a].run
        BY <2>2, <3>2, <4>1 DEF DetachDeletes
      <4>2. CASE itemOf[frame[a].pay] # frame[a].run
        <5>1. itemOf' = [itemOf EXCEPT ![frame[a].pay] = itemOf[frame[a].pay]]
          BY <3>2, <4>2 DEF DetachDeletes, IInv, TypeOK
        <5> QED BY <2>2, <5>1 DEF IInv, TypeOK
      <4> QED BY <4>1, <4>2
    <3>3. CASE RescheduleCommits(a)
      BY <2>2, <3>3 DEF RescheduleCommits
    <3>4. CASE TransitionStores(a)
      <4>1. itemOf' = [itemOf EXCEPT ![frame[a].pay] = itemOf[frame[a].pay]]
        BY <3>4 DEF TransitionStores, IInv, TypeOK
      <4> QED BY <2>2, <4>1 DEF IInv, TypeOK
    <3> QED BY <1>3, <3>1, <3>2, <3>3, <3>4
  <2>5. TypeOK' /\ CountedWereApproved'
    BY <2>1, <2>3, <2>4, IdleFrameOK DEF IInv, TypeOK, CountedWereApproved
  <2>6. ItemsHaveRuns'
    BY <2>1, <2>4 DEF IInv, TypeOK, ItemsHaveRuns
  <2>7. Grows
    BY <2>1 DEF Grows
  <2> QED BY <2>1, <2>5, <2>6, <2>7, IdleFrameOK, StepLemma
<1> QED BY <1>1, <1>2, <1>3

-----------------------------------------------------------------------------
(* The approval loop.                                                      *)

LEMMA ApproveReads ==
  ASSUME IInv, NEW a \in Actors, ApproveLists(a) \/ ApproveNext(a)
  PROVE  IInv'
<1>0. /\ frame[a] \in Frames /\ FrameOK(frame[a])
      /\ disturbed \in BOOLEAN /\ faults \in 0..MaxFaults
  BY DEF IInv, TypeOK
<1>1. CASE ApproveLists(a)
  <2> DEFINE f == [frame[a] EXCEPT !.at = "next", !.items = ListRunItems(frame[a].run),
                                   !.todo = ListRunItems(frame[a].run)]
  <2>1. f \in Frames
    BY <1>0 DEF Frames, Phases, ListRunItems
  <2>2. FrameOK(f)
    BY <1>0, <1>1 DEF FrameOK, ApproveLists, At, Frames
  <2>3. frame' = [frame EXCEPT ![a] = f]
    BY <1>1 DEF ApproveLists
  <2> QED BY <1>0, <1>1, <2>1, <2>2, <2>3, FrameStep DEF ApproveLists, history
<1>2. CASE ApproveNext(a)
  <2>1. PICK p \in frame[a].todo :
          IF status[p] = "PREVALIDATED"
            THEN frame' = [frame EXCEPT ![a].at = "update", ![a].pay = p]
            ELSE Finish(a)
    BY <1>2 DEF ApproveNext
  <2>2. UNCHANGED <<tables, approved, submitted, disturbed, faults>>
    BY <1>2 DEF ApproveNext, history
  <2>3. CASE status[p] = "PREVALIDATED"
    <3> DEFINE f == [frame[a] EXCEPT !.at = "update", !.pay = p]
    <3>1. p \in Payments
      BY <1>0 DEF Frames
    <3>2. f \in Frames
      BY <1>0, <3>1 DEF Frames, Phases
    <3>3. FrameOK(f)
      BY <1>0, <1>2, <3>1 DEF FrameOK, ApproveNext, At, Frames
    <3>4. frame' = [frame EXCEPT ![a] = f]
      BY <2>1, <2>3
    <3> QED BY <1>0, <2>2, <3>2, <3>3, <3>4, FrameStep
  <2>4. CASE status[p] # "PREVALIDATED"
    BY <1>0, <2>1, <2>2, <2>4, FinishStep
  <2> QED BY <2>3, <2>4
<1> QED BY <1>1, <1>2

(* Storing APPROVED puts the payment into the run's history before it      *)
(* leaves the to-do set.                                                   *)
LEMMA ApproveStoresStep ==
  ASSUME IInv, NEW a \in Actors, ApproveStores(a)
  PROVE  IInv'
<1> DEFINE g == frame[a]
           f == [g EXCEPT !.at = "next", !.todo = @ \ {g.pay}]
<1>1. /\ g \in Frames /\ FrameOK(g) /\ g.op = "approve" /\ g.at = "update"
      /\ g.run \in Runs /\ g.pay \in Payments
  BY DEF ApproveStores, At, IInv, TypeOK, FrameOK
<1>2. /\ status' = [status EXCEPT ![g.pay] = "APPROVED"]
      /\ approved' = [approved EXCEPT ![g.run] = @ \cup {g.pay}]
      /\ frame' = [frame EXCEPT ![a] = f]
      /\ UNCHANGED <<runStatus, itemOf, counters, submitted, disturbed, faults>>
  BY DEF ApproveStores
<1>3. Grows
  BY <1>1, <1>2 DEF Grows, IInv, TypeOK
<1>4. PICK h \in Frames : h = f
  BY <1>1 DEF Frames, Phases
<1>5. FrameOK(h)'
  <2>1. /\ h.op = "approve" /\ h.at = "next" /\ h.run = g.run /\ h.pay = g.pay
        /\ h.items = g.items /\ h.todo = g.todo \ {g.pay}
    BY <1>1, <1>4 DEF Frames
  <2>2. g.items \ g.todo \subseteq approved[g.run] /\ runStatus[g.run] # "NONE"
    BY <1>1 DEF FrameOK
  <2>3. approved'[g.run] = approved[g.run] \cup {g.pay}
    BY <1>1, <1>2 DEF IInv, TypeOK
  <2> QED BY <1>1, <1>2, <2>1, <2>2, <2>3 DEF FrameOK
<1>6. TypeOK'
  BY <1>1, <1>2, <1>4 DEF IInv, TypeOK, Status
<1>7. CountedWereApproved' /\ ItemsHaveRuns'
  BY <1>2, <1>3 DEF IInv, TypeOK, CountedWereApproved, ItemsHaveRuns, Grows
<1>8. frame' = [frame EXCEPT ![a] = h]
  BY <1>2, <1>4
<1> QED BY <1>3, <1>5, <1>6, <1>7, <1>8, StepLemma

LEMMA ApproveStoresRunStep ==
  ASSUME IInv, NEW a \in Actors, ApproveStoresRun(a)
  PROVE  IInv'
<1> DEFINE g == frame[a]
           f == [g EXCEPT !.at = "counters"]
<1>1. /\ g \in Frames /\ FrameOK(g) /\ g.op = "approve" /\ g.at = "next"
      /\ g.todo = {} /\ g.run \in Runs
  BY DEF ApproveStoresRun, At, IInv, TypeOK, FrameOK
<1>2. /\ runStatus' = [runStatus EXCEPT ![g.run] = "APPROVED"]
      /\ frame' = [frame EXCEPT ![a] = f]
      /\ UNCHANGED <<status, itemOf, counters, approved, submitted, disturbed, faults>>
  BY DEF ApproveStoresRun, history
<1>3. Grows
  BY <1>1, <1>2 DEF Grows, IInv, TypeOK
<1>4. PICK h \in Frames : h = f
  BY <1>1 DEF Frames, Phases
<1>5. FrameOK(h)'
  <2>1. /\ h.op = "approve" /\ h.at = "counters" /\ h.run = g.run
        /\ h.items = g.items /\ h.todo = {}
    BY <1>1, <1>4 DEF Frames
  <2>2. g.items \ g.todo \subseteq approved[g.run]
    BY <1>1 DEF FrameOK
  <2>3. runStatus'[g.run] # "NONE"
    BY <1>1, <1>2 DEF IInv, TypeOK
  <2> QED BY <1>1, <1>2, <2>1, <2>2, <2>3 DEF FrameOK
<1>6. TypeOK'
  BY <1>1, <1>2, <1>4 DEF IInv, TypeOK, RunStatus
<1>7. CountedWereApproved' /\ ItemsHaveRuns'
  BY <1>2, <1>3 DEF IInv, TypeOK, CountedWereApproved, ItemsHaveRuns, Grows
<1>8. frame' = [frame EXCEPT ![a] = h]
  BY <1>2, <1>4
<1> QED BY <1>3, <1>5, <1>6, <1>7, <1>8, StepLemma

(* The totals are those of the listed items, all of them visited.          *)
LEMMA ApproveStoresCountersStep ==
  ASSUME IInv, NEW a \in Actors, ApproveStoresCounters(a)
  PROVE  IInv'
<1> DEFINE g == frame[a]
<1>1. /\ g \in Frames /\ g.run \in Runs /\ g.todo = {}
      /\ g.items \ g.todo \subseteq approved[g.run]
  BY DEF ApproveStoresCounters, At, IInv, TypeOK, FrameOK
<1>2. /\ counters' = [counters EXCEPT ![g.run] = g.items]
      /\ frame' = [frame EXCEPT ![a] = IdleFrame]
      /\ UNCHANGED <<status, runStatus, itemOf, approved, submitted, disturbed, faults>>
  BY DEF ApproveStoresCounters, Finish, history
<1>3. g.items \subseteq Payments /\ g.items \subseteq approved[g.run]
  BY <1>1 DEF Frames
<1>4. TypeOK'
  BY <1>1, <1>2, <1>3, IdleFrameOK DEF IInv, TypeOK
<1>5. CountedWereApproved' /\ ItemsHaveRuns' /\ Grows
  BY <1>1, <1>2, <1>3 DEF IInv, TypeOK, CountedWereApproved, ItemsHaveRuns, Grows
<1> QED BY <1>2, <1>4, <1>5, IdleFrameOK, StepLemma

-----------------------------------------------------------------------------
(* Requests made of one statement: no goroutine's locals change.           *)

LEMMA TableStep ==
  ASSUME IInv, Grows, UNCHANGED frame, TypeOK', CountedWereApproved', ItemsHaveRuns'
  PROVE  IInv'
<1>1. ASSUME NEW b \in Actors PROVE FrameOK(frame[b])'
  <2>1. PICK g \in Frames : g = frame[b] /\ g = frame'[b]
    BY DEF IInv, TypeOK
  <2>2. FrameOK(g)
    BY <2>1 DEF IInv, FrameOK
  <2>3. /\ g.run \in Runs => runStatus'[g.run] # "NONE"
        /\ g.op = "approve" /\ g.at \in {"next", "update", "counters"} =>
             g.items \ g.todo \subseteq approved'[g.run]
    BY <2>2 DEF FrameOK, Grows
  <2> QED BY <2>1, <2>2, <2>3 DEF FrameOK
<1> QED BY <1>1 DEF IInv, ItemsHaveRuns

LEMMA RunSteps ==
  ASSUME IInv, NEW r \in Runs, CreateRun(r) \/ SubmitToBank(r)
  PROVE  IInv'
<1>1. PICK s \in {"OPEN", "EXECUTING"} : runStatus' = [runStatus EXCEPT ![r] = s]
  BY DEF CreateRun, SubmitToBank
<1>2. UNCHANGED <<status, itemOf, counters, approved, disturbed, frame, faults>>
  BY DEF CreateRun, SubmitToBank, history
<1>3. submitted' \in [Runs -> 0..2]
  <2>1. CASE CreateRun(r)
    BY <2>1 DEF CreateRun, history, IInv, TypeOK
  <2>2. CASE SubmitToBank(r)
    BY <2>2 DEF SubmitToBank, IInv, TypeOK
  <2> QED BY <2>1, <2>2
<1>4. Grows
  BY <1>1, <1>2 DEF Grows, IInv, TypeOK
<1>5. TypeOK'
  BY <1>1, <1>2, <1>3 DEF IInv, TypeOK, RunStatus
<1>6. CountedWereApproved' /\ ItemsHaveRuns'
  BY <1>1, <1>2, <1>4 DEF IInv, TypeOK, CountedWereApproved, ItemsHaveRuns, Grows
<1> QED BY <1>2, <1>4, <1>5, <1>6, TableStep

-----------------------------------------------------------------------------
(* The grouping job.                                                       *)

LEMMA GroupSteps ==
  ASSUME IInv, NEW a \in Actors,
         AutoGroup(a) \/ AutoCreatesRun(a) \/ AutoAttaches(a) \/ AutoDone(a)
  PROVE  IInv'
<1> DEFINE g == frame[a]
<1>0. g \in Frames /\ FrameOK(g) /\ disturbed \in BOOLEAN /\ faults \in 0..MaxFaults
  BY DEF IInv, TypeOK
<1>1. CASE AutoGroup(a)
  <2> DEFINE f == [IdleFrame EXCEPT !.op = "group", !.at = "create",
                                    !.todo = ListPaymentsByStatus("PREVALIDATED", ListLimit)]
  <2>1. ListPaymentsByStatus("PREVALIDATED", ListLimit) \subseteq Payments
    BY DEF ListPaymentsByStatus
  <2>2. f \in Frames /\ FrameOK(f)
    BY <2>1, RunNullsAssumption DEF IdleFrame, Frames, FrameOK, Ops, Phases, Status
  <2> QED BY <1>1, <2>2, BeginStep DEF AutoGroup
<1>2. CASE AutoCreatesRun(a)
  <2>1. PICK r \in Runs :
          /\ runStatus' = [runStatus EXCEPT ![r] = "OPEN"]
          /\ frame' = [frame EXCEPT ![a].at = "next", ![a].run = r]
    BY <1>2 DEF AutoCreatesRun
  <2>2. UNCHANGED <<status, itemOf, counters, approved, submitted, disturbed, faults>>
    BY <1>2 DEF AutoCreatesRun, history
  <2>3. PICK h \in Frames : h = [g EXCEPT !.at = "next", !.run = r]
    BY <1>0 DEF Frames, Phases
  <2>4. FrameOK(h)'
    <3>1. h.op = "group" /\ h.at = "next" /\ h.run = r
      BY <1>0, <1>2, <2>3 DEF AutoCreatesRun, At, Frames
    <3>2. runStatus'[r] # "NONE"
      BY <2>1 DEF IInv, TypeOK
    <3> QED BY <3>1, <3>2 DEF FrameOK
  <2>5. Grows
    BY <2>1, <2>2 DEF Grows, IInv, TypeOK
  <2>6. frame' = [frame EXCEPT ![a] = h]
    BY <2>1, <2>3
  <2>7. TypeOK'
    <3>1. runStatus' \in [Runs -> RunStatus \cup {"NONE"}]
      BY <2>1 DEF IInv, TypeOK, RunStatus
    <3>2. frame' \in [Actors -> Frames]
      BY <2>6 DEF IInv, TypeOK
    <3> QED BY <2>2, <3>1, <3>2 DEF IInv, TypeOK
  <2>8. CountedWereApproved' /\ ItemsHaveRuns'
    BY <2>2, <2>5 DEF IInv, TypeOK, CountedWereApproved, ItemsHaveRuns, Grows
  <2> QED BY <2>4, <2>5, <2>6, <2>7, <2>8, StepLemma
<1>3. CASE AutoAttaches(a)
  <2>1. PICK p \in g.todo :
          AttachPaymentToRun(p, g.run) /\ frame' = [frame EXCEPT ![a].todo = @ \ {p}]
    BY <1>3 DEF AutoAttaches
  <2>2. UNCHANGED <<status, runStatus, counters, approved, submitted, disturbed, faults>>
    BY <1>3 DEF AutoAttaches, history
  <2>3. p \in Payments /\ g.run \in Runs /\ runStatus[g.run] # "NONE"
    BY <1>0, <1>3 DEF AutoAttaches, At, FrameOK, Frames
  <2>4. PICK h \in Frames : h = [g EXCEPT !.todo = @ \ {p}]
    BY <1>0 DEF Frames
  <2>5. FrameOK(h)'
    <3>1. h.op = "group" /\ h.at = "next" /\ h.run = g.run
      BY <1>0, <1>3, <2>4 DEF AutoAttaches, At, Frames
    <3> QED BY <2>2, <2>3, <3>1 DEF FrameOK
  <2>6. frame' = [frame EXCEPT ![a] = h]
    BY <2>1, <2>4
  <2>7. \/ itemOf' = itemOf
        \/ itemOf' = [itemOf EXCEPT ![p] = g.run]
    BY <2>1 DEF AttachPaymentToRun
  <2>8. TypeOK'
    BY <2>2, <2>3, <2>6, <2>7 DEF IInv, TypeOK
  <2>9. CountedWereApproved' /\ ItemsHaveRuns' /\ Grows
    BY <2>2, <2>3, <2>7 DEF IInv, TypeOK, CountedWereApproved, ItemsHaveRuns, Grows
  <2> QED BY <2>5, <2>6, <2>8, <2>9, StepLemma
<1>4. CASE AutoDone(a)
  BY <1>0, <1>4, FinishStep DEF AutoDone, Refuse, history
<1> QED BY <1>1, <1>2, <1>3, <1>4

LEMMA FaultStep ==
  ASSUME IInv, NEW a \in Actors, Fault(a)
  PROVE  IInv'
<1>1. faults' \in 0..MaxFaults
  BY RunBoundsAssumption DEF Fault, IInv, TypeOK
<1> QED BY <1>1, FinishStep DEF Fault

-----------------------------------------------------------------------------

LEMMA InitOK == Init => IInv
<1> SUFFICES ASSUME Init PROVE IInv
  OBVIOUS
<1>1. TypeOK
  <2>1. disturbed \in BOOLEAN
    BY DEF Init
  <2>2. status \in [Payments -> Status] /\ submitted \in [Runs -> 0..2] /\ faults \in 0..MaxFaults
    BY RunBoundsAssumption DEF Init, Status
  <2> QED BY <2>1, <2>2, IdleFrameOK DEF Init, TypeOK
<1>2. CountedWereApproved /\ \A p \in Payments : itemOf[p] = NoRun
  BY DEF Init, CountedWereApproved
<1>3. \A a \in Actors : FrameOK(frame[a])
  BY IdleFrameOK DEF Init
<1> QED BY <1>1, <1>2, <1>3 DEF IInv

LEMMA StutterOK == IInv /\ UNCHANGED vars => IInv'
<1> SUFFICES ASSUME IInv, UNCHANGED vars PROVE IInv'
  OBVIOUS
<1>1. Grows /\ TypeOK' /\ CountedWereApproved' /\ ItemsHaveRuns' /\ UNCHANGED frame
  BY DEF vars, IInv, Grows, TypeOK, CountedWereApproved, ItemsHaveRuns
<1> QED BY <1>1, TableStep

LEMMA StepOK ==
  ASSUME IInv, NEW a \in Actors, Step(a)
  PROVE  IInv'
BY ItemSteps, ApproveReads, ApproveStoresStep, ApproveStoresRunStep,
   ApproveStoresCountersStep, GroupSteps DEF Step

LEMMA NextOK == IInv /\ [Next]_vars => IInv'
<1> SUFFICES ASSUME IInv, [Next]_vars PROVE IInv'
  OBVIOUS
<1>1. ASSUME NEW r \in Runs, CreateRun(r) \/ SubmitToBank(r) PROVE IInv'
  BY <1>1, RunSteps
<1>2. ASSUME NEW a \in Operators, Request(a) PROVE IInv'
  BY <1>2, RequestSteps
<1>3. ASSUME NEW a \in Crons, AutoGroup(a) PROVE IInv'
  BY <1>3, GroupSteps DEF Actors
<1>4. ASSUME NEW a \in Actors, Step(a) \/ Fault(a) PROVE IInv'
  BY <1>4, StepOK, FaultStep
<1> QED BY <1>1, <1>2, <1>3, <1>4, StutterOK DEF Next

(* Every reachable state satisfies the inductive invariant: among other    *)
(* things, an item's run exists, and an approval in progress (ApproveRun)  *)
(* has stored APPROVED for every listed item it has visited.               *)
THEOREM RunInvariant == Spec => []IInv
BY InitOK, NextOK, PTL DEF Spec

(* The totals ApproveRun writes (UpdateCounters) only ever count payments  *)
(* that this run's approval loop stored APPROVED, however requests, the    *)
(* grouping job, crashes and repeated approvals interleave.                *)
THEOREM TotalsWereApproved == Spec => []CountedWereApproved
<1>1. IInv => CountedWereApproved
  BY DEF IInv
<1> QED BY RunInvariant, <1>1, PTL

-----------------------------------------------------------------------------
(* Requests that do not overlap: the run a request works on stays as it    *)
(* read it, so a run's totals and its submission are right.                *)

OthersIdle(a) == \A b \in Actors : b # a => Idle(b)

(* While one goroutine works the others are idle and rest on nothing.      *)
LEMMA SoloStep ==
  ASSUME IInv, NEW a \in Actors, NEW f \in Frames, OthersIdle(a),
         frame' = [frame EXCEPT ![a] = f],
         FrameUndisturbed(f)', \A r \in Runs : RunUndisturbed(r)'
  PROVE  Undisturbed'
<1>1. ASSUME NEW b \in Actors, b # a PROVE frame'[b] = frame[b] /\ frame[b].at = "idle"
  BY <1>1 DEF OthersIdle, Idle, IInv, TypeOK
<1>2. frame'[a] = f
  BY DEF IInv, TypeOK
<1>3. \A b, c \in Actors : ~Idle(b)' /\ ~Idle(c)' => b = c
  BY <1>1 DEF Idle
<1>4. ASSUME NEW b \in Actors PROVE FrameUndisturbed(frame[b])'
  <2>1. CASE b = a
    BY <1>2, <2>1 DEF FrameUndisturbed
  <2>2. CASE b # a
    BY <1>1, <2>2 DEF FrameUndisturbed
  <2> QED BY <2>1, <2>2
<1> QED BY <1>3, <1>4 DEF Undisturbed

(* Nobody else is at the counters of an approval.                          *)
LEMMA NoCountersDue ==
  ASSUME NEW a \in Actors, OthersIdle(a), ~At(a, "approve", "counters"), NEW r \in Runs
  PROVE  ~CountersDue(r)
BY DEF OthersIdle, Idle, At, CountersDue

(* A step that leaves the runs, their items and their totals alone.        *)
LEMMA QuietStep ==
  ASSUME IInv, Undisturbed, NEW a \in Actors, NEW f \in Frames, OthersIdle(a),
         ~At(a, "approve", "counters"), FrameUndisturbed(f),
         frame' = [frame EXCEPT ![a] = f],
         UNCHANGED <<runStatus, itemOf, counters, submitted>>
  PROVE  Undisturbed'
<1>1. FrameUndisturbed(f)'
  BY DEF FrameUndisturbed, ListRunItems
<1>2. ASSUME NEW r \in Runs PROVE RunUndisturbed(r)'
  <2>1. RunUndisturbed(r) /\ ~CountersDue(r)
    BY NoCountersDue DEF Undisturbed
  <2> QED BY <2>1 DEF RunUndisturbed, ListRunItems
<1> QED BY <1>1, <1>2, SoloStep

LEMMA IdleUndisturbed == IdleFrame \in Frames /\ FrameUndisturbed(IdleFrame) /\ FrameUndisturbed(IdleFrame)'
BY IdleFrameOK DEF IdleFrame, FrameUndisturbed

(* An undisturbed goroutine's step: nobody else is at work.                *)
LEMMA StepIsSolo ==
  ASSUME Undisturbed, NEW a \in Actors, ~Idle(a)
  PROVE  OthersIdle(a)
BY DEF Undisturbed, OthersIdle

-----------------------------------------------------------------------------

LEMMA BeginUndisturbed ==
  ASSUME UndisturbedIInv, NEW a \in Actors, NEW f \in Frames, FrameUndisturbed(f),
         Begin(a, f), ~disturbed'
  PROVE  Undisturbed'
<1>1. ~disturbed /\ OthersIdle(a) /\ ~At(a, "approve", "counters")
  BY DEF Begin, OthersIdle, Idle, At
<1>2. IInv /\ Undisturbed
  BY <1>1 DEF UndisturbedIInv
<1>3. frame' = [frame EXCEPT ![a] = f] /\ UNCHANGED <<runStatus, itemOf, counters, submitted>>
  BY DEF Begin, tables
<1> QED BY <1>1, <1>2, <1>3, QuietStep

LEMMA RequestsUndisturbed ==
  ASSUME UndisturbedIInv, NEW a \in Operators, Request(a), ~disturbed'
  PROVE  Undisturbed'
<1>0. a \in Actors
  BY DEF Actors
<1> USE RunNullsAssumption DEF IdleFrame, Frames, FrameUndisturbed, Ops, Phases, Status
<1>1. ASSUME NEW r \in Runs, ApproveRun(a, r) PROVE Undisturbed'
  <2>1. runStatus[r] \in {s \in RunStatus \cup {"NONE"} : <<s, "APPROVED">> \in RunAllowed}
    BY <1>1 DEF ApproveRun, RunCanTransition, UndisturbedIInv, IInv, TypeOK
  <2>2. runStatus[r] = "OPEN"
    BY <2>1 DEF RunAllowed
  <2> DEFINE f == [IdleFrame EXCEPT !.op = "approve", !.at = "list", !.run = r]
  <2>3. f \in Frames /\ FrameUndisturbed(f)
    BY <2>2
  <2> QED BY <1>0, <1>1, <2>3, BeginUndisturbed DEF ApproveRun
<1>2. ASSUME NEW r \in Runs, NEW p \in Payments, AttachPayment(a, r, p) PROVE Undisturbed'
  <2> DEFINE f == [IdleFrame EXCEPT !.op = "attach", !.at = "payment", !.run = r, !.pay = p]
  <2>1. f \in Frames /\ FrameUndisturbed(f)
    BY <1>2 DEF AttachPayment
  <2> QED BY <1>0, <1>2, <2>1, BeginUndisturbed DEF AttachPayment
<1>3. ASSUME NEW r \in Runs, NEW p \in Payments, DetachPayment(a, r, p) PROVE Undisturbed'
  <2> DEFINE f == [IdleFrame EXCEPT !.op = "detach", !.at = "delete", !.run = r, !.pay = p]
  <2>1. f \in Frames /\ FrameUndisturbed(f)
    BY <1>3 DEF DetachPayment
  <2> QED BY <1>0, <1>3, <2>1, BeginUndisturbed DEF DetachPayment
<1>4. ASSUME NEW p \in Payments, ReschedulePayment(a, p) PROVE Undisturbed'
  <2> DEFINE f == [IdleFrame EXCEPT !.op = "reschedule", !.at = "check", !.pay = p]
  <2>1. f \in Frames /\ FrameUndisturbed(f)
    OBVIOUS
  <2> QED BY <1>0, <1>4, <2>1, BeginUndisturbed DEF ReschedulePayment
<1>5. ASSUME NEW p \in Payments, NEW to \in {"ON_HOLD", "APPROVED", "CANCELED", "REJECTED"},
             TransitionPayment(a, p, to)
      PROVE  Undisturbed'
  <2> DEFINE f == [IdleFrame EXCEPT !.op = "operator", !.at = "update", !.pay = p, !.to = to]
  <2>1. f \in Frames /\ FrameUndisturbed(f)
    OBVIOUS
  <2> QED BY <1>0, <1>5, <2>1, BeginUndisturbed DEF TransitionPayment
<1> QED BY <1>1, <1>2, <1>3, <1>4, <1>5 DEF Request

(* The steps that read, and those that store only the status of a payment. *)
LEMMA ReadsUndisturbed ==
  ASSUME IInv, Undisturbed, NEW a \in Actors,
         \/ AttachChecksPayment(a) \/ RescheduleChecksRun(a) \/ TransitionStores(a)
         \/ ApproveLists(a) \/ ApproveNext(a) \/ ApproveStores(a) \/ AutoDone(a)
  PROVE  Undisturbed'
<1> DEFINE g == frame[a]
<1>0. g \in Frames /\ FrameUndisturbed(g) /\ FrameOK(g)
  BY DEF IInv, TypeOK, Undisturbed
<1>1. ~Idle(a) /\ ~At(a, "approve", "counters")
  BY DEF AttachChecksPayment, RescheduleChecksRun, TransitionStores, ApproveLists, ApproveNext,
         ApproveStores, AutoDone, At, Idle
<1>2. OthersIdle(a)
  BY <1>1, StepIsSolo
<1>3. UNCHANGED <<runStatus, itemOf, counters, submitted>>
  BY DEF AttachChecksPayment, RescheduleChecksRun, TransitionStores, ApproveLists, ApproveNext,
         ApproveStores, AutoDone, Go, Refuse, tables, history
<1>4. ASSUME NEW f \in Frames, FrameUndisturbed(f), frame' = [frame EXCEPT ![a] = f] PROVE Undisturbed'
  BY <1>1, <1>2, <1>3, <1>4, QuietStep
<1>5. ASSUME Finish(a) PROVE Undisturbed'
  BY <1>4, <1>5, IdleUndisturbed DEF Finish
<1>6. ASSUME AttachChecksPayment(a), Go(a, "insert") PROVE Undisturbed'
  <2> DEFINE f == [g EXCEPT !.at = "insert"]
  <2>1. f \in Frames /\ FrameUndisturbed(f)
    BY <1>0, <1>6 DEF Frames, Phases, FrameUndisturbed, AttachChecksPayment, At
  <2> QED BY <1>4, <1>6, <2>1 DEF Go
<1>7. ASSUME RescheduleChecksRun(a), Go(a, "commit") PROVE Undisturbed'
  <2> DEFINE f == [g EXCEPT !.at = "commit"]
  <2>1. frame' = [frame EXCEPT ![a] = f] /\ f \in Frames
    BY <1>0, <1>7 DEF Go, Frames, Phases
  <2>2. itemOf[g.pay] # NoRun => runStatus[itemOf[g.pay]] \notin {"APPROVED", "EXECUTING"}
    <3>1. CASE itemOf[g.pay] # NoRun /\ runStatus[itemOf[g.pay]] \in {"APPROVED", "EXECUTING"}
      <4>1. frame'[a].at = "commit" /\ frame' = [frame EXCEPT ![a] = IdleFrame]
        BY <1>0, <1>7, <2>1, <3>1 DEF RescheduleChecksRun, Refuse, Finish, IInv, TypeOK, Frames
      <4> QED BY <4>1 DEF IdleFrame, IInv, TypeOK
    <3> QED BY <3>1
  <2>3. f.op = "reschedule" /\ f.at = "commit" /\ f.pay = g.pay
    BY <1>0, <1>7 DEF RescheduleChecksRun, At, Frames
  <2>4. FrameUndisturbed(f)
    BY <2>2, <2>3 DEF FrameUndisturbed
  <2> QED BY <1>4, <2>1, <2>4
<1>8. ASSUME ApproveLists(a) PROVE Undisturbed'
  <2> DEFINE f == [g EXCEPT !.at = "next", !.items = ListRunItems(g.run), !.todo = ListRunItems(g.run)]
  <2>1. f \in Frames
    BY <1>0 DEF Frames, Phases, ListRunItems
  <2>2. f.op = "approve" /\ f.at = "next" /\ f.items = ListRunItems(f.run) /\ f.run = g.run
    BY <1>0, <1>8 DEF ApproveLists, At, Frames
  <2>3. runStatus[g.run] = "OPEN"
    BY <1>0, <1>8 DEF ApproveLists, At, FrameUndisturbed
  <2>4. FrameUndisturbed(f)
    BY <2>2, <2>3 DEF FrameUndisturbed
  <2> QED BY <1>4, <1>8, <2>1, <2>4 DEF ApproveLists
<1>9. ASSUME ApproveNext(a), ~Finish(a) PROVE Undisturbed'
  <2>1. PICK p \in g.todo : frame' = [frame EXCEPT ![a].at = "update", ![a].pay = p]
    BY <1>9 DEF ApproveNext
  <2> DEFINE f == [g EXCEPT !.at = "update", !.pay = p]
  <2>2. f \in Frames /\ FrameUndisturbed(f)
    BY <1>0, <1>9 DEF ApproveNext, At, Frames, Phases, FrameUndisturbed
  <2> QED BY <1>4, <2>1, <2>2
<1>10. ASSUME ApproveStores(a) PROVE Undisturbed'
  <2> DEFINE f == [g EXCEPT !.at = "next", !.todo = @ \ {g.pay}]
  <2>1. f \in Frames /\ FrameUndisturbed(f)
    BY <1>0, <1>10 DEF ApproveStores, At, Frames, Phases, FrameUndisturbed
  <2> QED BY <1>4, <1>10, <2>1 DEF ApproveStores
<1>11. AttachChecksPayment(a) => Go(a, "insert") \/ Finish(a)
  BY DEF AttachChecksPayment, Refuse
<1>12. RescheduleChecksRun(a) => Go(a, "commit") \/ Finish(a)
  BY DEF RescheduleChecksRun, Refuse
<1>13. TransitionStores(a) \/ AutoDone(a) => Finish(a)
  BY DEF TransitionStores, AutoDone, Refuse
<1> QED BY <1>5, <1>6, <1>7, <1>8, <1>9, <1>10, <1>11, <1>12, <1>13

(* Items move into open runs and out of runs that are not approved: the    *)
(* items of an approved run stay.                                          *)
LEMMA ItemsUndisturbed ==
  ASSUME IInv, Undisturbed, NEW a \in Actors,
         AttachInserts(a) \/ DetachDeletes(a) \/ RescheduleCommits(a) \/ AutoAttaches(a)
  PROVE  Undisturbed'
<1> DEFINE g == frame[a]
<1>0. g \in Frames /\ FrameUndisturbed(g) /\ FrameOK(g)
  BY DEF IInv, TypeOK, Undisturbed
<1>1. ~Idle(a) /\ g.op \in {"attach", "detach", "reschedule", "group"}
  BY DEF AttachInserts, DetachDeletes, RescheduleCommits, AutoAttaches, At, Idle
<1>2. OthersIdle(a) /\ ~At(a, "approve", "counters")
  BY <1>1, StepIsSolo DEF At
<1>3. UNCHANGED <<runStatus, counters, submitted>>
  BY DEF AttachInserts, DetachDeletes, RescheduleCommits, AutoAttaches, history
<1>4. PICK f \in Frames : frame' = [frame EXCEPT ![a] = f] /\ FrameUndisturbed(f)'
  <2>1. CASE AttachInserts(a) \/ DetachDeletes(a) \/ RescheduleCommits(a)
    BY <2>1, IdleUndisturbed DEF AttachInserts, DetachDeletes, RescheduleCommits, Finish
  <2>2. CASE AutoAttaches(a)
    <3>1. PICK p \in g.todo : frame' = [frame EXCEPT ![a].todo = @ \ {p}]
      BY <2>2 DEF AutoAttaches
    <3>2. PICK h \in Frames : h = [g EXCEPT !.todo = @ \ {p}]
      BY <1>0 DEF Frames
    <3>3. h.op = "group" /\ h.at = "next" /\ h.run = g.run /\ runStatus[g.run] = "OPEN"
      BY <1>0, <2>2, <3>2 DEF AutoAttaches, At, Frames, FrameUndisturbed
    <3>4. FrameUndisturbed(h)'
      BY <1>3, <3>3 DEF FrameUndisturbed
    <3> QED BY <3>1, <3>2, <3>4
  <2> QED BY <2>1, <2>2
<1>5. PICK p \in Payments, x \in Runs \cup {NoRun} :
        /\ itemOf' = [itemOf EXCEPT ![p] = x]
        /\ x = itemOf[p] \/ /\ x # NoRun => runStatus[x] = "OPEN"
                            /\ itemOf[p] # NoRun => runStatus[itemOf[p]] \notin {"APPROVED", "EXECUTING"}
  <2>1. ASSUME NEW p \in Payments, NEW r \in Runs, AttachPaymentToRun(p, r), runStatus[r] = "OPEN"
        PROVE  \E x \in Runs \cup {NoRun} :
                 /\ itemOf' = [itemOf EXCEPT ![p] = x]
                 /\ x = itemOf[p] \/ /\ x # NoRun => runStatus[x] = "OPEN"
                                     /\ itemOf[p] # NoRun => runStatus[itemOf[p]] \notin {"APPROVED", "EXECUTING"}
    <3>1. CASE itemOf[p] = NoRun
      BY <2>1, <3>1 DEF AttachPaymentToRun
    <3>2. CASE itemOf[p] # NoRun
      <4>1. itemOf' = [itemOf EXCEPT ![p] = itemOf[p]] /\ itemOf[p] \in Runs
        BY <2>1, <3>2 DEF AttachPaymentToRun, IInv, TypeOK
      <4> QED BY <4>1
    <3> QED BY <3>1, <3>2
  <2>2. CASE AttachInserts(a)
    <3>1. g.pay \in Payments /\ g.run \in Runs /\ runStatus[g.run] = "OPEN"
      BY <1>0, <2>2 DEF AttachInserts, At, FrameOK, FrameUndisturbed
    <3> QED BY <2>1, <2>2, <3>1 DEF AttachInserts
  <2>3. CASE AutoAttaches(a)
    <3>1. PICK p \in g.todo : AttachPaymentToRun(p, g.run)
      BY <2>3 DEF AutoAttaches
    <3>2. p \in Payments /\ g.run \in Runs /\ runStatus[g.run] = "OPEN"
      BY <1>0, <2>3 DEF AutoAttaches, At, FrameOK, FrameUndisturbed, Frames
    <3> QED BY <2>1, <3>1, <3>2
  <2>4. CASE DetachDeletes(a)
    <3>1. g.pay \in Payments /\ runStatus[g.run] = "OPEN"
      BY <1>0, <2>4 DEF DetachDeletes, At, FrameOK, FrameUndisturbed
    <3>2. CASE itemOf[g.pay] = g.run
      BY <2>4, <3>1, <3>2 DEF DetachDeletes
    <3>3. CASE itemOf[g.pay] # g.run
      <4>1. itemOf' = [itemOf EXCEPT ![g.pay] = itemOf[g.pay]] /\ itemOf[g.pay] \in Runs \cup {NoRun}
        BY <2>4, <3>1, <3>3 DEF DetachDeletes, IInv, TypeOK
      <4> QED BY <3>1, <4>1
    <3> QED BY <3>2, <3>3
  <2>5. CASE RescheduleCommits(a)
    <3>1. g.pay \in Payments /\ itemOf' = [itemOf EXCEPT ![g.pay] = NoRun]
      BY <1>0, <2>5 DEF RescheduleCommits, At, FrameOK
    <3>2. itemOf[g.pay] # NoRun => runStatus[itemOf[g.pay]] \notin {"APPROVED", "EXECUTING"}
      BY <1>0, <2>5 DEF RescheduleCommits, At, FrameUndisturbed
    <3> QED BY <3>1, <3>2
  <2> QED BY <2>2, <2>3, <2>4, <2>5
<1>6. ASSUME NEW r \in Runs PROVE RunUndisturbed(r)'
  <2>1. RunUndisturbed(r) /\ ~CountersDue(r)
    BY <1>2, NoCountersDue DEF Undisturbed
  <2>2. runStatus[r] \in {"APPROVED", "EXECUTING"} => ListRunItems(r)' = ListRunItems(r)
    <3>1. CASE x = itemOf[p]
      <4>1. itemOf' = itemOf
        BY <1>5, <3>1 DEF IInv, TypeOK
      <4> QED BY <4>1 DEF ListRunItems
    <3>2. CASE x # itemOf[p]
      <4> SUFFICES ASSUME runStatus[r] \in {"APPROVED", "EXECUTING"} PROVE ListRunItems(r)' = ListRunItems(r)
        OBVIOUS
      <4>1. x # r /\ itemOf[p] # r
        BY <1>5, <3>2, RunNullsAssumption
      <4>2. \A q \in Payments : itemOf'[q] = r <=> itemOf[q] = r
        BY <1>5, <4>1 DEF IInv, TypeOK
      <4> QED BY <4>2 DEF ListRunItems
    <3> QED BY <3>1, <3>2
  <2> QED BY <1>3, <2>1, <2>2 DEF RunUndisturbed
<1> QED BY <1>2, <1>4, <1>6, SoloStep

(* The approval stores the run's status, then the totals of the items it   *)
(* listed: they still are the run's items.                                 *)
LEMMA ApproveStoresRunUndisturbed ==
  ASSUME IInv, Undisturbed, NEW a \in Actors, ApproveStoresRun(a)
  PROVE  Undisturbed'
<1> DEFINE g == frame[a]
<1>1. /\ g \in Frames /\ FrameUndisturbed(g) /\ g.op = "approve" /\ g.at = "next" /\ g.run \in Runs
      /\ runStatus[g.run] = "OPEN" /\ g.items = ListRunItems(g.run)
  BY DEF ApproveStoresRun, At, IInv, TypeOK, FrameOK, Undisturbed, FrameUndisturbed
<1>2. OthersIdle(a) /\ ~At(a, "approve", "counters")
  BY <1>1, StepIsSolo DEF Idle, At
<1>3. /\ runStatus' = [runStatus EXCEPT ![g.run] = "APPROVED"]
      /\ UNCHANGED <<itemOf, counters, submitted>>
  BY DEF ApproveStoresRun, history
<1>4. PICK h \in Frames : h = [g EXCEPT !.at = "counters"]
  BY <1>1 DEF Frames, Phases
<1>5. h.op = "approve" /\ h.at = "counters" /\ h.run = g.run /\ h.items = g.items
  BY <1>1, <1>4 DEF Frames
<1>6. frame' = [frame EXCEPT ![a] = h]
  BY <1>4 DEF ApproveStoresRun
<1>7. FrameUndisturbed(h)'
  BY <1>1, <1>3, <1>5 DEF FrameUndisturbed, ListRunItems
<1>8. ASSUME NEW r \in Runs PROVE RunUndisturbed(r)'
  <2>1. RunUndisturbed(r) /\ ~CountersDue(r)
    BY <1>2, NoCountersDue DEF Undisturbed
  <2>2. CASE r = g.run
    <3>1. frame'[a] = h
      BY <1>6 DEF IInv, TypeOK
    <3>2. CountersDue(r)'
      BY <1>5, <2>2, <3>1 DEF CountersDue, At
    <3>3. submitted'[r] = 0
      BY <1>1, <1>3, <2>1, <2>2 DEF RunUndisturbed
    <3> QED BY <3>2, <3>3 DEF RunUndisturbed
  <2>3. CASE r # g.run
    BY <1>3, <2>1, <2>3 DEF RunUndisturbed, ListRunItems, IInv, TypeOK
  <2> QED BY <2>2, <2>3
<1> QED BY <1>2, <1>6, <1>7, <1>8, SoloStep

LEMMA ApproveStoresCountersUndisturbed ==
  ASSUME IInv, Undisturbed, NEW a \in Actors, ApproveStoresCounters(a)
  PROVE  Undisturbed'
<1> DEFINE g == frame[a]
<1>1. /\ FrameUndisturbed(g) /\ g.op = "approve" /\ g.at = "counters" /\ g.run \in Runs
      /\ g.items = ListRunItems(g.run)
  BY DEF ApproveStoresCounters, At, IInv, TypeOK, FrameOK, Undisturbed, FrameUndisturbed
<1>2. OthersIdle(a)
  BY <1>1, StepIsSolo DEF Idle
<1>3. /\ counters' = [counters EXCEPT ![g.run] = g.items]
      /\ frame' = [frame EXCEPT ![a] = IdleFrame]
      /\ UNCHANGED <<runStatus, itemOf, submitted>>
  BY DEF ApproveStoresCounters, Finish, history
<1>4. ASSUME NEW r \in Runs PROVE RunUndisturbed(r)'
  <2>1. RunUndisturbed(r) /\ (CountersDue(r) => r = g.run)
    BY <1>2 DEF Undisturbed, CountersDue, OthersIdle, Idle, At
  <2>2. ListRunItems(r)' = ListRunItems(r)
    BY <1>3 DEF ListRunItems
  <2>3. CASE r = g.run
    <3>1. counters'[r] = ListRunItems(r)
      BY <1>1, <1>3, <2>3 DEF IInv, TypeOK
    <3> QED BY <1>3, <2>1, <2>2, <3>1 DEF RunUndisturbed
  <2>4. CASE r # g.run
    BY <1>3, <2>1, <2>2, <2>4 DEF RunUndisturbed, IInv, TypeOK
  <2> QED BY <2>3, <2>4
<1> QED BY <1>2, <1>3, <1>4, IdleUndisturbed, SoloStep

-----------------------------------------------------------------------------
(* The grouping job, and the requests made of one statement.               *)

LEMMA AutoGroupUndisturbed ==
  ASSUME UndisturbedIInv, NEW a \in Actors, AutoGroup(a), ~disturbed'
  PROVE  Undisturbed'
<1> DEFINE f == [IdleFrame EXCEPT !.op = "group", !.at = "create",
                                  !.todo = ListPaymentsByStatus("PREVALIDATED", ListLimit)]
<1>1. ListPaymentsByStatus("PREVALIDATED", ListLimit) \subseteq Payments
  BY DEF ListPaymentsByStatus
<1>2. f \in Frames /\ FrameUndisturbed(f)
  BY <1>1, RunNullsAssumption DEF IdleFrame, Frames, FrameUndisturbed, Ops, Phases, Status
<1> QED BY <1>2, BeginUndisturbed DEF AutoGroup

LEMMA AutoCreatesUndisturbed ==
  ASSUME IInv, Undisturbed, NEW a \in Actors, AutoCreatesRun(a)
  PROVE  Undisturbed'
<1> DEFINE g == frame[a]
<1>1. g \in Frames /\ g.op = "group" /\ ~Idle(a) /\ ~At(a, "approve", "counters")
  BY DEF AutoCreatesRun, At, Idle, IInv, TypeOK
<1>2. OthersIdle(a)
  BY <1>1, StepIsSolo
<1>3. PICK r \in Runs : /\ runStatus[r] \in {"NONE", "OPEN"}
                        /\ runStatus' = [runStatus EXCEPT ![r] = "OPEN"]
                        /\ frame' = [frame EXCEPT ![a].at = "next", ![a].run = r]
  BY DEF AutoCreatesRun, Fresh
<1>4. UNCHANGED <<itemOf, counters, submitted>>
  BY DEF AutoCreatesRun, history
<1>5. PICK h \in Frames : h = [g EXCEPT !.at = "next", !.run = r]
  BY <1>1 DEF Frames, Phases
<1>6. h.op = "group" /\ h.at = "next" /\ h.run = r /\ runStatus'[r] = "OPEN"
  BY <1>1, <1>3, <1>5 DEF Frames, IInv, TypeOK
<1>7. FrameUndisturbed(h)'
  BY <1>6 DEF FrameUndisturbed
<1>8. ASSUME NEW q \in Runs PROVE RunUndisturbed(q)'
  <2>1. RunUndisturbed(q) /\ ~CountersDue(q)
    BY <1>1, <1>2, NoCountersDue DEF Undisturbed
  <2>2. CASE q = r
    BY <1>3, <1>4, <1>6, <2>1, <2>2 DEF RunUndisturbed
  <2>3. CASE q # r
    BY <1>3, <1>4, <2>1, <2>3 DEF RunUndisturbed, ListRunItems, IInv, TypeOK
  <2> QED BY <2>2, <2>3
<1> QED BY <1>2, <1>3, <1>5, <1>7, <1>8, SoloStep

(* No request in progress works on a run that is created or submitted, but *)
(* for an approval about to store its totals.                              *)
LEMMA RunsUndisturbed ==
  ASSUME IInv, Undisturbed, NEW r \in Runs, CreateRun(r) \/ SubmitToBank(r)
  PROVE  Undisturbed'
<1>1. UNCHANGED <<itemOf, counters, frame>>
  BY DEF CreateRun, SubmitToBank
<1>2. \/ /\ runStatus[r] = "NONE" /\ runStatus' = [runStatus EXCEPT ![r] = "OPEN"]
         /\ submitted' = submitted
      \/ /\ runStatus[r] = "APPROVED" /\ runStatus' = [runStatus EXCEPT ![r] = "EXECUTING"]
         /\ submitted' = [submitted EXCEPT ![r] = IF @ < 2 THEN @ + 1 ELSE @]
  BY DEF CreateRun, SubmitToBank, history
<1>3. \A b, c \in Actors : ~Idle(b)' /\ ~Idle(c)' => b = c
  BY <1>1 DEF Undisturbed, Idle
<1>4. ASSUME NEW b \in Actors PROVE FrameUndisturbed(frame[b])'
  <2>1. PICK g \in Frames : g = frame[b] /\ g = frame'[b]
    BY <1>1 DEF IInv, TypeOK
  <2>2. FrameUndisturbed(g) /\ FrameOK(g)
    BY <2>1 DEF Undisturbed, IInv
  <2>3. ASSUME NEW q \in Runs, runStatus[q] = "OPEN" PROVE runStatus'[q] = "OPEN"
    BY <1>2, <2>3 DEF IInv, TypeOK
  <2>4. ASSUME NEW q \in Runs, runStatus[q] \notin {"APPROVED", "EXECUTING"}
        PROVE  runStatus'[q] \notin {"APPROVED", "EXECUTING"}
    BY <1>2, <2>4 DEF IInv, TypeOK
  <2>5. /\ g.op \in {"attach", "detach"} /\ g.at # "idle" => g.run \in Runs
        /\ g.op = "group" /\ g.at = "next" => g.run \in Runs
        /\ g.op = "approve" /\ g.at \in {"list", "next", "update"} => g.run \in Runs
    BY <2>2 DEF FrameOK
  <2>6. g.op = "reschedule" /\ g.at = "commit" /\ itemOf[g.pay] # NoRun => itemOf[g.pay] \in Runs
    BY <2>2 DEF FrameOK, IInv, TypeOK
  <2>7. FrameUndisturbed(g)'
    <3>1. /\ g.op \in {"attach", "detach"} /\ g.at # "idle" => runStatus'[g.run] = "OPEN"
          /\ g.op = "group" /\ g.at = "next" => runStatus'[g.run] = "OPEN"
          /\ g.op = "approve" /\ g.at \in {"list", "next", "update"} => runStatus'[g.run] = "OPEN"
      BY <2>2, <2>3, <2>5 DEF FrameUndisturbed
    <3>2. g.op = "reschedule" /\ g.at = "commit" /\ itemOf'[g.pay] # NoRun =>
            runStatus'[itemOf'[g.pay]] \notin {"APPROVED", "EXECUTING"}
      BY <1>1, <2>2, <2>4, <2>6 DEF FrameUndisturbed
    <3>3. g.op = "approve" /\ g.at \in {"next", "update", "counters"} => g.items = ListRunItems(g.run)'
      BY <1>1, <2>2 DEF FrameUndisturbed, ListRunItems
    <3> QED BY <3>1, <3>2, <3>3 DEF FrameUndisturbed
  <2> QED BY <2>1, <2>7 DEF FrameUndisturbed
<1>5. ASSUME NEW q \in Runs PROVE RunUndisturbed(q)'
  <2>1. RunUndisturbed(q) /\ submitted[q] \in 0..2
    BY DEF Undisturbed, IInv, TypeOK
  <2>2. ListRunItems(q)' = ListRunItems(q) /\ (CountersDue(q)' <=> CountersDue(q))
    BY <1>1 DEF ListRunItems, CountersDue, At
  <2>3. CASE q # r
    <3>1. runStatus'[q] = runStatus[q] /\ submitted'[q] = submitted[q]
      BY <1>2, <2>3 DEF IInv, TypeOK
    <3> QED BY <1>1, <2>1, <2>2, <3>1 DEF RunUndisturbed
  <2>4. CASE q = r
    <3>1. \/ runStatus'[q] = "OPEN" /\ submitted'[q] = 0
          \/ runStatus[q] = "APPROVED" /\ runStatus'[q] = "EXECUTING" /\ submitted'[q] = 1
      BY <1>2, <2>1, <2>4 DEF RunUndisturbed, IInv, TypeOK
    <3> QED BY <1>1, <2>1, <2>2, <3>1 DEF RunUndisturbed
  <2> QED BY <2>3, <2>4
<1> QED BY <1>3, <1>4, <1>5 DEF Undisturbed

-----------------------------------------------------------------------------

LEMMA StepUndisturbed ==
  ASSUME IInv, Undisturbed, NEW a \in Actors, Step(a)
  PROVE  Undisturbed'
BY ReadsUndisturbed, ItemsUndisturbed, ApproveStoresRunUndisturbed,
   ApproveStoresCountersUndisturbed, AutoCreatesUndisturbed DEF Step

(* What disturbed a behaviour stays known.                                 *)
LEMMA StaysDisturbed ==
  ASSUME NEW a \in Actors, Step(a)
  PROVE  disturbed' = disturbed
<1>1. CASE TransitionStores(a)
  BY <1>1 DEF TransitionStores, history
<1>2. CASE AttachChecksPayment(a) \/ AttachInserts(a) \/ DetachDeletes(a)
           \/ RescheduleChecksRun(a) \/ RescheduleCommits(a)
  BY <1>2 DEF AttachChecksPayment, AttachInserts, DetachDeletes, RescheduleChecksRun,
              RescheduleCommits, Go, Refuse, history
<1>3. CASE ApproveLists(a) \/ ApproveNext(a) \/ ApproveStores(a)
           \/ ApproveStoresRun(a) \/ ApproveStoresCounters(a)
  BY <1>3 DEF ApproveLists, ApproveNext, ApproveStores, ApproveStoresRun,
              ApproveStoresCounters, history
<1>4. CASE AutoCreatesRun(a) \/ AutoAttaches(a) \/ AutoDone(a)
  BY <1>4 DEF AutoCreatesRun, AutoAttaches, AutoDone, Refuse, history
<1> QED BY <1>1, <1>2, <1>3, <1>4 DEF Step

LEMMA UndisturbedInit == Init => UndisturbedIInv
<1> SUFFICES ASSUME Init PROVE UndisturbedIInv
  OBVIOUS
<1>1. \A a \in Actors : frame[a] = IdleFrame /\ Idle(a)
  BY DEF Init, Idle, IdleFrame
<1>2. \A r \in Runs : RunUndisturbed(r)
  BY DEF Init, RunUndisturbed
<1> QED BY <1>1, <1>2, InitOK, IdleUndisturbed DEF UndisturbedIInv, Undisturbed

LEMMA UndisturbedNext == UndisturbedIInv /\ [Next]_vars => UndisturbedIInv'
<1> SUFFICES ASSUME UndisturbedIInv, [Next]_vars, ~disturbed' PROVE Undisturbed'
  BY NextOK DEF UndisturbedIInv
<1>0. IInv /\ (~disturbed => Undisturbed)
  BY DEF UndisturbedIInv
<1>1. ASSUME NEW r \in Runs, CreateRun(r) \/ SubmitToBank(r) PROVE Undisturbed'
  <2>1. disturbed' = disturbed
    BY <1>1 DEF CreateRun, SubmitToBank, history
  <2> QED BY <1>0, <1>1, <2>1, RunsUndisturbed
<1>2. ASSUME NEW a \in Operators, Request(a) PROVE Undisturbed'
  BY <1>2, RequestsUndisturbed
<1>3. ASSUME NEW a \in Crons, AutoGroup(a) PROVE Undisturbed'
  BY <1>3, AutoGroupUndisturbed DEF Actors
<1>4. ASSUME NEW a \in Actors, Step(a) PROVE Undisturbed'
  <2>1. disturbed' = disturbed
    BY <1>4, StaysDisturbed
  <2> QED BY <1>0, <1>4, <2>1, StepUndisturbed
<1>5. ASSUME NEW a \in Actors, Fault(a) PROVE Undisturbed'
  BY <1>5 DEF Fault
<1>6. CASE UNCHANGED vars
  <2>1. Undisturbed
    BY <1>0, <1>6 DEF vars
  <2> QED BY <1>6, <2>1 DEF vars, Undisturbed, FrameUndisturbed, RunUndisturbed, CountersDue,
                            ListRunItems, Idle, At
<1> QED BY <1>1, <1>2, <1>3, <1>4, <1>5, <1>6 DEF Next

(* As long as no two requests overlap and none fails, the run a request    *)
(* works on stays OPEN and keeps its items between the request's check and *)
(* its last write; only the submit can pass an approval about to store its *)
(* totals, and changes neither them nor the items (runs.go).               *)
THEOREM UndisturbedInvariant == Spec => []UndisturbedIInv
BY UndisturbedInit, UndisturbedNext, PTL DEF Spec

(* The totals ApproveRun stored are those of the run's items, for every    *)
(* run approved or submitted: the checks of attach, detach and reschedule, *)
(* and the grouping into runs of its own, leave it alone.                  *)
THEOREM TotalsAreTheItems == Spec => []TotalsMatchItems
<1>1. UndisturbedIInv => TotalsMatchItems
  BY DEF UndisturbedIInv, Undisturbed, RunUndisturbed, CountersDue, Idle, At, TotalsMatchItems
<1> QED BY <1>1, UndisturbedInvariant, PTL

(* The conditional UPDATE of SubmitToBank takes a run to the bank at most  *)
(* once: nothing brings an EXECUTING run back to APPROVED unless approvals *)
(* overlap.                                                                *)
THEOREM RunsSubmitOnce == Spec => []SubmittedOnce
<1>1. UndisturbedIInv => SubmittedOnce
  BY DEF UndisturbedIInv, Undisturbed, RunUndisturbed, SubmittedOnce
<1> QED BY <1>1, UndisturbedInvariant, PTL
=============================================================================
