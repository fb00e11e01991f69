--------------------------- MODULE Ingress_proofs ---------------------------
(***************************************************************************)
(* Proofs about Ingress, for any requests, keys, bodies, ids and faults.   *)
(***************************************************************************)
EXTENDS Ingress, TLAPS

USE IngressNullsAssumption, IngressBoundsAssumption
USE DEF GetIdempotencyKey, InsertIdempotencyKey, InsertPaymentEvent

\* Tables and acknowledgements only grow.
Grows ==
  /\ rows \subseteq rows' /\ events \subseteq events'
  /\ \A k \in Keys : snapshot[k] # NoBody => snapshot'[k] = snapshot[k]

(* What a goroutine's locals rest on survives any growth of the tables.    *)
LEMMA FrameKept ==
  ASSUME Grows, NEW f \in Frames, FrameOK(f)
  PROVE  FrameOK(f)'
BY DEF Grows, FrameOK, Frames

(* A step of one goroutine, with or without an answer.                     *)
LEMMA StepLemma ==
  ASSUME IInv, Grows, NEW a \in Requests, NEW f \in Frames, FrameOK(f)',
         frame' = [frame EXCEPT ![a] = f],
         TypeOK', OneRowPerKey', SnapshotOK', AckedIsWhole', MismatchIsReal'
  PROVE  IInv'
<1>1. ASSUME NEW b \in Requests PROVE FrameOK(frame[b])'
  <2>1. CASE b = a
    BY <2>1 DEF IInv, TypeOK, FrameOK
  <2>2. CASE b # a
    <3>1. PICK g \in Frames : g = frame[b] /\ g = frame'[b]
      BY <2>2 DEF IInv, TypeOK
    <3>2. FrameOK(g)
      BY <3>1 DEF IInv, FrameOK
    <3>3. FrameOK(g)'
      BY <3>2, FrameKept
    <3> QED BY <3>1, <3>3 DEF FrameOK
  <2> QED BY <2>1, <2>2
<1> QED BY <1>1 DEF IInv

LEMMA IdleFrameOK == IdleFrame \in Frames /\ FrameOK(IdleFrame)'
BY DEF IdleFrame, Frames, Phases, FrameOK

\* A request under way that is refused, with 409 only for another body.
Refused(a, code) ==
  /\ frame[a].at # "idle"
  /\ code = 409 => \E r \in rows : r.key = frame[a].key /\ r.body # frame[a].body

(* Answering 409 or 500, without touching a table.                         *)
LEMMA RefusalStep ==
  ASSUME IInv, NEW a \in Requests, NEW code \in {409, 500}, Refused(a, code),
         Answer(a, code, NoId), UNCHANGED tables, faults' \in 0..MaxFaults
  PROVE  IInv'
<1>0. frame[a] \in Frames /\ frame[a].key \in Keys /\ frame[a].body \in Bodies
  <2>1. frame[a] \in Frames
    BY DEF IInv, TypeOK
  <2>2. FrameOK(frame[a])
    BY DEF IInv
  <2> QED BY <2>1, <2>2 DEF FrameOK, Refused
<1>1. PICK x \in Answers :
        /\ x = [key |-> frame[a].key, body |-> frame[a].body, code |-> code, id |-> NoId]
        /\ answers' = answers \cup {x}
  <2> DEFINE y == [key |-> frame[a].key, body |-> frame[a].body, code |-> code, id |-> NoId]
  <2>1. y \in Answers
    BY <1>0 DEF Answers
  <2>2. answers' = answers \cup {y}
    BY DEF Answer
  <2> QED BY <2>1, <2>2
<1>2. frame' = [frame EXCEPT ![a] = IdleFrame]
  BY DEF Answer
<1>3. UNCHANGED <<rows, events, snapshot>>
  BY DEF tables
<1>4. TypeOK'
  BY <1>1, <1>2, <1>3, IdleFrameOK DEF IInv, TypeOK
<1>5. Acks' = Acks
  BY <1>1 DEF Acks
<1>6. OneRowPerKey' /\ SnapshotOK' /\ AckedIsWhole' /\ Grows
  BY <1>3, <1>5 DEF IInv, OneRowPerKey, SnapshotOK, AckedIsWhole, Grows
<1>7. MismatchIsReal'
  BY <1>1, <1>3 DEF IInv, MismatchIsReal, Refused
<1>8. PICK f \in Frames : f = IdleFrame /\ FrameOK(f)'
  BY IdleFrameOK DEF FrameOK
<1>9. frame' = [frame EXCEPT ![a] = f]
  BY <1>2, <1>8
<1> QED BY <1>4, <1>6, <1>7, <1>8, <1>9, StepLemma

(* Moving a goroutine, without touching a table or answering.              *)
LEMMA MoveStep ==
  ASSUME IInv, NEW a \in Requests, NEW f \in Frames, FrameOK(f),
         frame' = [frame EXCEPT ![a] = f],
         UNCHANGED <<tables, answers>>, faults' \in 0..MaxFaults
  PROVE  IInv'
<1>1. UNCHANGED <<rows, events, snapshot, answers>>
  BY DEF tables
<1>2. Grows
  BY <1>1 DEF Grows
<1>3. FrameOK(f)'
  BY <1>2, FrameKept
<1>4. /\ TypeOK' /\ OneRowPerKey' /\ SnapshotOK' /\ AckedIsWhole' /\ MismatchIsReal'
  BY <1>1 DEF IInv, TypeOK, OneRowPerKey, SnapshotOK, AckedIsWhole, MismatchIsReal, Acks
<1> QED BY <1>2, <1>3, <1>4, StepLemma

-----------------------------------------------------------------------------

LEMMA ReadSteps ==
  ASSUME IInv, NEW a \in Requests,
         (\E k \in Keys, b \in Bodies : Create(a, k, b)) \/ Lookup(a)
  PROVE  IInv'
<1> DEFINE g == frame[a]
<1>0. g \in Frames /\ FrameOK(g) /\ faults \in 0..MaxFaults
  BY DEF IInv, TypeOK
<1>1. ASSUME NEW k \in Keys, NEW b \in Bodies, Create(a, k, b) PROVE IInv'
  <2> DEFINE f == [at |-> "lookup", key |-> k, body |-> b, id |-> NoId]
  <2>1. f \in Frames /\ FrameOK(f)
    BY DEF Frames, Phases, FrameOK
  <2> QED BY <1>0, <1>1, <2>1, MoveStep DEF Create
<1>2. CASE Lookup(a)
  <2>0. g.key \in Keys /\ g.body \in Bodies /\ UNCHANGED <<tables, faults>>
    BY <1>0, <1>2 DEF Lookup, FrameOK
  <2>1. CASE snapshot[g.key] = NoBody /\ Goto(a, "insert") /\ UNCHANGED answers
    <3> DEFINE f == [g EXCEPT !.at = "insert"]
    <3>1. f \in Frames /\ FrameOK(f)
      BY <1>0, <2>0 DEF Frames, Phases, FrameOK
    <3> QED BY <1>0, <2>0, <2>1, <3>1, MoveStep DEF Goto
  <2>2. CASE snapshot[g.key] = g.body /\ Goto(a, "load") /\ UNCHANGED answers
    <3> DEFINE f == [g EXCEPT !.at = "load"]
    <3>1. f \in Frames /\ FrameOK(f)
      BY <1>0, <2>0, <2>2 DEF Frames, Phases, FrameOK
    <3> QED BY <1>0, <2>0, <2>2, <3>1, MoveStep DEF Goto
  <2>3. CASE snapshot[g.key] \notin {NoBody, g.body} /\ Answer(a, 409, NoId)
    <3>1. \E r \in rows : r.key = g.key /\ r.body # g.body
      BY <2>0, <2>3 DEF IInv, SnapshotOK
    <3> QED BY <1>0, <1>2, <2>0, <2>3, <3>1, RefusalStep DEF Lookup, Refused
  <2> QED BY <1>2, <2>1, <2>2, <2>3 DEF Lookup
<1> QED BY <1>1, <1>2

(* A replay is answered with the one payment of its key.                   *)
LEMMA LoadCachedStep ==
  ASSUME IInv, NEW a \in Requests, LoadCached(a)
  PROVE  IInv'
<1> DEFINE g == frame[a]
<1>0. /\ g \in Frames /\ FrameOK(g) /\ g.key \in Keys /\ g.body \in Bodies
      /\ snapshot[g.key] = g.body
  BY DEF IInv, TypeOK, LoadCached, FrameOK
<1>1. PICK r \in rows : r.key = g.key /\ Answer(a, 200, r.id)
  BY DEF LoadCached
<1>2. r \in Rows /\ r.body = g.body /\ r.id \in events
  BY <1>0, <1>1 DEF IInv, TypeOK, SnapshotOK, OneRowPerKey
<1>3. r = [id |-> r.id, key |-> g.key, body |-> g.body]
  BY <1>1, <1>2 DEF Rows
<1>4. PICK x \in Answers :
        /\ x = [key |-> g.key, body |-> g.body, code |-> 200, id |-> r.id]
        /\ answers' = answers \cup {x}
  BY <1>0, <1>1, <1>2 DEF Answer, Answers, Rows
<1>5. frame' = [frame EXCEPT ![a] = IdleFrame] /\ UNCHANGED <<rows, events, snapshot, faults>>
  BY <1>1 DEF Answer, LoadCached, tables
<1>6. TypeOK'
  BY <1>4, <1>5, IdleFrameOK DEF IInv, TypeOK
<1>7. OneRowPerKey' /\ SnapshotOK' /\ Grows
  BY <1>5 DEF IInv, OneRowPerKey, SnapshotOK, Grows
<1>8. AckedIsWhole' /\ MismatchIsReal'
  BY <1>0, <1>1, <1>2, <1>3, <1>4, <1>5 DEF IInv, AckedIsWhole, MismatchIsReal, Acks
<1> QED BY <1>5, <1>6, <1>7, <1>8, IdleFrameOK, StepLemma

LEMMA InsertPaymentStep ==
  ASSUME IInv, NEW a \in Requests, InsertPayment(a)
  PROVE  IInv'
<1> DEFINE g == frame[a]
<1>0. /\ g \in Frames /\ g.at = "insert" /\ g.key \in Keys /\ g.body \in Bodies
      /\ UNCHANGED <<events, snapshot, faults>> /\ faults \in 0..MaxFaults
  BY DEF IInv, TypeOK, InsertPayment, FrameOK
<1>1. CASE Answer(a, 500, NoId) /\ UNCHANGED rows
  BY <1>0, <1>1, RefusalStep DEF tables, Refused
<1>2. CASE /\ \E i \in Ids :
                /\ InsertPaymentRow(i, g.key, g.body)
                /\ frame' = [frame EXCEPT ![a].at = "event", ![a].id = i]
           /\ UNCHANGED answers
  <2>1. PICK i \in Ids :
          /\ \A r \in rows : r.id # i /\ r.key # g.key
          /\ rows' = rows \cup {[id |-> i, key |-> g.key, body |-> g.body]}
          /\ frame' = [frame EXCEPT ![a].at = "event", ![a].id = i]
    BY <1>2 DEF InsertPaymentRow
  <2>2. PICK f \in Frames :
          /\ f = [g EXCEPT !.at = "event", !.id = i]
          /\ f.at = "event" /\ f.key = g.key /\ f.body = g.body /\ f.id = i
    <3>1. [g EXCEPT !.at = "event", !.id = i] \in Frames
      BY <1>0 DEF Frames, Phases
    <3> QED BY <1>0, <3>1 DEF Frames
  <2>3. PICK n \in Rows :
          n = [id |-> i, key |-> g.key, body |-> g.body] /\ rows' = rows \cup {n}
    BY <1>0, <2>1 DEF Rows
  <2>4. frame' = [frame EXCEPT ![a] = f]
    BY <2>1, <2>2
  <2>5. TypeOK'
    BY <1>0, <1>2, <2>3, <2>4 DEF IInv, TypeOK
  <2>6. OneRowPerKey'
    BY <1>2, <2>1, <2>3 DEF IInv, OneRowPerKey
  <2>7. SnapshotOK' /\ AckedIsWhole' /\ MismatchIsReal' /\ Grows
    BY <1>0, <1>2, <2>3 DEF IInv, SnapshotOK, AckedIsWhole, MismatchIsReal, Acks, Grows
  <2>8. FrameOK(f)'
    BY <1>0, <2>2, <2>3 DEF FrameOK
  <2> QED BY <2>4, <2>5, <2>6, <2>7, <2>8, StepLemma
<1> QED BY <1>1, <1>2 DEF InsertPayment

LEMMA InsertEventStep ==
  ASSUME IInv, NEW a \in Requests, InsertEvent(a)
  PROVE  IInv'
<1> DEFINE g == frame[a]
<1>0. /\ g \in Frames /\ g.at = "event" /\ g.key \in Keys /\ g.body \in Bodies
      /\ [id |-> g.id, key |-> g.key, body |-> g.body] \in rows
  BY DEF IInv, TypeOK, InsertEvent, FrameOK
<1>1. /\ events' = events \cup {g.id} /\ g.id \in Ids
      /\ UNCHANGED <<rows, snapshot, answers, faults>>
  BY <1>0 DEF InsertEvent, IInv, TypeOK, Rows
<1>2. PICK f \in Frames :
        /\ f = [g EXCEPT !.at = "snapshot"]
        /\ f.at = "snapshot" /\ f.key = g.key /\ f.body = g.body /\ f.id = g.id
  <2>1. [g EXCEPT !.at = "snapshot"] \in Frames
    BY <1>0 DEF Frames, Phases
  <2> QED BY <1>0, <2>1 DEF Frames
<1>3. frame' = [frame EXCEPT ![a] = f]
  BY <1>2 DEF InsertEvent, Goto
<1>4. TypeOK'
  BY <1>1, <1>3 DEF IInv, TypeOK
<1>5. /\ OneRowPerKey' /\ SnapshotOK' /\ AckedIsWhole' /\ MismatchIsReal' /\ Grows
  BY <1>1 DEF IInv, OneRowPerKey, SnapshotOK, AckedIsWhole, MismatchIsReal, Acks, Grows
<1>6. FrameOK(f)'
  BY <1>0, <1>1, <1>2 DEF FrameOK
<1> QED BY <1>3, <1>4, <1>5, <1>6, StepLemma

(* 201 is the last step: by then row, event and snapshot are there.        *)
LEMMA InsertSnapshotStep ==
  ASSUME IInv, NEW a \in Requests, InsertSnapshot(a)
  PROVE  IInv'
<1> DEFINE g == frame[a]
<1>0. /\ g \in Frames /\ g.at = "snapshot" /\ g.key \in Keys /\ g.body \in Bodies
      /\ [id |-> g.id, key |-> g.key, body |-> g.body] \in rows /\ g.id \in events
      /\ UNCHANGED <<rows, events, faults>> /\ faults \in 0..MaxFaults
  BY DEF IInv, TypeOK, InsertSnapshot, FrameOK
<1>1. CASE snapshot[g.key] # NoBody /\ Answer(a, 500, NoId) /\ UNCHANGED snapshot
  BY <1>0, <1>1, RefusalStep DEF tables, Refused
<1>2. CASE /\ snapshot[g.key] = NoBody
           /\ snapshot' = [snapshot EXCEPT ![g.key] = g.body]
           /\ Answer(a, 201, g.id)
  <2>1. g.id \in Ids
    BY <1>0 DEF IInv, TypeOK, Rows
  <2>2. PICK x \in Answers :
          /\ x = [key |-> g.key, body |-> g.body, code |-> 201, id |-> g.id]
          /\ answers' = answers \cup {x}
    BY <1>0, <1>2, <2>1 DEF Answer, Answers
  <2>3. frame' = [frame EXCEPT ![a] = IdleFrame]
    BY <1>2 DEF Answer
  <2>4. TypeOK'
    BY <1>0, <1>2, <2>2, <2>3, IdleFrameOK DEF IInv, TypeOK
  <2>5. Grows /\ OneRowPerKey'
    BY <1>0, <1>2 DEF IInv, TypeOK, Grows, OneRowPerKey
  <2>6. SnapshotOK'
    BY <1>0, <1>2 DEF IInv, TypeOK, SnapshotOK
  <2>7. AckedIsWhole'
    <3>1. ASSUME NEW y \in Acks
          PROVE  /\ [id |-> y.id, key |-> y.key, body |-> y.body] \in rows
                 /\ y.id \in events /\ snapshot'[y.key] = y.body
      <4>1. snapshot[y.key] = y.body /\ y.key \in Keys /\ y.body \in Bodies
        <5>1. y \in Answers
          BY DEF IInv, TypeOK, Acks
        <5>2. snapshot[y.key] = y.body
          BY DEF IInv, AckedIsWhole
        <5> QED BY <5>1, <5>2 DEF Answers
      <4> QED BY <4>1, <2>5 DEF IInv, AckedIsWhole, Grows
    <3>2. /\ [id |-> x.id, key |-> x.key, body |-> x.body] \in rows
          /\ x.id \in events /\ snapshot'[x.key] = x.body
      BY <1>0, <1>2, <2>2 DEF IInv, TypeOK
    <3>3. Acks' \subseteq Acks \cup {x} /\ rows' = rows /\ events' = events
      BY <1>0, <2>2 DEF Acks
    <3>4. ASSUME NEW y \in Acks'
          PROVE  /\ [id |-> y.id, key |-> y.key, body |-> y.body] \in rows'
                 /\ y.id \in events' /\ snapshot'[y.key] = y.body
      <4>1. CASE y \in Acks
        BY <3>1, <3>3, <4>1
      <4>2. CASE y = x
        BY <3>2, <3>3, <4>2
      <4> QED BY <3>3, <4>1, <4>2
    <3> QED BY <3>4 DEF AckedIsWhole
  <2>8. MismatchIsReal'
    BY <1>0, <2>2 DEF IInv, MismatchIsReal
  <2> QED BY <2>3, <2>4, <2>5, <2>6, <2>7, <2>8, IdleFrameOK, StepLemma
<1> QED BY <1>1, <1>2 DEF InsertSnapshot

LEMMA FaultSteps ==
  ASSUME IInv, NEW a \in Requests, LookupFails(a) \/ StatementFails(a) \/ Crash(a)
  PROVE  IInv'
<1> DEFINE g == frame[a]
<1>0. g \in Frames /\ FrameOK(g) /\ faults' \in 0..MaxFaults
  BY DEF IInv, TypeOK, LookupFails, StatementFails, Crash, Fault
<1>1. CASE LookupFails(a)
  <2> DEFINE f == [g EXCEPT !.at = "insert"]
  <2>1. f \in Frames /\ FrameOK(f)
    BY <1>0, <1>1 DEF Frames, Phases, FrameOK, LookupFails
  <2> QED BY <1>0, <1>1, <2>1, MoveStep DEF LookupFails, Goto
<1>2. CASE StatementFails(a)
  BY <1>0, <1>2, RefusalStep DEF StatementFails, Refused
<1>3. CASE Crash(a)
  <2>1. FrameOK(IdleFrame)
    BY DEF IdleFrame, FrameOK
  <2> QED BY <1>0, <1>3, <2>1, IdleFrameOK, MoveStep DEF Crash
<1> QED BY <1>1, <1>2, <1>3

-----------------------------------------------------------------------------

LEMMA InitOK == Init => IInv
<1> SUFFICES ASSUME Init PROVE IInv
  OBVIOUS
<1>1. TypeOK
  BY IdleFrameOK DEF Init, TypeOK
<1>2. \A a \in Requests : FrameOK(frame[a])
  BY DEF Init, IdleFrame, FrameOK
<1> QED BY <1>1, <1>2
    DEF Init, IInv, OneRowPerKey, SnapshotOK, AckedIsWhole, MismatchIsReal, Acks

LEMMA StutterOK == IInv /\ UNCHANGED vars => IInv'
<1> SUFFICES ASSUME IInv, UNCHANGED vars PROVE IInv'
  OBVIOUS
<1>1. Grows /\ \A a \in Requests : frame[a] \in Frames /\ FrameOK(frame[a])
  BY DEF vars, IInv, TypeOK, Grows
<1>2. \A a \in Requests : FrameOK(frame[a])'
  BY <1>1 DEF FrameOK, vars
<1> QED BY <1>2
    DEF vars, IInv, TypeOK, OneRowPerKey, SnapshotOK, AckedIsWhole, MismatchIsReal, Acks

LEMMA NextOK == IInv /\ [Next]_vars => IInv'
BY ReadSteps, LoadCachedStep, InsertPaymentStep, InsertEventStep, InsertSnapshotStep,
   FaultSteps, StutterOK DEF Next

(* Every reachable state of the ingress satisfies the inductive invariant: *)
(* one row per key, built by one request whose statements follow each      *)
(* other (ReceivePayment.Execute).                                         *)
THEOREM IngressInvariant == Spec => []IInv
BY InitOK, NextOK, PTL DEF Spec

(* A payment a client was told of has its row, its event and its           *)
(* idempotency row (the order of the inserts in Execute).                  *)
THEOREM AckedPaymentsAreWhole == Spec => []AckedIsWhole
<1>1. IInv => AckedIsWhole
  BY DEF IInv
<1> QED BY IngressInvariant, <1>1, PTL

(* All acknowledgements of a key name one payment, whatever requests       *)
(* overlap, fail or are repeated (UNIQUE (idempotency_key)).               *)
THEOREM OnePaymentPerKey == Spec => []SameKeySamePayment
<1>1. IInv => SameKeySamePayment
  <2> SUFFICES ASSUME IInv, NEW x \in Acks, NEW y \in Acks, x.key = y.key
               PROVE  x.id = y.id /\ x.body = y.body
    BY DEF SameKeySamePayment
  <2> DEFINE r == [id |-> x.id, key |-> x.key, body |-> x.body]
             s == [id |-> y.id, key |-> y.key, body |-> y.body]
  <2>1. r \in rows /\ s \in rows
    BY DEF IInv, AckedIsWhole
  <2>2. r.key = s.key
    OBVIOUS
  <2>3. r = s
    BY <2>1, <2>2 DEF IInv, OneRowPerKey
  <2> QED BY <2>3
<1> QED BY IngressInvariant, <1>1, PTL

(* 409 goes only to a body other than the one its key's payment was built  *)
(* from (ErrIdempotencyMismatch of Execute).                               *)
THEOREM MismatchesAreReal == Spec => []MismatchIsReal
<1>1. IInv => MismatchIsReal
  BY DEF IInv
<1> QED BY IngressInvariant, <1>1, PTL
=============================================================================
