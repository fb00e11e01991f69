------------------------------ MODULE Ingress ------------------------------
(***************************************************************************)
(* POST /v1/payments under an Idempotency-Key: ReceivePayment.Execute      *)
(* looks the key up, then inserts the payment, its first event and the     *)
(* idempotency row, each in a statement of its own.  Clients send the same *)
(* key again, at the same time or later, with the same or another body.    *)
(***************************************************************************)
EXTENDS Naturals, FiniteSets

CONSTANTS
  Requests,  \* API goroutines
  Keys,      \* Idempotency-Key headers
  Bodies,    \* request bodies that pass the validation, by request_hash
  Ids,       \* payment ids: a bound on the payments of a behaviour
  MaxFaults, \* bound: dead goroutines and failed statements
  NoBody, NoId

ASSUME IngressNullsAssumption == NoBody \notin Bodies /\ NoId \notin Ids
ASSUME IngressBoundsAssumption == MaxFaults \in Nat

VARIABLES
  rows,     \* payments: id, idempotency_key and the body it was built from
  events,   \* payments with their ingress event
  snapshot, \* idempotency_keys: request_hash by key
  answers,  \* history: what clients were told
  frame,    \* what each goroutine is doing
  faults

vars == <<rows, events, snapshot, answers, frame, faults>>
tables == <<rows, events, snapshot>>

Rows == [id : Ids, key : Keys, body : Bodies]
Phases == {"idle", "lookup", "load", "insert", "event", "snapshot"}
Frames == [at : Phases, key : Keys \cup {NoId}, body : Bodies \cup {NoBody}, id : Ids \cup {NoId}]
Answers == [key : Keys, body : Bodies, code : {200, 201, 409, 500}, id : Ids \cup {NoId}]

IdleFrame == [at |-> "idle", key |-> NoId, body |-> NoBody, id |-> NoId]

TypeOK ==
  /\ rows     \subseteq Rows
  /\ events   \subseteq Ids
  /\ snapshot \in [Keys -> Bodies \cup {NoBody}]
  /\ answers  \subseteq Answers
  /\ frame    \in [Requests -> Frames]
  /\ faults   \in 0..MaxFaults

Init ==
  /\ rows = {} /\ events = {} /\ answers = {}
  /\ snapshot = [k \in Keys |-> NoBody]
  /\ frame = [a \in Requests |-> IdleFrame]
  /\ faults = 0

-----------------------------------------------------------------------------
(* The statements, each atomic.                                            *)

GetIdempotencyKey(k) == snapshot[k]

\* The key is the table's primary key.
InsertIdempotencyKey(k, b) ==
  snapshot[k] = NoBody /\ snapshot' = [snapshot EXCEPT ![k] = b]

\* A fresh id; UNIQUE (idempotency_key).
InsertPaymentRow(i, k, b) ==
  /\ \A r \in rows : r.key # k
  /\ i \notin {r.id : r \in rows}
  /\ rows' = rows \cup {[id |-> i, key |-> k, body |-> b]}

InsertPaymentEvent(i) == events' = events \cup {i}

-----------------------------------------------------------------------------
(* The steps of a request.                                                 *)

Goto(a, phase) == frame' = [frame EXCEPT ![a].at = phase]

Answer(a, code, id) ==
  /\ answers' = answers \cup
       {[key |-> frame[a].key, body |-> frame[a].body, code |-> code, id |-> id]}
  /\ frame' = [frame EXCEPT ![a] = IdleFrame]

Create(a, k, b) ==
  /\ frame[a].at = "idle"
  /\ frame' = [frame EXCEPT ![a] = [at |-> "lookup", key |-> k, body |-> b, id |-> NoId]]
  /\ UNCHANGED <<tables, answers, faults>>

\* The fast path: an idempotency row decides between replay and mismatch.
Lookup(a) ==
  LET s == GetIdempotencyKey(frame[a].key) IN
  /\ frame[a].at = "lookup"
  /\ \/ s = NoBody /\ Goto(a, "insert") /\ UNCHANGED answers
     \/ s = frame[a].body /\ Goto(a, "load") /\ UNCHANGED answers
     \/ s \notin {NoBody, frame[a].body} /\ Answer(a, 409, NoId)
  /\ UNCHANGED <<tables, faults>>

LoadCached(a) ==
  /\ frame[a].at = "load"
  /\ \E r \in rows : r.key = frame[a].key /\ Answer(a, 200, r.id)
  /\ UNCHANGED <<tables, faults>>

InsertPayment_NoUnique(a) == \* mutant: UNIQUE (idempotency_key) missing
  /\ frame[a].at = "insert"
  /\ \E i \in Ids \ {r.id : r \in rows} :
       /\ rows' = rows \cup {[id |-> i, key |-> frame[a].key, body |-> frame[a].body]}
       /\ frame' = [frame EXCEPT ![a].at = "event", ![a].id = i]
  /\ UNCHANGED <<events, snapshot, answers, faults>>

\* A key that is taken is answered 500.
InsertPayment(a) ==
  /\ frame[a].at = "insert"
  /\ \/ /\ \E r \in rows : r.key = frame[a].key
        /\ Answer(a, 500, NoId)
        /\ UNCHANGED rows
     \/ /\ \E i \in Ids :
             /\ InsertPaymentRow(i, frame[a].key, frame[a].body)
             /\ frame' = [frame EXCEPT ![a].at = "event", ![a].id = i]
        /\ UNCHANGED answers
  /\ UNCHANGED <<events, snapshot, faults>>

InsertEvent(a) ==
  /\ frame[a].at = "event"
  /\ InsertPaymentEvent(frame[a].id)
  /\ Goto(a, "snapshot")
  /\ UNCHANGED <<rows, snapshot, answers, faults>>

InsertSnapshot(a) ==
  LET k == frame[a].key IN
  /\ frame[a].at = "snapshot"
  /\ \/ /\ InsertIdempotencyKey(k, frame[a].body)
        /\ Answer(a, 201, frame[a].id)
     \/ /\ snapshot[k] # NoBody
        /\ Answer(a, 500, NoId)
        /\ UNCHANGED snapshot
  /\ UNCHANGED <<rows, events, faults>>

Fault == faults < MaxFaults /\ faults' = faults + 1

\* idempotency.Get failed: any error counts as a miss.
LookupFails(a) ==
  /\ Fault
  /\ frame[a].at = "lookup"
  /\ Goto(a, "insert")
  /\ UNCHANGED <<tables, answers>>

StatementFails_EventIgnored(a) == \* mutant: a failed event insert is not returned
  /\ Fault
  /\ frame[a].at \in {"load", "insert", "event", "snapshot"}
  /\ IF frame[a].at = "event" THEN Goto(a, "snapshot") /\ UNCHANGED answers
                              ELSE Answer(a, 500, NoId)
  /\ UNCHANGED tables

StatementFails(a) ==
  /\ Fault
  /\ frame[a].at \in {"load", "insert", "event", "snapshot"}
  /\ Answer(a, 500, NoId)
  /\ UNCHANGED tables

\* The process dies: no answer, and what is committed stays.
Crash(a) ==
  /\ Fault
  /\ frame[a].at # "idle"
  /\ frame' = [frame EXCEPT ![a] = IdleFrame]
  /\ UNCHANGED <<tables, answers>>

Next ==
  \E a \in Requests :
    \/ \E k \in Keys, b \in Bodies : Create(a, k, b)
    \/ Lookup(a) \/ LoadCached(a)
    \/ InsertPayment(a) \/ InsertEvent(a) \/ InsertSnapshot(a)
    \/ LookupFails(a) \/ StatementFails(a) \/ Crash(a)

Spec == Init /\ [][Next]_vars

-----------------------------------------------------------------------------

Acks == {x \in answers : x.code \in {200, 201}}

(* Whatever the retries and however they overlap, the clients of a key are *)
(* all told of one payment, built from the body they sent: no duplicate    *)
(* is created and no request is answered with another one's payment.       *)
SameKeySamePayment ==
  \A x, y \in Acks : x.key = y.key => x.id = y.id /\ x.body = y.body

(* A payment a client was told of is whole: its row, its first event and   *)
(* the idempotency row that later replays go by.                           *)
AckedIsWhole ==
  \A x \in Acks :
    /\ [id |-> x.id, key |-> x.key, body |-> x.body] \in rows
    /\ x.id \in events
    /\ snapshot[x.key] = x.body

(* ErrIdempotencyMismatch goes only to a body other than the one the key's *)
(* payment was built from.                                                 *)
MismatchIsReal ==
  \A x \in answers : x.code = 409 =>
    \E r \in rows : r.key = x.key /\ r.body # x.body

-----------------------------------------------------------------------------
(* Why: the statements of one request build on each other, and UNIQUE      *)
(* leaves one builder per key.                                             *)

OneRowPerKey ==
  \A r, s \in rows : r.key = s.key \/ r.id = s.id => r = s

FrameOK(f) ==
  /\ f.at # "idle" => f.key \in Keys /\ f.body \in Bodies
  /\ f.at \in {"event", "snapshot"} =>
       [id |-> f.id, key |-> f.key, body |-> f.body] \in rows
  /\ f.at = "snapshot" => f.id \in events
  /\ f.at = "load" => snapshot[f.key] = f.body

SnapshotOK ==
  \A k \in Keys : snapshot[k] # NoBody =>
    \E r \in rows : r.key = k /\ r.body = snapshot[k] /\ r.id \in events

IInv ==
  /\ TypeOK
  /\ OneRowPerKey
  /\ SnapshotOK
  /\ AckedIsWhole
  /\ MismatchIsReal
  /\ \A a \in Requests : FrameOK(frame[a])

=============================================================================
