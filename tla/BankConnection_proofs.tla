------------------------ MODULE BankConnection_proofs ------------------------
(* Proofs about BankConnection, for any tenants, banks, credentials, number  *)
(* of requests and limit. The argument: until two requests overlap on a      *)
(* connection, one request at most can reach its row, so what that request   *)
(* read is what the row still holds.                                         *)
EXTENDS BankConnection, TLAPS

LEMMA Bounds == MaxValidationAttempts \in Nat \ {0} /\ MaxFaults \in Nat /\ NoRow \notin Row /\ Idle \notin Request
BY ConnectionAssumption

(* The request r, about the connection c, leaves other connections alone.    *)
LEMMA OtherRows ==
  ASSUME IInv, NEW r \in Requests, NEW c \in Conns,
         \A x \in Requests \ {r} : req'[x] = req[x],
         req[r] # Idle => req[r].id = c,
         req'[r] # Idle => req'[r].id = c,
         \A d \in Conns \ {c} : /\ connections'[d] = connections[d] /\ probes'[d] = probes[d]
                                /\ d \in overlapped <=> d \in overlapped',
         proven \subseteq proven'
  PROVE  \A d \in Conns \ {c} : RowOK(d)'
<1> SUFFICES ASSUME NEW d \in Conns, d # c PROVE RowOK(d)'
  OBVIOUS
<1>1. RowOK(d) /\ connections'[d] = connections[d] /\ probes'[d] = probes[d]
      /\ (d \in overlapped <=> d \in overlapped')
  BY DEF IInv
<1>2. InFlight(d)' = InFlight(d) /\ \A x \in InFlight(d) : req'[x] = req[x]
  BY DEF InFlight
<1>3. Effective(d)' = Effective(d)
  BY <1>1, <1>2 DEF Effective, Visible
<1>4. Effective(d) \subseteq InFlight(d) /\ (ResetPending(d)' <=> ResetPending(d))
  BY <1>1, <1>2 DEF Effective, ResetPending, Visible
<1>5. \A x \in Effective(d) : StageOK(d, req[x]) => StageOK(d, req[x])'
  <2> SUFFICES ASSUME NEW x \in Effective(d), StageOK(d, req[x]) PROVE StageOK(d, req[x])'
    OBVIOUS
  <2>1. req'[x] = req[x]
    BY <1>2, <1>4
  <2> QED BY <1>1, <2>1 DEF StageOK, AttemptsAfter
<1>6. Untested(d)' => Untested(d)
  BY <1>1, <1>4 DEF Untested
<1> QED BY <1>1, <1>3, <1>4, <1>5, <1>6 DEF RowOK

(* The facts about requests, when only r moves on.                           *)
LEMMA OtherRequests ==
  ASSUME IInv, NEW r \in Requests, \A x \in Requests \ {r} : req'[x] = req[x],
         proven \subseteq proven', RequestOK(r)'
  PROVE  \A x \in Requests : RequestOK(x)'
<1> SUFFICES ASSUME NEW x \in Requests, x # r PROVE RequestOK(x)'
  OBVIOUS
<1>1. RequestOK(x) /\ req'[x] = req[x]
  BY DEF IInv
<1> QED BY <1>1 DEF RequestOK, AttemptsAfter

(* Who ends a request, and is the only one that could reach the row, leaves  *)
(* nobody who can.                                                           *)
LEMMA LastOne ==
  ASSUME IInv, NEW r \in Requests, NEW c \in Conns, connections[c] # NoRow, c \notin overlapped,
         r \in Effective(c)
  PROVE  /\ StageOK(c, req[r])
         /\ \A x \in Effective(c) : x = r
         /\ ResetPending(c) => req[r].op = "update"
<1>1. \A x \in Effective(c) : x = r
  BY DEF IInv, RowOK
<1>2. StageOK(c, req[r])
  BY DEF IInv, RowOK
<1>3. ResetPending(c) => req[r].op = "update"
  <2> SUFFICES ASSUME ResetPending(c) PROVE req[r].op = "update"
    OBVIOUS
  <2>1. PICK x \in InFlight(c) : req[x].pc = "reset" /\ Visible(c, req[x].client)
    BY DEF ResetPending
  <2>2. x = r
    BY <1>1, <2>1 DEF Effective
  <2>3. RequestOK(r) /\ req[r] # Idle
    BY DEF IInv, Effective, InFlight
  <2> QED BY <2>1, <2>2, <2>3 DEF RequestOK
<1> QED BY <1>1, <1>2, <1>3

LEMMA CreatePreserves ==
  ASSUME IInv, NEW r \in Requests, CreateBankConnection(r)
  PROVE  IInv'
<1>1. PICK t \in Tenants, b \in Banks, c \in Conns, creds \in Payloads :
        /\ connections[c] = NoRow /\ InFlight(c) = {}
        /\ InsertBankConnection(c, t, b, creds)
        /\ probes' = [probes EXCEPT ![c] = 0] /\ overlapped' = overlapped \ {c}
        /\ UNCHANGED <<req, proven, faults>>
  BY DEF CreateBankConnection
<1> DEFINE row == [client |-> t, bank |-> b, creds |-> creds, status |-> "draft", attempts |-> 0]
<1>2. row \in Row /\ connections' = [connections EXCEPT ![c] = row]
  BY <1>1, Bounds DEF InsertBankConnection, Row, Status, Attempts
<1>3. TypeOK'
  <2>1. probes' \in [Conns -> 0..(MaxValidationAttempts + 1)]
    BY <1>1, Bounds DEF IInv, TypeOK
  <2> QED BY <1>1, <1>2, <2>1 DEF IInv, TypeOK
<1>4. \A x \in Requests : RequestOK(x)'
  BY <1>1 DEF IInv, RequestOK, AttemptsAfter
<1>5. RowOK(c)'
  <2>1. connections'[c] = row /\ probes'[c] = 0 /\ Effective(c)' = {}
    BY <1>1, <1>2 DEF IInv, TypeOK, Effective, InFlight
  <2> QED BY <2>1 DEF RowOK, Untested
<1>6. ASSUME NEW d \in Conns, d # c PROVE RowOK(d)'
  <2>1. /\ RowOK(d) /\ connections'[d] = connections[d] /\ probes'[d] = probes[d]
        /\ d \in overlapped <=> d \in overlapped'
    BY <1>1, <1>2, <1>6 DEF IInv, TypeOK
  <2> QED BY <1>1, <2>1 DEF RowOK, Effective, InFlight, Visible, StageOK, AttemptsAfter, ResetPending, Untested
<1> QED BY <1>3, <1>4, <1>5, <1>6 DEF IInv

LEMMA DeletePreserves ==
  ASSUME IInv, NEW r \in Requests, DeleteConnection(r)
  PROVE  IInv'
<1>1. PICK t \in Tenants, c \in Conns : DeleteBankConnection(c, t) /\ UNCHANGED <<req, proven, probes, overlapped, faults>>
  BY DEF DeleteConnection
<1>2. TypeOK'
  BY <1>1 DEF DeleteBankConnection, IInv, TypeOK
<1>3. \A x \in Requests : RequestOK(x)'
  BY <1>1 DEF IInv, RequestOK, AttemptsAfter
<1>4. ASSUME NEW d \in Conns PROVE RowOK(d)'
  <2>1. RowOK(d) /\ (connections'[d] = connections[d] \/ connections'[d] = NoRow)
    BY <1>1 DEF DeleteBankConnection, IInv, TypeOK
  <2> QED BY <1>1, <2>1 DEF RowOK, Effective, InFlight, Visible, StageOK, AttemptsAfter, ResetPending, Untested
<1> QED BY <1>2, <1>3, <1>4 DEF IInv

(* What a statement on the status does to a row.                             *)
LEMMA StatusRow ==
  ASSUME TypeOK, NEW c \in Conns, NEW t \in Tenants, NEW s \in Status, NEW n \in Attempts,
         UpdateBankConnectionStatus(c, t, s, n)
  PROVE  /\ connections' \in [Conns -> Row \cup {NoRow}]
         /\ \A d \in Conns \ {c} : connections'[d] = connections[d]
         /\ ~Visible(c, t) => connections' = connections
         /\ Visible(c, t) =>
              /\ connections'[c] # NoRow /\ connections'[c].client = t
              /\ connections'[c].bank = connections[c].bank /\ connections'[c].creds = connections[c].creds
              /\ connections'[c].status = s /\ connections'[c].attempts = n
<1> DEFINE row == [connections[c] EXCEPT !.status = s, !.attempts = n]
<1>1. CASE ~Visible(c, t)
  BY <1>1 DEF UpdateBankConnectionStatus, TypeOK
<1>2. CASE Visible(c, t)
  <2>1. connections[c] \in Row /\ connections[c].client = t
    BY <1>2 DEF Visible, TypeOK
  <2>2. /\ row \in Row /\ row.client = t /\ row.status = s /\ row.attempts = n
        /\ row.bank = connections[c].bank /\ row.creds = connections[c].creds
    BY <2>1 DEF Row
  <2>3. connections' = [connections EXCEPT ![c] = row]
    BY <1>2, <2>1 DEF UpdateBankConnectionStatus, TypeOK
  <2> QED BY <1>2, <2>2, <2>3, Bounds DEF TypeOK
<1> QED BY <1>1, <1>2

(* A request that cannot reach the row leaves it as accounted for as before. *)
LEMMA Unreached ==
  ASSUME IInv, NEW r \in Requests, NEW c \in Conns, connections' = connections, probes' = probes,
         \A x \in Requests \ {r} : req'[x] = req[x],
         req[r] # Idle => ~Visible(c, req[r].client),
         req'[r] # Idle => ~Visible(c, req'[r].client),
         overlapped \subseteq overlapped', proven \subseteq proven'
  PROVE  RowOK(c)'
<1>1. RowOK(c)
  BY DEF IInv
<1>2. \A x \in Requests : x \in Effective(c)' <=> x \in Effective(c)
  BY DEF Effective, InFlight, Visible
<1>3. \A x \in Effective(c) : x # r /\ req'[x] = req[x] /\ x \in Requests
  BY DEF Effective, InFlight
<1>4. Effective(c)' = Effective(c)
  BY <1>2 DEF Effective, InFlight
<1>5. \A x \in Effective(c) : StageOK(c, req[x]) => StageOK(c, req[x])'
  <2> SUFFICES ASSUME NEW x \in Effective(c), StageOK(c, req[x]) PROVE StageOK(c, req[x])'
    OBVIOUS
  <2> QED BY <1>3 DEF StageOK, AttemptsAfter
<1>6. ResetPending(c)' <=> ResetPending(c)
  <2>1. ResetPending(c) <=> \E x \in Effective(c) : req[x].pc = "reset"
    BY DEF ResetPending, Effective
  <2>2. ResetPending(c)' <=> \E x \in Effective(c)' : req'[x].pc = "reset"
    BY DEF ResetPending, Effective
  <2> QED BY <1>3, <1>4, <2>1, <2>2
<1>7. Untested(c)' => Untested(c)
  BY <1>6 DEF Untested
<1> QED BY <1>1, <1>4, <1>5, <1>6, <1>7 DEF RowOK

(* With nobody else in flight on c, only r can reach the row.                *)
LEMMA Alone ==
  ASSUME NEW r \in Requests, NEW c \in Conns, \A x \in Requests \ {r} : req'[x] = req[x],
         InFlight(c) \ {r} = {}
  PROVE  Effective(c)' \subseteq {r}
BY DEF Effective, InFlight

LEMMA UpdatePreserves ==
  ASSUME IInv, NEW r \in Requests, UpdateBankConnection(r)
  PROVE  IInv'
<1>1. PICK t \in Tenants, c \in Conns, creds \in Payloads :
        /\ req[r] = Idle /\ connections[c] # NoRow
        /\ UpdateBankConnectionCredentials(c, t, creds)
        /\ Continue(r, [op |-> "update", client |-> t, id |-> c, pc |-> "reset", row |-> connections[c], ok |-> FALSE])
        /\ IF Visible(c, t) THEN probes' = [probes EXCEPT ![c] = 0] /\ Overlaps(c, r)
                            ELSE UNCHANGED <<probes, overlapped>>
        /\ UNCHANGED <<proven, faults>>
  BY DEF UpdateBankConnection
<1> DEFINE q == [op |-> "update", client |-> t, id |-> c, pc |-> "reset", row |-> connections[c], ok |-> FALSE]
<1>2. connections[c] \in Row
  BY <1>1 DEF IInv, TypeOK
<1>3. q \in Request /\ q # Idle /\ req' = [req EXCEPT ![r] = q] /\ req'[r] = q
      /\ \A x \in Requests \ {r} : req'[x] = req[x]
  <2>1. q \in Request
    BY <1>2 DEF Request
  <2>3. q # Idle
    BY <2>1, Bounds
  <2>2. req' = [req EXCEPT ![r] = q]
    BY <1>1 DEF Continue
  <2> HIDE DEF q
  <2> QED BY <2>1, <2>2, <2>3 DEF IInv, TypeOK
<1>4. RequestOK(r)'
  BY <1>3 DEF RequestOK
<1>5. \A x \in Requests : RequestOK(x)'
  <2> HIDE DEF q
  <2> QED BY <1>1, <1>3, <1>4, OtherRequests
<1>6. CASE Visible(c, t)
  <2> DEFINE row == [connections[c] EXCEPT !.creds = creds]
  <2>1. row \in Row /\ connections' = [connections EXCEPT ![c] = row]
    BY <1>1, <1>2, <1>6 DEF UpdateBankConnectionCredentials, Row, IInv, TypeOK
  <2>2. /\ probes' = [probes EXCEPT ![c] = 0] /\ probes'[c] = 0
        /\ overlapped' = IF InFlight(c) \ {r} # {} THEN overlapped \cup {c} ELSE overlapped
    BY <1>1, <1>6 DEF Overlaps, IInv, TypeOK
  <2>3. TypeOK'
    <3>1. probes' \in [Conns -> 0..(MaxValidationAttempts + 1)]
      BY <2>2, Bounds DEF IInv, TypeOK
    <3> QED BY <1>1, <1>3, <2>1, <2>2, <3>1 DEF IInv, TypeOK
  <2>4. RowOK(c)'
    <3> SUFFICES ASSUME c \notin overlapped' PROVE RowOK(c)'
      BY DEF RowOK
    <3>1. Effective(c)' \subseteq {r}
      BY <1>3, <2>2, Alone
    <3>2. ResetPending(c)'
      <4>1. connections'[c] # NoRow /\ connections'[c].client = t
        BY <1>2, <1>6, <2>1, Bounds DEF Visible, Row, IInv, TypeOK
      <4> QED BY <1>3, <4>1 DEF ResetPending, InFlight, Visible
    <3>3. StageOK(c, req[r])'
      BY <1>3, <2>2 DEF StageOK
    <3> QED BY <3>1, <3>2, <3>3 DEF RowOK, Untested
  <2>5. \A d \in Conns \ {c} : RowOK(d)'
    <3>1. \A d \in Conns \ {c} : /\ connections'[d] = connections[d] /\ probes'[d] = probes[d]
                                 /\ d \in overlapped <=> d \in overlapped'
      BY <2>1, <2>2 DEF IInv, TypeOK
    <3>2. q.id = c
      OBVIOUS
    <3> HIDE DEF q, row
    <3> QED BY <1>1, <1>3, <3>1, <3>2, OtherRows
  <2> QED BY <1>5, <2>3, <2>4, <2>5 DEF IInv
<1>7. CASE ~Visible(c, t)
  <2>1. connections' = connections /\ UNCHANGED <<probes, overlapped>>
    BY <1>1, <1>7 DEF UpdateBankConnectionCredentials
  <2>2. TypeOK'
    BY <1>1, <1>3, <2>1 DEF IInv, TypeOK
  <2>3. q.id = c /\ q.client = t
    OBVIOUS
  <2>4. RowOK(c)'
    <3> HIDE DEF q
    <3> QED BY <1>1, <1>3, <1>7, <2>1, <2>3, Unreached
  <2>5. \A d \in Conns \ {c} : RowOK(d)'
    <3> HIDE DEF q
    <3> QED BY <1>1, <1>3, <2>1, <2>3, OtherRows
  <2> QED BY <1>5, <2>2, <2>4, <2>5 DEF IInv
<1> QED BY <1>6, <1>7

(* What a statement of a request in flight starts from.                      *)
LEMMA Going ==
  ASSUME IInv, NEW r \in Requests, req[r] # Idle
  PROVE  /\ req[r] \in Request /\ RequestOK(r)
         /\ req[r].id \in Conns /\ req[r].client \in Tenants
         /\ req[r].row \in Row /\ req[r].row.attempts \in Nat
         /\ r \in InFlight(req[r].id)
         /\ Visible(req[r].id, req[r].client) => r \in Effective(req[r].id)
<1>1. req[r] \in Request /\ RequestOK(r)
  BY DEF IInv, TypeOK
<1>2. req[r].row.attempts \in Nat
  BY <1>1, Bounds DEF Request, Row, Attempts
<1> QED BY <1>1, <1>2 DEF Request, InFlight, Effective

(* A request that ends leaves nobody who can reach the row.                  *)
LEMMA Deserted ==
  ASSUME IInv, NEW r \in Requests, NEW c \in Conns, r \in Effective(c), connections[c] # NoRow,
         c \notin overlapped, req' = [req EXCEPT ![r] = Idle],
         connections'[c].client = connections[c].client
  PROVE  Effective(c)' = {} /\ ~ResetPending(c)'
<1>1. \A x \in Effective(c) : x = r
  BY LastOne
<1>2. req'[r] = Idle /\ \A x \in Requests \ {r} : req'[x] = req[x]
  BY DEF IInv, TypeOK
<1>3. Effective(c)' = {}
  BY <1>1, <1>2 DEF Effective, InFlight, Visible
<1> QED BY <1>3 DEF Effective, ResetPending

LEMMA ResetPreserves ==
  ASSUME IInv, NEW r \in Requests, UpdateResetsStatus(r)
  PROVE  IInv'
<1>0. req[r] # Idle
  BY DEF UpdateResetsStatus
<1> PICK c \in Conns, t \in Tenants : c = req[r].id /\ t = req[r].client
  BY <1>0, Going
<1>1. req[r] # Idle /\ req[r].pc = "reset" /\ UpdateBankConnectionStatus(c, t, "draft", 0)
      /\ req' = [req EXCEPT ![r] = Idle] /\ UNCHANGED <<proven, probes, overlapped, faults>>
  BY DEF UpdateResetsStatus, Reply
<1>2. req[r].op = "update"
  BY <1>1, Going DEF RequestOK
<1>3. /\ connections' \in [Conns -> Row \cup {NoRow}]
      /\ \A d \in Conns \ {c} : connections'[d] = connections[d]
      /\ ~Visible(c, t) => connections' = connections
      /\ Visible(c, t) =>
           /\ connections'[c] # NoRow /\ connections'[c].client = t
           /\ connections'[c].status = "draft" /\ connections'[c].attempts = 0
  <2>1. "draft" \in Status /\ 0 \in Attempts
    BY Bounds DEF Status, Attempts
  <2> QED BY <1>1, <1>2, <2>1, StatusRow DEF IInv
<1>4. TypeOK'
  BY <1>1, <1>3 DEF IInv, TypeOK
<1>5. req'[r] = Idle /\ \A x \in Requests \ {r} : req'[x] = req[x]
  BY <1>1 DEF IInv, TypeOK
<1>6. \A x \in Requests : RequestOK(x)'
  BY <1>1, <1>5, OtherRequests DEF RequestOK
<1>7. RowOK(c)'
  <2>1. CASE ~Visible(c, t)
    <3> QED BY <1>1, <1>2, <1>3, <1>5, <2>1, Unreached
  <2>2. CASE Visible(c, t)
    <3> SUFFICES ASSUME c \notin overlapped PROVE RowOK(c)'
      BY <1>1 DEF RowOK
    <3>1. r \in Effective(c) /\ connections[c] # NoRow /\ connections[c].client = t
      BY <1>1, <2>2, Going DEF Visible
    <3>2. probes[c] = 0
      <4> QED BY <1>2, <3>1, LastOne DEF StageOK
    <3>3. Effective(c)' = {}
      <4> QED BY <1>1, <1>2, <1>3, <2>2, <3>1, Deserted
    <3> QED BY <1>1, <1>3, <2>2, <3>2, <3>3 DEF RowOK, Untested
  <2> QED BY <2>1, <2>2
<1>8. \A d \in Conns \ {c} : RowOK(d)'
  BY <1>1, <1>2, <1>3, <1>5, OtherRows
<1> QED BY <1>4, <1>6, <1>7, <1>8 DEF IInv

LEMMA ValidatePreserves ==
  ASSUME IInv, NEW r \in Requests, ValidateBankConnection(r)
  PROVE  IInv'
<1>1. PICK t \in Tenants, c \in Conns :
        /\ req[r] = Idle /\ Visible(c, t) /\ ~LimitReached(connections[c])
        /\ Continue(r, [op |-> "validate", client |-> t, id |-> c, pc |-> "mark", row |-> connections[c], ok |-> FALSE])
        /\ Overlaps(c, r)
        /\ UNCHANGED <<connections, proven, probes, faults>>
  BY DEF ValidateBankConnection, GetBankConnection
<1> DEFINE q == [op |-> "validate", client |-> t, id |-> c, pc |-> "mark", row |-> connections[c], ok |-> FALSE]
<1>2. connections[c] # NoRow /\ connections[c].client = t /\ connections[c] \in Row
  BY <1>1 DEF Visible, IInv, TypeOK
<1>3. q \in Request /\ q # Idle /\ req' = [req EXCEPT ![r] = q] /\ req'[r] = q
      /\ \A x \in Requests \ {r} : req'[x] = req[x]
  <2>1. q \in Request
    BY <1>2 DEF Request
  <2>2. q # Idle
    BY <2>1, Bounds
  <2>3. req' = [req EXCEPT ![r] = q]
    BY <1>1 DEF Continue
  <2> HIDE DEF q
  <2> QED BY <2>1, <2>2, <2>3 DEF IInv, TypeOK
<1>4. TypeOK'
  BY <1>1, <1>3 DEF Overlaps, IInv, TypeOK
<1>5. RequestOK(r)'
  <2>1. connections[c].attempts \in Nat
    BY <1>2, Bounds DEF Row, Attempts
  <2> QED BY <1>1, <1>3, <2>1, Bounds DEF RequestOK, AttemptsAfter, LimitReached
<1>6. \A x \in Requests : RequestOK(x)'
  <2> HIDE DEF q
  <2> QED BY <1>1, <1>3, <1>5, OtherRequests
<1>7. RowOK(c)'
  <2> SUFFICES ASSUME c \notin overlapped' PROVE RowOK(c)'
    BY DEF RowOK
  <2>1. InFlight(c) = {} /\ c \notin overlapped
    BY <1>1 DEF Overlaps, InFlight
  <2>2. Effective(c)' \subseteq {r}
    BY <1>3, <2>1, Alone
  <2>3. ~ResetPending(c) /\ ~ResetPending(c)'
    BY <1>3, <2>1 DEF ResetPending, InFlight
  <2>4. probes[c] <= connections[c].attempts /\ ~Untested(c)
    BY <1>2, <2>1, <2>3 DEF IInv, RowOK
  <2>5. StageOK(c, req[r])'
    BY <1>1, <1>3 DEF StageOK
  <2>6. ~Untested(c)'
    BY <1>1, <2>3, <2>4 DEF Untested
  <2> QED BY <1>1, <2>2, <2>4, <2>5, <2>6 DEF RowOK
<1>8. \A d \in Conns \ {c} : RowOK(d)'
  <2>1. \A d \in Conns \ {c} : d \in overlapped <=> d \in overlapped'
    BY <1>1 DEF Overlaps
  <2>2. q.id = c
    OBVIOUS
  <2> HIDE DEF q
  <2> QED BY <1>1, <1>3, <2>1, <2>2, OtherRows
<1> QED BY <1>4, <1>6, <1>7, <1>8 DEF IInv

LEMMA MarkPreserves ==
  ASSUME IInv, NEW r \in Requests, ValidateMarks(r)
  PROVE  IInv'
<1>0. req[r] # Idle
  BY DEF ValidateMarks
<1> PICK c \in Conns, t \in Tenants : c = req[r].id /\ t = req[r].client
  BY <1>0, Going
<1> DEFINE n == AttemptsAfter(req[r])
           q == [req[r] EXCEPT !.pc = "test"]
<1>1. req[r].pc = "mark" /\ UpdateBankConnectionStatus(c, t, "validating", n)
      /\ req' = [req EXCEPT ![r] = q] /\ UNCHANGED <<proven, probes, overlapped, faults>>
  BY DEF ValidateMarks, Continue
<1>2. req[r] \in Request /\ req[r].op = "validate" /\ n \in Attempts /\ req[r].row.attempts \in Nat
      /\ RequestOK(r)
  <2>1. req[r] \in Request /\ req[r].op = "validate"
    BY <1>0, <1>1, Going DEF RequestOK, Request
  <2> QED BY <1>0, <2>1, Going, Bounds DEF RequestOK, Attempts, AttemptsAfter
<1>3. /\ connections' \in [Conns -> Row \cup {NoRow}]
      /\ \A d \in Conns \ {c} : connections'[d] = connections[d]
      /\ ~Visible(c, t) => connections' = connections
      /\ Visible(c, t) =>
           /\ connections'[c] # NoRow /\ connections'[c].client = t
           /\ connections'[c].bank = connections[c].bank /\ connections'[c].creds = connections[c].creds
           /\ connections'[c].status = "validating" /\ connections'[c].attempts = n
  <2>1. "validating" \in Status
    BY DEF Status
  <2> HIDE DEF n
  <2> QED BY <1>1, <1>2, <2>1, StatusRow DEF IInv
<1>4. /\ q \in Request /\ q # Idle /\ q.op = "validate" /\ q.id = c /\ q.client = t
      /\ q.pc = "test" /\ q.row = req[r].row
  <2>1. /\ q \in Request /\ q.op = "validate" /\ q.id = c /\ q.client = t
        /\ q.pc = "test" /\ q.row = req[r].row
    BY <1>2 DEF Request
  <2> QED BY <2>1, Bounds
<1>5. req'[r] = q /\ \A x \in Requests \ {r} : req'[x] = req[x]
  BY <1>1 DEF IInv, TypeOK
<1> HIDE DEF q
<1>6. TypeOK'
  BY <1>1, <1>3, <1>4 DEF IInv, TypeOK
<1>7. \A x \in Requests : RequestOK(x)'
  <2>1. RequestOK(r)'
    BY <1>0, <1>2, <1>4, <1>5 DEF RequestOK, AttemptsAfter
  <2> QED BY <1>1, <1>5, <2>1, OtherRequests
<1>8. RowOK(c)'
  <2>1. CASE ~Visible(c, t)
    <3>1. req'[r].client = t
      BY <1>4, <1>5
    <3> QED BY <1>1, <1>3, <1>5, <2>1, <3>1, Unreached
  <2>2. CASE Visible(c, t)
    <3> SUFFICES ASSUME c \notin overlapped PROVE RowOK(c)'
      BY <1>1 DEF RowOK
    <3>1. r \in Effective(c) /\ connections[c] # NoRow /\ connections[c].client = t
      BY <1>0, <2>2, Going DEF Visible
    <3>2. StageOK(c, req[r]) /\ (\A x \in Effective(c) : x = r) /\ ~ResetPending(c)
      BY <1>2, <3>1, LastOne
    <3>3. Effective(c)' \subseteq {r}
      BY <1>3, <1>5, <2>2, <3>1, <3>2 DEF Effective, InFlight, Visible
    <3>4. probes[c] <= req[r].row.attempts
      BY <1>1, <3>1, <3>2 DEF IInv, RowOK, StageOK
    <3>5. probes[c] \in Nat
      BY Bounds DEF IInv, TypeOK
    <3>6. probes[c] <= n
      BY <1>2, <3>4, <3>5 DEF AttemptsAfter
    <3>7. StageOK(c, req[r])'
      BY <1>1, <1>2, <1>3, <1>4, <1>5, <2>2, <3>2, <3>4 DEF StageOK, AttemptsAfter
    <3> QED BY <1>1, <1>3, <2>2, <3>3, <3>6, <3>7 DEF RowOK, Untested
  <2> QED BY <2>1, <2>2
<1>9. \A d \in Conns \ {c} : RowOK(d)'
  BY <1>1, <1>3, <1>4, <1>5, OtherRows
<1> QED BY <1>6, <1>7, <1>8, <1>9 DEF IInv

LEMMA TestPreserves ==
  ASSUME IInv, NEW r \in Requests, ValidateTests(r)
  PROVE  IInv'
<1>0. req[r] # Idle
  BY DEF ValidateTests
<1> PICK c \in Conns, t \in Tenants : c = req[r].id /\ t = req[r].client
  BY <1>0, Going
<1>1. PICK ok \in BOOLEAN :
        /\ req' = [req EXCEPT ![r] = [req[r] EXCEPT !.pc = "store", !.ok = ok]]
        /\ proven' = IF ok THEN proven \cup {<<req[r].row.bank, req[r].row.creds>>} ELSE proven
        /\ probes' = IF Visible(c, t) /\ connections[c].creds = req[r].row.creds /\ probes[c] <= MaxValidationAttempts
                     THEN [probes EXCEPT ![c] = probes[c] + 1] ELSE probes
  <2>1. PICK answer \in Answer :
          LET q == req[r]
              ok == q.row.bank \in AllValidators /\ Accepts(q.row.bank, q.row.creds, answer) IN
            /\ Continue(r, [q EXCEPT !.pc = "store", !.ok = ok])
            /\ proven' = IF ok THEN proven \cup {<<q.row.bank, q.row.creds>>} ELSE proven
            /\ probes' = IF Visible(q.id, q.client) /\ connections[q.id].creds = q.row.creds
                            /\ probes[q.id] <= MaxValidationAttempts
                         THEN [probes EXCEPT ![q.id] = @ + 1] ELSE probes
    BY DEF ValidateTests
  <2> DEFINE good == req[r].row.bank \in AllValidators /\ Accepts(req[r].row.bank, req[r].row.creds, answer)
  <2>2. good \in BOOLEAN
    OBVIOUS
  <2>3. c \in DOMAIN probes
    BY DEF IInv, TypeOK
  <2> QED BY <2>1, <2>2, <2>3 DEF Continue
<1>2. req[r].pc = "test" /\ UNCHANGED <<connections, overlapped, faults>>
  BY DEF ValidateTests
<1> DEFINE q == [req[r] EXCEPT !.pc = "store", !.ok = ok]
<1>3. req[r] \in Request /\ RequestOK(r) /\ req[r].op = "validate" /\ req[r].row \in Row
  BY <1>0, <1>2, Going DEF RequestOK, Request
<1>4. /\ q \in Request /\ q # Idle /\ q.op = "validate" /\ q.id = c /\ q.client = t
      /\ q.pc = "store" /\ q.row = req[r].row /\ q.ok = ok
  <2>1. /\ q \in Request /\ q.op = "validate" /\ q.id = c /\ q.client = t
        /\ q.pc = "store" /\ q.row = req[r].row /\ q.ok = ok
    BY <1>3 DEF Request
  <2> QED BY <2>1, Bounds
<1>5. req'[r] = q /\ \A x \in Requests \ {r} : req'[x] = req[x]
  BY <1>1 DEF IInv, TypeOK
<1>6. req' = [req EXCEPT ![r] = q]
  BY <1>1
<1> HIDE DEF q
<1>7. proven \subseteq proven' /\ (ok => <<req[r].row.bank, req[r].row.creds>> \in proven')
  BY <1>1
<1>8. TypeOK'
  <2>1. proven' \subseteq Banks \X Payloads
    BY <1>1, <1>3 DEF Row, IInv, TypeOK
  <2>2. probes' \in [Conns -> 0..(MaxValidationAttempts + 1)]
    BY <1>1, Bounds DEF IInv, TypeOK
  <2> QED BY <1>2, <1>4, <1>6, <2>1, <2>2 DEF IInv, TypeOK
<1>9. \A x \in Requests : RequestOK(x)'
  <2>1. RequestOK(r)'
    BY <1>0, <1>3, <1>4, <1>5, <1>7 DEF RequestOK, AttemptsAfter
  <2> QED BY <1>5, <1>7, <2>1, OtherRequests
<1>10. RowOK(c)'
  <2>1. CASE ~Visible(c, t)
    <3>1. req'[r].client = t /\ probes' = probes
      BY <1>1, <1>4, <1>5, <2>1
    <3> QED BY <1>2, <1>5, <1>7, <2>1, <3>1, Unreached
  <2>2. CASE Visible(c, t)
    <3> SUFFICES ASSUME c \notin overlapped PROVE RowOK(c)'
      BY <1>2 DEF RowOK
    <3>1. r \in Effective(c) /\ connections[c] # NoRow /\ connections[c].client = t
      BY <1>0, <2>2, Going DEF Visible
    <3>2. StageOK(c, req[r]) /\ (\A x \in Effective(c) : x = r) /\ ~ResetPending(c)
      BY <1>3, <3>1, LastOne
    <3>3. Effective(c)' \subseteq {r}
      BY <1>2, <1>5, <3>2 DEF Effective, InFlight, Visible
    <3>4. /\ connections[c].attempts = AttemptsAfter(req[r]) /\ probes[c] <= req[r].row.attempts
          /\ connections[c].bank = req[r].row.bank /\ connections[c].creds = req[r].row.creds
      BY <1>2, <1>3, <3>2 DEF StageOK
    <3>5. probes'[c] <= connections[c].attempts
      <4>1. probes[c] \in Nat /\ req[r].row.attempts \in Nat
        BY <1>0, Going, Bounds DEF IInv, TypeOK
      <4>2. probes'[c] \in {probes[c], probes[c] + 1}
        BY <1>1 DEF IInv, TypeOK
      <4> QED BY <3>4, <4>1, <4>2 DEF AttemptsAfter
    <3>6. ~ResetPending(c)'
      BY <1>4, <1>5, <3>3 DEF ResetPending, Effective
    <3>7. ~Untested(c)
      BY <3>1 DEF IInv, RowOK
    <3>8. StageOK(c, req[r])'
      BY <1>2, <1>4, <1>5, <3>4 DEF StageOK, AttemptsAfter
    <3>9. ~Untested(c)'
      BY <1>2, <1>7, <3>2, <3>7 DEF Untested
    <3> QED BY <1>2, <3>3, <3>5, <3>8, <3>9 DEF RowOK
  <2> QED BY <2>1, <2>2
<1>11. \A d \in Conns \ {c} : RowOK(d)'
  <2>1. \A d \in Conns \ {c} : probes'[d] = probes[d]
    BY <1>1 DEF IInv, TypeOK
  <2> QED BY <1>2, <1>4, <1>5, <1>7, <2>1, OtherRows
<1> QED BY <1>8, <1>9, <1>10, <1>11 DEF IInv

LEMMA StorePreserves ==
  ASSUME IInv, NEW r \in Requests, ValidateStores(r)
  PROVE  IInv'
<1>0. req[r] # Idle
  BY DEF ValidateStores
<1> PICK c \in Conns, t \in Tenants : c = req[r].id /\ t = req[r].client
  BY <1>0, Going
<1> DEFINE n == AttemptsAfter(req[r])
           s == IF req[r].ok THEN "active" ELSE "failed"
<1>1. req[r].pc = "store" /\ UpdateBankConnectionStatus(c, t, s, n)
      /\ req' = [req EXCEPT ![r] = Idle] /\ UNCHANGED <<proven, probes, overlapped, faults>>
  BY DEF ValidateStores, Reply
<1>2. RequestOK(r) /\ req[r].op = "validate" /\ n \in Attempts
  <2>1. RequestOK(r) /\ req[r].op = "validate" /\ req[r].row.attempts \in Nat
    BY <1>0, <1>1, Going DEF RequestOK, Request
  <2> QED BY <1>0, <2>1, Bounds DEF RequestOK, Attempts, AttemptsAfter
<1>3. /\ connections' \in [Conns -> Row \cup {NoRow}]
      /\ \A d \in Conns \ {c} : connections'[d] = connections[d]
      /\ ~Visible(c, t) => connections' = connections
      /\ Visible(c, t) =>
           /\ connections'[c] # NoRow /\ connections'[c].client = t
           /\ connections'[c].bank = connections[c].bank /\ connections'[c].creds = connections[c].creds
           /\ connections'[c].status = s /\ connections'[c].attempts = n
  <2>1. s \in Status
    BY DEF Status
  <2> HIDE DEF n, s
  <2> QED BY <1>1, <1>2, <2>1, StatusRow DEF IInv
<1>4. TypeOK'
  BY <1>1, <1>3 DEF IInv, TypeOK
<1>5. req'[r] = Idle /\ \A x \in Requests \ {r} : req'[x] = req[x]
  BY <1>1 DEF IInv, TypeOK
<1>6. \A x \in Requests : RequestOK(x)'
  BY <1>1, <1>5, OtherRequests DEF RequestOK
<1>7. RowOK(c)'
  <2>1. CASE ~Visible(c, t)
    BY <1>1, <1>3, <1>5, <2>1, Unreached
  <2>2. CASE Visible(c, t)
    <3> SUFFICES ASSUME c \notin overlapped PROVE RowOK(c)'
      BY <1>1 DEF RowOK
    <3>1. r \in Effective(c) /\ connections[c] # NoRow /\ connections[c].client = t
      BY <1>0, <2>2, Going DEF Visible
    <3>2. StageOK(c, req[r]) /\ ~ResetPending(c)
      BY <1>2, <3>1, LastOne
    <3>3. Effective(c)' = {}
      BY <1>1, <1>3, <2>2, <3>1, Deserted
    <3>4. probes[c] <= n
      BY <1>1, <3>1, <3>2 DEF IInv, RowOK, StageOK
    <3>5. s = "active" => <<connections'[c].bank, connections'[c].creds>> \in proven
      BY <1>0, <1>1, <1>2, <1>3, <2>2, <3>2 DEF RequestOK, StageOK
    <3> QED BY <1>1, <1>3, <2>2, <3>3, <3>4, <3>5 DEF RowOK, Untested
  <2> QED BY <2>1, <2>2
<1>8. \A d \in Conns \ {c} : RowOK(d)'
  BY <1>1, <1>3, <1>5, OtherRows
<1> QED BY <1>4, <1>6, <1>7, <1>8 DEF IInv

LEMMA AbandonPreserves ==
  ASSUME IInv, NEW r \in Requests, Abandon(r)
  PROVE  IInv'
<1>0. req[r] # Idle
  BY DEF Abandon
<1> PICK c \in Conns : c = req[r].id
  BY <1>0, Going
<1>1. /\ faults < MaxFaults /\ faults' = faults + 1 /\ overlapped' = overlapped \cup {c}
      /\ req' = [req EXCEPT ![r] = Idle] /\ UNCHANGED <<connections, proven, probes>>
  BY DEF Abandon, Reply
<1>2. req'[r] = Idle /\ \A x \in Requests \ {r} : req'[x] = req[x]
  BY <1>1 DEF IInv, TypeOK
<1>3. TypeOK'
  <2>1. faults' \in 0..MaxFaults
    BY <1>1, Bounds DEF IInv, TypeOK
  <2> QED BY <1>1, <2>1 DEF IInv, TypeOK
<1>4. \A x \in Requests : RequestOK(x)'
  BY <1>1, <1>2, OtherRequests DEF RequestOK
<1>5. RowOK(c)'
  BY <1>1 DEF RowOK
<1>6. \A d \in Conns \ {c} : RowOK(d)'
  BY <1>1, <1>2, OtherRows
<1> QED BY <1>3, <1>4, <1>5, <1>6 DEF IInv

LEMMA Initially == Init => IInv
<1> SUFFICES ASSUME Init PROVE IInv
  OBVIOUS
<1>1. TypeOK
  BY Bounds DEF Init, TypeOK
<1> QED BY <1>1 DEF Init, IInv, RequestOK, RowOK

LEMMA NextPreserves ==
  ASSUME IInv, [Next]_vars
  PROVE  IInv'
<1>1. CASE UNCHANGED vars
  BY <1>1 DEF vars, IInv, TypeOK, RequestOK, RowOK, StageOK, Effective, InFlight, Visible,
              AttemptsAfter, ResetPending, Untested
<1>2. CASE Next
  <2>1. PICK r \in Requests :
          \/ CreateBankConnection(r) \/ UpdateBankConnection(r) \/ DeleteConnection(r)
          \/ ValidateBankConnection(r) \/ Handle(r) \/ Abandon(r)
    BY <1>2 DEF Next
  <2> QED BY <2>1, CreatePreserves, UpdatePreserves, DeletePreserves, ValidatePreserves, ResetPreserves,
             MarkPreserves, TestPreserves, StorePreserves, AbandonPreserves DEF Handle
<1> QED BY <1>1, <1>2

(* The inductive invariant: until requests overlap on a connection, one      *)
(* request at most reaches its row, the row still holds what that request    *)
(* read, and the probes of the stored credentials are within the counter.    *)
THEOREM ConnectionInvariant == Spec => []IInv
<1>1. IInv /\ [Next]_vars => IInv'
  BY NextPreserves
<1> QED BY <1>1, Initially, PTL DEF Spec

(* A connection whose requests never overlapped, and were never cut short,   *)
(* is active only with credentials its bank's validator accepted: the reset  *)
(* of UpdateBankConnection (settings.go) is not lost to a validation.        *)
THEOREM ActiveCredentialsTested == Spec => []ActiveWasTested
<1>1. IInv => ActiveWasTested
  BY DEF IInv, RowOK, Untested, ActiveWasTested
<1> QED BY <1>1, ConnectionInvariant, PTL

(* Its stored validation_attempts is at least the number of times its stored *)
(* credentials were tried, so they are tried MaxValidationAttempts times at  *)
(* most.                                                                     *)
THEOREM AttemptsCounted == Spec => []AttemptsAreCounted
<1>1. ASSUME IInv PROVE AttemptsAreCounted
  <2> SUFFICES ASSUME NEW c \in Conns, connections[c] # NoRow, c \notin overlapped
               PROVE  /\ probes[c] <= MaxValidationAttempts
                      /\ ~ResetPending(c) => probes[c] <= connections[c].attempts
    BY DEF AttemptsAreCounted
  <2>1. RowOK(c) /\ (~ResetPending(c) => probes[c] <= connections[c].attempts)
    BY <1>1 DEF IInv, RowOK
  <2>2. probes[c] \in Nat /\ connections[c] \in Row
    BY <1>1, Bounds DEF IInv, TypeOK
  <2>3. CASE ~ResetPending(c)
    BY <2>1, <2>2, <2>3, Bounds DEF Row, Attempts
  <2>4. CASE ResetPending(c)
    <3>1. PICK r \in Effective(c) : req[r].pc = "reset"
      BY <2>4 DEF ResetPending, Effective
    <3>2. r \in Requests /\ req[r] # Idle
      BY <3>1 DEF Effective, InFlight
    <3>3. req[r].op = "update" /\ StageOK(c, req[r])
      BY <1>1, <2>1, <3>1, <3>2 DEF IInv, RequestOK, RowOK
    <3>4. probes[c] = 0
      BY <3>3 DEF StageOK
    <3> QED BY <2>4, <3>4, Bounds
  <2> QED BY <2>1, <2>3, <2>4
<1> QED BY <1>1, ConnectionInvariant, PTL
=============================================================================
