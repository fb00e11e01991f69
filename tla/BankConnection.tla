--------------------------- MODULE BankConnection ---------------------------
(* A tenant's bank connections: their credentials, the validation that makes *)
(* them active, and the limit on validation attempts. Every handler is a     *)
(* sequence of statements without a transaction; requests interleave between *)
(* any two of them, and a client that disconnects (r.Context() is canceled)  *)
(* or a process that dies ends a request after any of them.                  *)
EXTENDS Naturals, BankValidators

CONSTANTS Tenants, Banks, Conns, Requests,
          Payloads,                 \* the credentials clients send
          MaxValidationAttempts,    \* 3 in the code
          MaxFaults,                \* bound: requests cut short
          NoRow, Idle

VARIABLES
  connections,  \* the table bank_connections, by id
  req,          \* each request in flight: what it has read and what it does next
  proven,       \* <<bank, payload>> a validation found good
  probes,       \* validations of a connection's stored credentials so far (at most one past the limit)
  overlapped,   \* connections on which two requests were in flight at once, or one was cut short
  faults

vars == <<connections, req, proven, probes, overlapped, faults>>

Status == {"draft", "validating", "active", "failed"}
Attempts == 0..MaxValidationAttempts
Row == [client : Tenants, bank : Banks, creds : Payloads, status : Status, attempts : Attempts]
Request == [op : {"update", "validate"}, client : Tenants, id : Conns,
            pc : {"reset", "mark", "test", "store"}, row : Row, ok : BOOLEAN]

ASSUME ConnectionAssumption ==
  /\ MaxValidationAttempts \in Nat \ {0}
  /\ MaxFaults \in Nat
  /\ NoRow \notin Row
  /\ Idle \notin Request

Init ==
  /\ connections = [c \in Conns |-> NoRow]
  /\ req = [r \in Requests |-> Idle]
  /\ proven = {}
  /\ probes = [c \in Conns |-> 0]
  /\ overlapped = {}
  /\ faults = 0

-----------------------------------------------------------------------------
(* The statements. All of them but the insert name the row by id and client. *)

Visible(c, t) == connections[c] # NoRow /\ connections[c].client = t

\* UNIQUE (client_id, bank_code); the new row has the column defaults.
InsertBankConnection(c, t, b, creds) ==
  /\ \A d \in Conns : Visible(d, t) => connections[d].bank # b
  /\ connections' = [connections EXCEPT ![c] =
       [client |-> t, bank |-> b, creds |-> creds, status |-> "draft", attempts |-> 0]]

\* Every part of the payload and the nonce are replaced together.
UpdateBankConnectionCredentials(c, t, creds) ==
  connections' = IF Visible(c, t) THEN [connections EXCEPT ![c].creds = creds] ELSE connections

UpdateBankConnectionStatus(c, t, status, attempts) ==
  connections' = IF Visible(c, t)
                 THEN [connections EXCEPT ![c].status = status, ![c].attempts = attempts]
                 ELSE connections

GetBankConnection(c, t) == IF Visible(c, t) THEN connections[c] ELSE NoRow

DeleteBankConnection(c, t) ==
  connections' = IF Visible(c, t) THEN [connections EXCEPT ![c] = NoRow] ELSE connections

-----------------------------------------------------------------------------
(* The handlers.                                                             *)

InFlight(c) == {r \in Requests : req[r] # Idle /\ req[r].id = c}

\* Bookkeeping of the properties: a request about c begins to have an effect.
Overlaps(c, r) == overlapped' = IF InFlight(c) \ {r} # {} THEN overlapped \cup {c} ELSE overlapped

Continue(r, q) == req' = [req EXCEPT ![r] = q]
Reply(r) == req' = [req EXCEPT ![r] = Idle]

\* Ids are fresh (uuid.New).
CreateBankConnection(r) ==
  \E t \in Tenants, b \in Banks, c \in Conns, creds \in Payloads :
    /\ req[r] = Idle
    /\ connections[c] = NoRow /\ InFlight(c) = {}
    /\ InsertBankConnection(c, t, b, creds)
    /\ probes' = [probes EXCEPT ![c] = 0]
    /\ overlapped' = overlapped \ {c}
    /\ UNCHANGED <<req, proven, faults>>

\* The first of two statements: no row is not an error.
UpdateBankConnection(r) ==
  \E t \in Tenants, c \in Conns, creds \in Payloads :
    /\ req[r] = Idle
    /\ connections[c] # NoRow
    /\ UpdateBankConnectionCredentials(c, t, creds)
    /\ Continue(r, [op |-> "update", client |-> t, id |-> c, pc |-> "reset",
                    row |-> connections[c], ok |-> FALSE])
    /\ IF Visible(c, t)
       THEN probes' = [probes EXCEPT ![c] = 0] /\ Overlaps(c, r)
       ELSE UNCHANGED <<probes, overlapped>>
    /\ UNCHANGED <<proven, faults>>

\* Mutant. The status is not reset.
UpdateResetsStatus_Forgotten(r) ==
  /\ req[r] # Idle /\ req[r].pc = "reset"
  /\ Reply(r)
  /\ UNCHANGED <<connections, proven, probes, overlapped, faults>>

\* "Reset status to draft after credential change".
UpdateResetsStatus(r) ==
  /\ req[r] # Idle /\ req[r].pc = "reset"
  /\ UpdateBankConnectionStatus(req[r].id, req[r].client, "draft", 0)
  /\ Reply(r)
  /\ UNCHANGED <<proven, probes, overlapped, faults>>

DeleteConnection(r) ==
  \E t \in Tenants, c \in Conns :
    /\ req[r] = Idle
    /\ connections[c] # NoRow
    /\ DeleteBankConnection(c, t)
    /\ UNCHANGED <<req, proven, probes, overlapped, faults>>

\* Mutant. attempts > max is tested before the increment.
LimitReached_BeforeIncrement(bc) == bc.attempts > MaxValidationAttempts

LimitReached(bc) == bc.attempts + 1 > MaxValidationAttempts

\* Reads the row; not found and the limit answer at once.
ValidateBankConnection(r) ==
  \E t \in Tenants, c \in Conns :
    /\ req[r] = Idle
    /\ LET bc == GetBankConnection(c, t) IN
         /\ bc # NoRow
         /\ ~LimitReached(bc)
         /\ Continue(r, [op |-> "validate", client |-> t, id |-> c, pc |-> "mark", row |-> bc, ok |-> FALSE])
    /\ Overlaps(c, r)
    /\ UNCHANGED <<connections, proven, probes, faults>>

\* Mutant. Only failures are counted.
AttemptsAfter_NotCounted(q) == q.row.attempts

AttemptsAfter(q) == q.row.attempts + 1

ValidateMarks(r) ==
  /\ req[r] # Idle /\ req[r].pc = "mark"
  /\ UpdateBankConnectionStatus(req[r].id, req[r].client, "validating", AttemptsAfter(req[r]))
  /\ Continue(r, [req[r] EXCEPT !.pc = "test"])
  /\ UNCHANGED <<proven, probes, overlapped, faults>>

\* Decryption, the choice of the validator and its verdict on the copy read
\* at the start. A bank without a validator is a failure like any other.
ValidateTests(r) ==
  /\ req[r] # Idle /\ req[r].pc = "test"
  /\ LET q == req[r] IN \E answer \in Answer :
       LET ok == q.row.bank \in AllValidators /\ Accepts(q.row.bank, q.row.creds, answer) IN
         /\ Continue(r, [q EXCEPT !.pc = "store", !.ok = ok])
         /\ proven' = IF ok THEN proven \cup {<<q.row.bank, q.row.creds>>} ELSE proven
         /\ probes' = IF Visible(q.id, q.client) /\ connections[q.id].creds = q.row.creds
                         /\ probes[q.id] <= MaxValidationAttempts
                      THEN [probes EXCEPT ![q.id] = @ + 1] ELSE probes
  /\ UNCHANGED <<connections, overlapped, faults>>

\* Mutant. A failing check leaves the connection as it was marked.
ValidateStores_OnlySuccess(r) ==
  /\ req[r] # Idle /\ req[r].pc = "store"
  /\ LET q == req[r] IN
       IF q.ok THEN UpdateBankConnectionStatus(q.id, q.client, "active", AttemptsAfter(q))
               ELSE UNCHANGED connections
  /\ Reply(r)
  /\ UNCHANGED <<proven, probes, overlapped, faults>>

ValidateStores(r) ==
  /\ req[r] # Idle /\ req[r].pc = "store"
  /\ LET q == req[r] IN
       UpdateBankConnectionStatus(q.id, q.client, IF q.ok THEN "active" ELSE "failed", AttemptsAfter(q))
  /\ Reply(r)
  /\ UNCHANGED <<proven, probes, overlapped, faults>>

\* The client disconnects or the process dies: no later statement succeeds.
Abandon(r) ==
  /\ faults < MaxFaults
  /\ req[r] # Idle
  /\ faults' = faults + 1
  /\ overlapped' = overlapped \cup {req[r].id}
  /\ Reply(r)
  /\ UNCHANGED <<connections, proven, probes>>

Handle(r) ==
  \/ UpdateResetsStatus(r)
  \/ ValidateMarks(r)
  \/ ValidateTests(r)
  \/ ValidateStores(r)

Next ==
  \E r \in Requests :
    \/ CreateBankConnection(r)
    \/ UpdateBankConnection(r)
    \/ DeleteConnection(r)
    \/ ValidateBankConnection(r)
    \/ Handle(r)
    \/ Abandon(r)

Spec == Init /\ [][Next]_vars

\* A request that was received goes on until it is answered.
FairSpec == Spec /\ \A r \in Requests : WF_vars(Handle(r))

-----------------------------------------------------------------------------
(* Properties.                                                               *)

TypeOK ==
  /\ connections \in [Conns -> Row \cup {NoRow}]
  /\ req \in [Requests -> Request \cup {Idle}]
  /\ proven \subseteq Banks \X Payloads
  /\ probes \in [Conns -> 0..(MaxValidationAttempts + 1)]
  /\ overlapped \subseteq Conns
  /\ faults \in 0..MaxFaults

ResetPending(c) == \E r \in InFlight(c) : req[r].pc = "reset" /\ Visible(c, req[r].client)

Untested(c) ==
  /\ connections[c] # NoRow
  /\ connections[c].status = "active"
  /\ <<connections[c].bank, connections[c].creds>> \notin proven
  /\ ~ResetPending(c)

\* As long as the requests about a connection do not overlap and none is cut
\* short, it is active only with credentials a validation of its bank found
\* good: the reset of UpdateBankConnection is never lost to a validation.
ActiveWasTested == \A c \in Conns : Untested(c) => c \in overlapped

\* Without overlap the stored counter is the number of times the stored
\* credentials were tried, so no more than MaxValidationAttempts are: the
\* counter is read in one statement and stored in another.
AttemptsAreCounted ==
  \A c \in Conns : connections[c] # NoRow /\ c \notin overlapped =>
    /\ probes[c] <= MaxValidationAttempts
    /\ ~ResetPending(c) => probes[c] <= connections[c].attempts

\* A validation does not leave the connection validating for ever, unless a
\* request was cut short.
ValidatingEnds ==
  \A c \in Conns :
    (connections[c] # NoRow /\ connections[c].status = "validating" /\ faults = 0)
      ~> (connections[c] = NoRow \/ connections[c].status # "validating" \/ faults > 0)

-----------------------------------------------------------------------------
(* Why it holds: the inductive invariant behind the two invariants above.    *)

\* The requests whose statements reach c's row: a tenant's own.
Effective(c) == {r \in InFlight(c) : Visible(c, req[r].client)}

RequestOK(r) ==
  req[r] # Idle =>
    /\ req[r].op = "update" <=> req[r].pc = "reset"
    /\ req[r].op = "validate" => AttemptsAfter(req[r]) <= MaxValidationAttempts
    /\ req[r].pc = "store" /\ req[r].ok => <<req[r].row.bank, req[r].row.creds>> \in proven

\* Where a request is, and what it read, accounts for the row and its probes.
StageOK(c, q) ==
  /\ q.op = "update" => probes[c] = 0
  /\ q.op = "validate" => connections[c].bank = q.row.bank /\ connections[c].creds = q.row.creds
  /\ q.pc = "mark" => connections[c].attempts = q.row.attempts
  /\ q.pc \in {"test", "store"} => connections[c].attempts = AttemptsAfter(q)
  /\ q.pc = "test" => probes[c] <= q.row.attempts

RowOK(c) ==
  connections[c] # NoRow /\ c \notin overlapped =>
    /\ \A r1, r2 \in Effective(c) : r1 = r2
    /\ \A r \in Effective(c) : StageOK(c, req[r])
    /\ ~ResetPending(c) => probes[c] <= connections[c].attempts
    /\ ~Untested(c)

\* The inductive invariant: as long as requests do not overlap there is one
\* that can reach a row, and it knows what the row holds.
IInv ==
  /\ TypeOK
  /\ \A r \in Requests : RequestOK(r)
  /\ \A c \in Conns : RowOK(c)
=============================================================================
