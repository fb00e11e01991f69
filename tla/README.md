# PaymentsHub in TLA+

PaymentsHub takes payment orders from client systems over HTTP, checks them,
groups them into runs that an operator approves, submits them to banks, and
follows them until the bank has paid or refused them. Two processes, the API
(`cmd/api`) and the worker (`cmd/worker`), share one PostgreSQL database;
River, a job queue inside that database, carries work from one to the other.

The code's typical procedure is: read a row, test the copy, `UPDATE ... WHERE
id = $1`, insert an event. Each of these is a statement of its own, there are
almost no transactions and no conditional updates, and up to twenty job slots
and any number of HTTP requests run at once. What can go wrong lies between the
statements, so every module here makes **each database statement and each bank
call a step of its own** and keeps the copy a goroutine works on in its frame.

## 1. Inventory

| Component | State | Operations | What makes it correct |
|---|---|---|---|
| Payment status machine (`domain/payment`) | `payments.status` | the transition table | only legal moves; terminal states stay |
| Operator actions (`app/runs.go`) | rows, events | hold, unhold, cancel, reject, reschedule | nothing they store lets unapproved money out |
| Worker jobs (`adapters/queue/jobs.go`) | rows, events, River job and attempt | prevalidate, submit PIX | one order per payment under lost answers and retries |
| Reconciliation (`reconcile.go`) | rows, events | list SENT, poll, store | verdicts are noticed; status agrees with the bank |
| Bank webhook (`handlers/webhooks.go`) | rows, events | find by reference, store verdict | the same; idempotent |
| Runs (`app/runs.go`, `domain/run`, `handlers/runs.go`) | run row, items, totals | create, attach, detach, approve, submit | totals are those of approved items; submitted once |
| Grouping (`autorun.go`) | run rows, items | list PREVALIDATED, create, attach | every payment is grouped eventually |
| Ingress (`app/receive_payment.go`, `handlers/payments.go`) | payments, events, idempotency keys | create under an Idempotency-Key | one payment per key; what was acknowledged is whole |
| Rules engine (`app/preanalysis.go`) and its settings (`handlers/admin.go`) | limits, duplicate rules, blacklist; sums over payments | evaluate; set limits and rules, add entries | limits, duplicates and blacklist hold although jobs evaluate at once |
| Bank HTTP client (`bankcore`, `itau/rest`) | breaker, token cache, calls in flight | send with retries | tokens are valid when used, but for two slow answers in a row; an outage ends |
| Bank adapters (`itau`, `bb`, `bradesco`, `btg`, `caixa`, `inter`, `santander`, `sicoob`) | – | send, poll, prevalidate | the bank's word becomes the hub's status; the amount is exact |
| Bank connections (`handlers/settings.go`, `validators.go`) | connection row, attempts | create, update, delete, validate | `active` means these credentials were validated |
| SFTP (`itau/sftp/remote.go`) | shared SSH session | upload, download, list, retry | no session is lost; a reported upload is whole |
| CNAB 240 (`itau/cnab`) | records | encode, decode, look up occurrences | what is decoded is what was encoded; a record of another width goes nowhere |
| Client webhooks (`queue/webhook.go`) | delivery rows | deliver, back off | DELIVERED is final |
| Authentication, other administration, frontend, platform | – | per request | – |

**Interactions.** Ingress creates rows the worker prevalidates, with the rules
engine and the bank's DICT; grouping and operators put PREVALIDATED rows into
runs; approving a run turns its rows into APPROVED; the submit job turns those
into SUBMITTING, orders them at the bank through an adapter and the bank client,
and stores SENT or SETTLED; webhook and reconciliation turn SENT into SETTLED or
FAILED. Everything meets in `payments.status` and `payments.bank_reference`.

**What is wired.** `cmd/worker` runs the jobs with Itau's REST client only. The
registry with the other adapters, the SFTP transfer, the CNAB encoder and the
client-webhook worker are complete code that no process starts yet; the first
three are modelled as they would be called, the last is not modelled.

**Hard behaviours.** Stale copies (every writer), half-done sequences (status
stored, event not; payment stored, idempotency row not), bank answers lost after
the bank has acted, at-least-once jobs, duplicated, late or missing
notifications, check-then-act on runs and connections, list limits that hide
rows, sums read by several jobs at once, a session and a token shared by many
calls. They are listed with their lines under `hazards` in `PROJECT.json`.

## 2. Modules

| Module | Models | Extends |
|---|---|---|
| `PaymentStatus` | status sets and the transition tables of payments and runs | – |
| `PaymentLifecycle` | rows, goroutines, jobs, webhook, reconciliation, bank | `PaymentStatus` |
| `Payout` | abstract: what the hub promises about money | – |
| `RunApproval` | runs, items, approval, submit, reschedule, grouping | `PaymentStatus` |
| `Ingress` | `POST /v1/payments` and its idempotency | – |
| `PreAnalysis` | the rules engine's queries, and the settings they read | – |
| `BankClient` | breaker, token cache and retries over one shared client | – |
| `BankAdapters` | the eight adapters as operators: words, references, amounts | – |
| `BankGateways` | payments driven through those adapters | `BankAdapters` |
| `BankValidators` | the eight credential validators as operators | – |
| `BankConnection` | the settings endpoints over the connection rows | `BankValidators` |
| `SftpSession` | transfers over one shared, rebuilt SSH session | – |
| `Cnab` | remessa and return file | – |
| `*_proofs` (seven) | invariants and refinements, proved | the module, `TLAPS` |
| `ItauFiles_proofs` | the same for the two halves of Itau's file channel | `SftpSession`, `Cnab`, `TLAPS` |
| `MC*` | instances for TLC | the modules |

Definitions whose names contain an underscore (`PolledAs_ForgetsRefusal`,
`SegmentB_LongCep`, ...) are deliberate mutations of the definition before the
underscore, kept next to it: each property is accompanied by one mutation that
TLC finds it to catch. They are not used by any specification.

### PaymentLifecycle

`status`, `bankRef` and `trail` are columns of `payments` and the latest row of
`payment_events`; `notified` counts the BANK events; `job`, `attempt` are River's
rows; `orders`, `verdict` are the bank; `granted` is a history variable (payments
some run approval stored APPROVED). `frame[a]` is a goroutine: its procedure
(`op`), where it is (`at`), the payment, the status and reference it is about to
store, and the rest of the loop.

A writer goes `write` (`WriteStatus`, the UPDATE that looks at the id only and
COALESCEs the reference), then `log` (`LogEvent`), then wherever `AfterEvent` of
its procedure says: the prevalidation to the gateway, the submission to the send,
loops to the next item, a job to `Complete`. The first test of a procedure is the
guard of the action that starts it, on the row as it is then; nothing looks at
the row again.

* `SubmitPix` and `Prevalidate` make only their *first* hop conditional: a
  submission whose payment is no longer APPROVED still goes on to `SendPix`, as
  in `jobs.go`.
* `SendPixFails` and `SendPix` separate "answer lost after the order was booked"
  from "never arrived"; the retry presents the same idempotency key.
* `HandleItau` covers any number of deliveries at any time after the bank has
  decided, also none. A notification that finds no SENT row with its reference
  changes nothing, so it is no step.
* `Poll` handles one payment of the pass; `PollSkips` is a pending answer or a
  failed query.
* `SubmitToBank` is what the run's submission leaves on its payments: one audit
  event each, with the status they have (the run itself is in `RunApproval`).
* `Crash`, `UpdateFails`, `EventFails` are the faults, with what each procedure
  does about them: operators and jobs give up, the cron continues, the event's
  error is mostly discarded, and the prevalidation ignores the failed UPDATE of
  its REJECTED and UNDER_REVIEW outcomes.

`Endpoints` switches operations on and off per run. Assumptions about what is
outside the source: the bank keeps one order per `x-id-idempotente` key and
decides it once; River re-runs a failed attempt until `MaxAttempts`; jobs are
enqueued as the design says (nothing in the repository enqueues them):
prevalidations for RECEIVED, submissions for APPROVED payments. The rules
engine's and DICT's verdicts are nondeterministic here (`PreAnalysis`,
`BankAdapters` decide them), and so is the conflict of a reschedule
(`RescheduleConflict`), which `RunApproval` decides by the run.

### RunApproval

`itemOf` is `payment_run_items` (UNIQUE on the payment makes it a function);
`counters[r]` is the set of payments that `total_items`, `pix_count`, `ted_count`
and `total_amount` add up, so the four are one; `approved` and `submitted` are
history. An approval reads the run, lists the items, updates them one by one in
any order, stores the run and then its totals; a failed test or statement ends it
where it stands. Submit is one conditional transaction and one step. The
reschedule's check and its commit are two steps: the SELECT takes no lock.
`ListPaymentsByStatus` is the query of the grouping job: the newest rows, grouped
ones included. `Fresh` lets the job reuse an empty run nobody holds: a bounded
set of ids would otherwise be used up by the empty runs the job creates.
`disturbed` is history too: whether two requests of the behaviour overlapped or one
failed. Event inserts are `PaymentLifecycle`'s subject and left out.

### Ingress

`rows`, `events`, `snapshot` are the three inserts of `ReceivePayment.Execute`,
`answers` remembers what clients were told. A lookup that *fails* counts as a
miss in the code and so here. Validation precedes all of this and changes
nothing; a body that fails it never becomes a request of the model.
`expires_at` is stored and never read, so a key lasts for ever.

### PreAnalysis

`payments` are the rows, `limits`, `rules` and `blacklist` the three settings
tables, `job[p]` the prevalidation of a payment: the next statement, the row it
read last, its verdict. `Evaluate` to `FindsDuplicates` are the rules in the
code's order, each query a step; the limits are read again by every rule and the
sums after them, so an administrator (`SetClientLimits`, `SetDuplicateRule`,
`AddBlacklistEntry`), a cancel, a reschedule or another payment can come between.
`RescheduleReads` and `ReschedulePayment` are an operator's reschedule, its test
and its transaction: it makes the row PREVALIDATED whatever it has become since,
and asks no rule. A payment's own row is in the sums, and its amount is added once more, as in the code. `Tick`
moves the clock; `Day` and `Month` are the periods of `CURRENT_DATE`. `judged`,
`covered`, `retuned`, `disturbed` are history: when the verdict was stored, which
documents were blacklisted on arrival, which clients' settings changed under
their payments, which payments were canceled before their verdict, were moved by
a reschedule or had a failing statement.

### BankClient

One client, its gobreaker and its token source. A call (`Do`) is admitted by the
breaker and holds all its attempts: `token` (waits for the mutex), `fetch` and
`issued` (hold it, before and after the bank has issued the token), `send`,
`backoff`; `current` says whether the breaker has changed state
since it was admitted, for then its result is ignored. A tick is 30 seconds: the
HTTP timeout, the margin before a token's expiry and the open time of the
circuit are one tick each, its interval two. `token.left` is the client's view of
the token's remaining life and `token.real` the bank's: the bank's runs from
`Issue`, the client's from `Fetch`, when the answer has been read. `slow` says that
a tick passed in between. `Revoke` ends the bank's view at once.
`itau/rest` holds a second copy of the client and of the token source; both are
mapped.

### BankAdapters and BankGateways

`BankAdapters` gives each adapter its three operations, with the words its
`switch` lists; `formatValor` is the decimal string of an amount, read back by
`Centavos`. `ItauNotifies` is the list of the webhook, which differs from the
adapter's. `PaidWords` and `RefusedWords`, the banks' vocabularies, are external: of
each bank they have the words that *any* part of the code takes for final, so
that a part may meet a word it does not know. What is checked is that no part
takes a word for another outcome than the others do, not that a bank's manual was
read correctly.
`BankGateways` drives payments through them: `Book` and `BookAnswers` are the bank,
`Lose` drops an answer, `HandleItau` is a notification, and a payment's workers
store what the adapter made of an answer, late as it may be. Any bank's answer may
lack the order's id. Races between the workers are `PaymentLifecycle`'s subject.

### BankValidators and BankConnection

The eight validators are operators over the parts a credentials payload has and
the answer of the token endpoint. `connections` are the rows; a request in `req`
holds the row it read and goes `reset` (the second statement of an update), or
`mark`, `test`, `store` (a validation). Every statement names the row by id and
client, so a request of another tenant changes nothing. `proven`, `probes` and
`overlapped` are history: credentials a bank accepted, validations of the stored
credentials, and connections on which requests overlapped or were cut short.
Creating a connection is one insert and one step.

### SftpSession

`cached` is `r.client`, `mu` whoever dials or waits under the mutex, `conn` the SSH
connections, `call` a goroutine in `withRetry`. The mutex guards the cache, not the
transfers, so `Reconnect` closes the session under whoever transfers on it. A
connection may break or go `silent`: the server answers nothing on it, and since
only the TCP dial has a deadline, a handshake (`Hangs`), the Getwd or Close of
`WaitsForSilent` or a transfer then waits until the connection is dropped
(`Drops`, `HandshakeDropped`), which nothing promises. `ReportsMissing` is any
request of an upload or a download answered with "does not exist": `withRetry`
tries nothing again then. `met`, `cut` and `alone` are history: faults a call met,
sessions others closed under it, whether nobody else wrote its path.

### Cnab

A record is its width and its cells with their positions; what no decoder reads
has only a width. `FileHeader` to `FileTrailer` list the encoder's fields in
order, neighbours that nobody reads as one cell with the sum of their widths.
The document type of a segment B, and Service and Forma of a batch header, have the
width the caller gave them (`DocumentType`, `forma`): the encoder does not pad
them. `writeLines` writes up to the first record that is not 240 wide and stops
there. `Num` keeps the last digits, `AmountCeiling` standing for 10^15. Our numbers
need not be unique: an external id is optional, and cut to 20 characters.
`Decode` cuts by the decoder's offsets and gets `Garbled` where they do not
meet a cell. `BankAnswers` writes up to `MaxCodes` occurrence codes, in any order,
orders in any order. `LookupOccurrence`, a table and one loop, is not modelled:
nothing in the exchange calls it.

### Payout

Four facts about money: a payment is granted, ordered at most once, the bank
decides an order once, and a claim the hub makes is the bank's decision (it may
be withdrawn by a stale writer, never falsified). `PaymentLifecycle` implements
it with `claim` read off the status column, `BankGateways` with the verdict read
off the bank's word.

## 3. Runs

| Run | Instance | Shows |
|---|---|---|
| `lifecycle_races` | 1 payment, 2 keys, 1 request, 2 worker slots, 1 fault, 2 attempts | `IInv`, `OrderWasGranted`, `StatusAgreesWithBank`, `OneOrderPerPayment`, `SentIsTraceable`, `ImplementsPayout` |
| `lifecycle_reconcile` | 1 payment, 1 slot, no webhook, every operator action, `FairSpec` | `VerdictIsNoticed` |
| `runs_races` | 2 payments, 1 run, 2 requests + grouping, 1 fault | `UndisturbedIInv`; and of histories without overlap or fault `TotalsMatchItems`, `SubmittedOnce` |
| `runs_grouping` | 2 payments, list limit 2, `FairSpec` | `EventuallyGrouped` |
| `ingress_replays` | 3 requests, 2 keys, 2 bodies, 1 fault | `IInv`, `SameKeySamePayment`, `AckedIsWhole` |
| `connections` | 1 connection, 2 requests, a bank with and one without validator, 1 abandoned request, `FairSpec` | `IInv`, `ActiveWasTested`, `AttemptsAreCounted`, `ValidatingEnds` |
| `bank_client` | 2 calls, 2 attempts, trips after 2, 1 trouble, `FairSpec` | `IInv`, `ValidOnArrival`, `CallsEnd`, `Recovers` |
| `gateways` | 1 payment at each of 8 banks, 4 amounts, 2 faults | `IInv`, `AmountIsExact`, `AdaptersKeepPayout` |
| `preanalysis` | 2 payments, 1 client, midnight, 1 fault, 2 settings | `LimitsIInv`, `LimitsHold`, `TwinsAreFlagged`, `BlacklistHolds` |
| `sftp` | 2 callers, 1 path, 3 connections, 2 attempts, 2 faults, `FairSpec` | `IInv`, `NoOrphanSession`, `UploadedIsWhole`, `FailuresAreCaused`, `TransfersEnd` |
| `cnab` | 3 payments, 2 of one number, 4 codes, 2 per order | `RecordsAreWhole`, `RowsAreTheAnswers` |
| `div_webhook` | two deliveries at once | `NotificationAppliedOnce` violated |

Run one with `tlc -config lifecycle_races.cfg MCPaymentLifecycle`.

**Bounds and why they are enough.** The rows of two payments interact only
through idempotency keys and the lists of a loop, so races are explored on one
payment, with a second key no payment owns. Two worker slots are what it takes
for a submission and a reconciliation, or two jobs of a payment, to overlap; the
third party is the API request. `MaxAttempts = 2` has a retry and a discard.
`MaxFaults = 1` puts one crash or failed statement at every point; the invariants
proved hold for any number. `lifecycle_races` leaves out hold, reject,
reschedule and the run's submission, whose stale writes are like cancel's and
unhold's; `lifecycle_reconcile` has them. `runs_races` has two requests, so an
approval can race another approval, an attach, a detach, a reschedule or a hold,
with the grouping job on top; a single run suffices because a payment is in one
run at a time. In `runs_grouping` the list limit equals the number of payments:
with a limit below the backlog the property is false (see 5). `notified`,
`submitted` saturate at 2, the first value that matters.

Two of everything is what a race takes in the other modules: two payments whose
sums hold each other, two calls of which one trips the breaker under the other,
two transfers of which one closes the other's session, two requests on one
connection. `bank_client` has two attempts and two failures instead of five: what
matters is the first, the last and a change of state in between. A token lives
three ticks, more than its margin and less than a behaviour. In `preanalysis` the
single limit is 3 and the daily and monthly ones are 5: of the amounts 2, 3 and 4
the last is too large, one 3 counted twice exceeds the day, a single 2 fits and
two of them do not. Its one fault is a failing statement, a cancelation or a
reschedule. The amounts of `gateways` have no, one and two digits of centavos. Three SFTP
connections cover one cached and two that callers still hold. `cnab` has an amount
beyond its ceiling, two payments of one number, one without a document type, and a
batch header that fits and one that does not.

Deadlock is checked in `sftp` only, where a call can always begin: elsewhere every
process may be idle with nothing left to do. Symmetry (goroutines of one pool,
interchangeable ids) is used in runs without liveness only.

**Fairness.** A goroutine that has started takes its next step (`WF` on
`Step(a)`, `Handle(r)`): Go's scheduler and the database see to it, and these
runs have no faults or except the requests they hit. The periodic jobs get strong
fairness: River enqueues them every two and five minutes and fetches in order, so
whenever there is something to list again and again, a pass lists it. `SF` on
`Poll`: the bank does not fail the query of a payment for ever. `SF` on the steps
of `BankClient` and `SftpSession` calls: they compete for a mutex, and Go's mutex
starves nobody. An HTTP request ends with its timeout; an SFTP request has none, so
nothing is assumed of a silent server, and `TransfersEnd` is about behaviours in
which none stays silent. `BankClient` also assumes that payments keep coming, without which
nothing would probe an open circuit. Nothing is assumed about operators,
clients, notifications or the bank's decision.

## 4. Proofs

All theorems are checked by TLAPS for every value of the constants that the named
assumptions allow: keys are unique, null values differ from real ones, the pools
of goroutines are disjoint, bounds are naturals, limits and amounts are numbers.
Each module's properties are conjuncts of, or follow from, an inductive invariant
`IInv`, which TLC checks in the module's run and the proof module derives action
by action. Two modules have a second, larger one that contains it
(`UndisturbedIInv`, `LimitsIInv`); their runs check that one. That of `Cnab`,
`CnabInv`, is in its proof module, and its run checks what follows from it.

**PaymentLifecycle.** The properties are not inductive: the danger is a status on
its way from a goroutine's frame into the row. `IInv` therefore says of every
pending write what the property says of the row (`WriteOK` beside `RowOK`, both
through `Vouched`), that a submission in progress is of a granted payment, that a
listed reference is the payment's own order, that orders sit under their
payment's own key (`BankOK`), and that a submit job in River's table is of a
granted payment (`JobsOK`). The reason it survives interleaving is one lemma,
`FrameMonotone`: orders and grants only grow and a verdict is final, so a
justification, however old, stays true. Then one lemma per group of actions.
`Justified` is the invariant; from it `TypeCorrect`, `BankAgreement`
(`StatusAgreesWithBank`, for row and trail), `SentTraceable`, `NoDoubleOrder`
(`OneOrderPerPayment`) and `OrdersGranted` (`OrderWasGranted`). `Refinement` is `ImplementsPayout`:
each step is a step of `Payout` or a stutter.

**RunApproval.** `TotalsWereApproved` proves `CountedWereApproved` under any
interleaving and any fault, from `RunInvariant`: at each point of an approval the
items it has visited are stored in `approved` (`FrameOK`), which is what makes
the totals it stores at the end safe although the items may have changed since.
`UndisturbedInvariant` is about the behaviours where no two requests overlap and
none fails: what a request has read still is so (`FrameUndisturbed`), because the
only step that can come between its statements is a bank submit, which needs an
APPROVED run and so meets at most an approval that has stored APPROVED and not
yet its totals. Hence `RunUndisturbed`: totals are those of the
items or an approval is about to store them; a run not yet EXECUTING was never
submitted. `TotalsAreTheItems` (`TotalsMatchItems`) and `RunsSubmitOnce`
(`SubmittedOnce`) follow. No step ends a disturbance (`StaysDisturbed`), so the
invariant says nothing of what follows one.

**Ingress.** `IngressInvariant`, then `OnePaymentPerKey`, `AckedPaymentsAreWhole`
and `MismatchesAreReal` (409 is only answered to a different body). The idea:
UNIQUE gives a key one row, hence one builder; as long as that builder has not
finished, nobody else can make the event or the idempotency row.

**PreAnalysis.** `PreAnalysisInvariant`, then `TwinsFlagged` and `BlacklistStands`,
for any number of jobs. Of two equal payments judged within the window, the one
that runs its duplicate query later finds the other's row, which is there from
its insert and counts until it is refused or canceled; so at most one passes,
although neither sees the other's verdict. For the blacklist: a document covered
on arrival stays covered, and no path of a job to a pass skips that query. A
reschedule skips all rules; a payment it has moved is in `rescheduled`, and in
`disturbed` if its status changed, and the properties leave it out.

`LimitsInvariant` is about the sums: the payments of a client whose jobs have a
limit's rule behind them (`Beyond`: at a later rule, or cleared), received in one
period and in it still, are within that limit together (`LimitsOK`). A job
joins them by a sum over every row of its client that is neither refused nor
canceled, its own included; whoever joined before has such a row, so the larger
sum bounds the smaller one (`SumJoined`). Every other step leaves a set as it is
or takes payments out of it (`SumStays`): a cancelation, or the clock. A change
of settings exempts the client (`retuned`) unless it had no payments.
`LimitsStand` (`LimitsHold`) follows, since what passed is among the cleared.
The sums are the community module's fold, which picks elements by `CHOOSE`.
What is needed of it is proved first: a sum exists (`SumExists`), the fold
computes it whatever the order (`TotalIsSum`), it grows with its set
(`TotalGrows`) and depends on its own rows only (`TotalOfSame`). Each is an
induction over the subsets of a finite set. The library states that principle
with an operator parameter, which none of SMT, Zenon and LS4 can instantiate;
`SubsetInduction` states it with a set `G` of the good subsets, and gets it from
the well-foundedness of the strict subset ordering: a smallest subset outside
`G` would have all of its own subsets in `G`.

**BankClient.** `ClientInvariant`, then `TokensAreValid` (`ValidOnArrival`). The
client counts a token's life from when it has read the answer, so its view runs
ahead of the bank's by the time of that answer, a tick at most (`slow`): HTTP
requests end within one (`waited`). The margin pays for one tick, the token's answer
or the request that carries the token, not for both. `HealthyStaysClosed`: of a bank
that works, issues its tokens promptly and accepts its orders the breaker counts no
failure and never opens.

**BankGateways.** `GatewaysInvariant`: what is stored of a payment, and each answer
in flight, is the bank's own word on the payment's own order
(`NotificationIsHonest`: also what a notification is taken for). From it
`AmountsAreExact` (reading back `formatValor` gives every amount, not only the
four of the run), `UnknownKeysUnpaid` and `AdaptersImplementPayout`.

**BankConnection.** `ConnectionInvariant`: as long as requests on a connection have
not overlapped, one request at most can reach its row, and it knows what the row
holds. `ActiveCredentialsTested` and `AttemptsCounted` follow.

**SftpSession.** `SessionInvariant`: which connections are not closed and who may
still close them, who waits under the mutex and for what, what a call has left on its path (`BlocksOK`), and that its attempts
never exceed the faults and cuts it met (`CallOK`, `CausesOK`). From it
`NoSessionIsLost`, `UploadsAreWhole`, `FailuresHaveCauses`.

**Cnab** (in `ItauFiles_proofs`, beside `SftpSession`: the two halves of one
channel; the names `CnabInit`, `CnabSpec`, ... keep them apart). First what the
records are. `Record` adds up the widths of its cells by recursion; for any cells
that recursion has a solution (`EndExists`, by induction up to a number, `UpTo`,
with a set in place of the library's operator parameter), so a cut at a cell's
own bytes returns that cell and a cut where none begins returns nothing written
(`RecordHolds`). One lemma per record then computes its ends: `SegmentA` is 240
wide and holds batch, number and amount where the decoder looks, and no other record has an "A" there (`FileHeaderIs` ...
`SegmentAIs`); the batch header and segment B are 240 wide exactly when what is not
padded fits; the bank's codes leave the bytes before 230 alone (`AnsweredIs`).
`ExchangeInvariant` proves `CnabInv`: what stopped the encoder, and in a file that
was not given up every order is followed by a line that is none, so in the return
answers stand at every second position (`ReturnedOK`), and the number of rows
tells where `Decode` is, up to one line (`RowsOK`). `FilesAreWhole`
(`RecordsAreWhole`) and `RowsAnswer` (`RowsAreTheAnswers`) follow, for files of any
length, any numbers and codes, and any amounts as their field holds them.

**Only model-checked.** Everything under fairness (`VerdictIsNoticed`,
`EventuallyGrouped`, `ValidatingEnds`, `CallsEnd`, `Recovers`, `TransfersEnd`): out
of the prover's reach.

## 5. Where code and documents disagree

Kept as a run, with the quoted line in `PROJECT.json`: two simultaneous deliveries
of one bank notification are both applied (`div_webhook`).

Met while modelling, or seen in the same models, and not kept as runs:

* Payments. A CANCELED row is overwritten by a worker's older copy. Two operator
  requests on copies of one row can store a move the table forbids.
  `ReschedulePayment` stores PREVALIDATED from RECEIVED, ON_HOLD or UNDER_REVIEW,
  moves the table does not have. Status and event are not in one transaction: the
  trail may stay behind the row (what it says of the bank is true all the same). A
  submission whose attempts run out leaves its payment SUBMITTING; the design has
  FAILED.
* Runs. An approval that meets a canceled item leaves the items before it APPROVED
  in a run that can never be approved. Two approvals around a submit let the run
  be submitted twice. A payment can enter (attach) or leave (reschedule) a run
  approved after the check; `CountedWereApproved` bounds the damage.
* Grouping. A run is created on every pass that lists anything, also when all of
  it is grouped; and behind a full page of newer grouped payments an older one is
  never listed (set `ListLimit = 1` in `runs_grouping.cfg`).
* Ingress. A crash between payment and idempotency row turns the client's retry
  into a 500 for good.
* Rules engine. `preanalysis.go:34` says the most restrictive verdict wins; the
  first rule that triggers decides. A failing read of the limits counts as no
  limits configured. `ReschedulePayment` (`runs.go:255`) takes a payment past every
  rule, blacklist included, and past a rejection stored after it read the row.
* Connections. A late successful validation marks replaced credentials active,
  and overlapping validations use up one attempt.
* Bank client. The expiry is computed when the token's answer has been read
  (`token.go:115`): an answer and a request of together more than 30 seconds carry
  an expired token to the bank, whose 401 the breaker counts as a failure.
* Adapters. Only Itau's tests for an answer without an order id; the others
  store SENT with no reference, which the reconciliation skips. The webhook takes
  LIQUIDADO for final (`webhooks.go:92`); Itau's poll does not know it and leaves
  the payment SENT.
* CNAB. `occurrences.go:14` says unknown codes default to REJECT; an unknown code
  in a packed field reads as OK. Its comment has AE, AI and AJ pending, its table
  REJECT. `DocumentType`, `Service` and `Forma` are written unpadded
  (`encoder.go:71-72`, `140`): a segment B without document type is 239 bytes and is
  refused when its segment A is in the file already. An amount of 10^15 cents and
  more loses its first digits (`fields.go:25`).
* SFTP. The transfer says it is safe for concurrent use, yet a retry closes the
  session under the others, which then fail through no fault of their own.
  Handshake, Getwd and requests have no deadline, the first two under the mutex
  (`remote.go:100`, `134`), so a silent server stops every transfer;
  `SessionTimeout` is stored and never used.

## 6. Not modelled

* Client webhooks: `cmd/worker` does not register the worker and nothing inserts a
  delivery, so no execution of the program reaches it.
* Authentication, API keys, users, tenants; administration other than limits,
  duplicate rules and blacklist; branding and the read endpoints: one statement
  per request, nothing interleaves.
* `domain/payment/rules.go` (documents, PIX keys, dates): pure validation that no
  production code calls.
* CNAB's occurrence lookup, normalisation of text and the file status of
  `domain/cnab`, which nothing drives; `LocalFileTransfer` and the shutdown hook of the SFTP transfer.
* Paths, headers and JSON names of the bank requests.
* `from_status` and the payload of events; the expiry of idempotency keys, which
  nothing tests; the reconciliation's list limit of 500 (its kin is modelled in
  `RunApproval`); CLOSED and PARTIALLY_SETTLED runs, which no code stores; the
  CNAB job, a stub that logs.

## 7. Plan

Done: the payment core (`PaymentLifecycle`, `Payout`), runs, ingress, the rules
engine, the bank client, adapters, connections, SFTP and CNAB, each with its run
and its proofs. Left, in this order:

1. `RunApproval` composed with `PaymentLifecycle`, so that the run decides
   `RescheduleConflict` and the grant comes from the approval loop.
2. The rules of `domain/payment/rules.go` as operators against a reference
   definition, once something calls them.
3. The outbound webhook worker (delivery rows, back-off, a late attempt over
   DELIVERED), once it is wired.
