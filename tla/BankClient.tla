----------------------------- MODULE BankClient -----------------------------
(* The REST client every bank adapter shares: calls of many goroutines go    *)
(* through one circuit breaker, one cached bearer token and a retry loop.    *)
(* itau/rest holds a second copy of bankcore's client and token source.      *)
(* A tick is 30 seconds: the HTTP timeout, the margin before a token's       *)
(* expiry and the time the circuit stays open; backoffs are shorter.         *)
EXTENDS Naturals

CONSTANTS Calls,            \* goroutines that use the client
          MaxRetries,       \* attempts per call (5 in the code)
          TripAfter,        \* ConsecutiveFailures that open the circuit (5)
          HalfOpenRequests, \* gobreaker's MaxRequests (2)
          Interval,         \* ticks until a closed circuit forgets its counts (2)
          OpenTime,         \* ticks the circuit stays open (1)
          Margin,           \* ticks before its expiry a token is renewed (1)
          Lifetime,         \* ticks the bank's tokens live
          MaxTroubles,      \* bound: orders the bank refuses, revocations and canceled contexts
          Idle

ASSUME ClientAssumption ==
  /\ {MaxRetries, TripAfter, HalfOpenRequests, Interval, OpenTime, Margin} \subseteq Nat \ {0}
  /\ Lifetime \in Nat /\ Lifetime > Margin
  /\ MaxTroubles \in Nat

VARIABLES
  calls,     \* each goroutine's call in progress
  breaker,   \* gobreaker's state, counts and remaining time
  token,     \* the cached token: its remaining time as the client and as the bank sees it
  up,        \* the bank works (otherwise: 5xx, 429, no answer)
  troubles,
  healthy    \* the bank has been up, issued its tokens promptly, and no trouble occurred

vars == <<calls, breaker, token, up, troubles, healthy>>

\* current: the call belongs to the breaker's generation; token: the remaining
\* life of the token it carries; slow: that token was on its way for a tick;
\* waited: a tick passed since its HTTP request or backoff began.
Call == [order : {"good", "refused"}, pc : {"token", "fetch", "issued", "send", "backoff"},
         attempt : 1..MaxRetries, token : 0..Lifetime, slow : BOOLEAN,
         current : BOOLEAN, waited : BOOLEAN]

CachedToken == [left : 0..Lifetime, real : 0..Lifetime, slow : BOOLEAN]

Breaker == [state : {"closed", "open", "half-open"}, failures : 0..(TripAfter - 1),
            successes : 0..(HalfOpenRequests - 1), requests : 0..HalfOpenRequests,
            left : 0..(Interval + OpenTime)]

Counts(state, left) == [state |-> state, failures |-> 0, successes |-> 0, requests |-> 0, left |-> left]

Init ==
  /\ calls = [c \in Calls |-> Idle]
  /\ breaker = Counts("closed", Interval)
  /\ token = [left |-> 0, real |-> 0, slow |-> FALSE]
  /\ up = TRUE
  /\ troubles = 0
  /\ healthy = TRUE

InFlight == {c \in Calls : calls[c] # Idle}

-----------------------------------------------------------------------------
(* sony/gobreaker. A change of state starts a generation: the results of the *)
(* calls that were admitted before are ignored.                              *)

Outdated(cs) == [c \in Calls |-> IF cs[c] = Idle THEN Idle ELSE [cs[c] EXCEPT !.current = FALSE]]

SetState(state, left, cs) == breaker' = Counts(state, left) /\ calls' = Outdated(cs)

Admits == \/ breaker.state = "closed"
          \/ breaker.state = "half-open" /\ breaker.requests < HalfOpenRequests

\* The call c ends with a result (nil error or not).
Finish(c, ok) ==
  LET cs == [calls EXCEPT ![c] = Idle]
      closes == breaker.state = "half-open" /\ breaker.successes + 1 >= HalfOpenRequests
      trips == breaker.state = "half-open" \/ breaker.failures + 1 >= TripAfter
  IN \/ /\ ~calls[c].current
        /\ calls' = cs /\ UNCHANGED breaker
     \/ /\ calls[c].current /\ ok /\ closes
        /\ SetState("closed", Interval, cs)
     \/ /\ calls[c].current /\ ok /\ ~closes
        /\ breaker' = [breaker EXCEPT !.failures = 0,
                         !.successes = IF breaker.state = "half-open" THEN @ + 1 ELSE 0]
        /\ calls' = cs
     \/ /\ calls[c].current /\ ~ok /\ trips
        /\ SetState("open", OpenTime, cs)
     \/ /\ calls[c].current /\ ~ok /\ ~trips
        /\ breaker' = [breaker EXCEPT !.failures = @ + 1, !.successes = 0]
        /\ calls' = cs

-----------------------------------------------------------------------------
(* Client.Do, doWithRetry and TokenSource.Token.                             *)

Step(c, pc) == calls' = [calls EXCEPT ![c].pc = pc, ![c].waited = FALSE]

\* ErrOpenState and ErrTooManyRequests are returned at once: such a call
\* leaves no trace.
Do(c, order) ==
  /\ calls[c] = Idle
  /\ Admits
  /\ order = "refused" => troubles < MaxTroubles
  /\ troubles' = IF order = "refused" THEN troubles + 1 ELSE troubles
  /\ healthy' = (healthy /\ order = "good")
  /\ breaker' = IF breaker.state = "half-open" THEN [breaker EXCEPT !.requests = @ + 1] ELSE breaker
  /\ calls' = [calls EXCEPT ![c] = [order |-> order, pc |-> "token", attempt |-> 1, token |-> 0,
                                    slow |-> FALSE, current |-> TRUE, waited |-> FALSE]]
  /\ UNCHANGED <<token, up>>

\* ts.mu is held until the token endpoint has answered.
Fetching(c) == c \in InFlight /\ calls[c].pc \in {"fetch", "issued"}
Locked == \E d \in Calls : Fetching(d)

\* Mutant. No margin before the expiry.
Fresh_NoMargin == token.left > 0

\* Mutant. An expired token is taken for a cached one.
Fresh_Expired == Fresh_NoMargin \/ token.real = 0

Fresh == token.left > Margin

Token(c) ==
  /\ c \in InFlight /\ calls[c].pc = "token"
  /\ ~Locked
  /\ IF Fresh THEN calls' = [calls EXCEPT ![c].pc = "send", ![c].token = token.real,
                                           ![c].slow = token.slow, ![c].waited = FALSE]
              ELSE Step(c, "fetch")
  /\ UNCHANGED <<breaker, token, up, troubles, healthy>>

\* The bank issues a token: its life begins, while the answer is on its way.
Issue(c) ==
  /\ c \in InFlight /\ calls[c].pc = "fetch"
  /\ up
  /\ calls' = [calls EXCEPT ![c].pc = "issued", ![c].token = Lifetime]
  /\ UNCHANGED <<breaker, token, up, troubles, healthy>>

\* The answer has been read: the client counts expires_in from now.
Fetch(c) ==
  LET slow == calls[c].token < Lifetime IN
  /\ c \in InFlight /\ calls[c].pc = "issued"
  /\ up
  /\ token' = [left |-> Lifetime, real |-> calls[c].token, slow |-> slow]
  /\ calls' = [calls EXCEPT ![c].pc = "send", ![c].slow = slow, ![c].waited = FALSE]
  /\ healthy' = (healthy /\ ~slow)
  /\ UNCHANGED <<breaker, up, troubles>>

\* Mutant. The mutex stays locked when the token endpoint fails.
FetchFails_KeepsLock(c) ==
  /\ Fetching(c)
  /\ ~up
  /\ UNCHANGED vars

\* A failing token request is not retried.
FetchFails(c) ==
  /\ Fetching(c)
  /\ ~up
  /\ Finish(c, FALSE)
  /\ UNCHANGED <<token, up, troubles, healthy>>

\* 2xx, or a 4xx for the order or for an invalid token: both end the call.
Answered(c) ==
  /\ c \in InFlight /\ calls[c].pc = "send"
  /\ up
  /\ Finish(c, calls[c].order = "good" /\ calls[c].token > 0)
  /\ UNCHANGED <<token, up, troubles, healthy>>

\* Mutant. Attempts are counted from zero up to and including MaxRetries.
Unavailable_OneMore(c) ==
  /\ c \in InFlight /\ calls[c].pc = "send"
  /\ ~up
  /\ IF calls[c].attempt <= MaxRetries
     THEN /\ calls' = [calls EXCEPT ![c].pc = "backoff", ![c].attempt = @ + 1, ![c].token = 0,
                                    ![c].slow = FALSE, ![c].waited = FALSE]
          /\ UNCHANGED breaker
     ELSE Finish(c, FALSE)
  /\ UNCHANGED <<token, up, troubles, healthy>>

\* 5xx, 429 or no answer within the timeout: the next attempt, if there is one.
Unavailable(c) ==
  /\ c \in InFlight /\ calls[c].pc = "send"
  /\ ~up
  /\ IF calls[c].attempt < MaxRetries
     THEN /\ calls' = [calls EXCEPT ![c].pc = "backoff", ![c].attempt = @ + 1, ![c].token = 0,
                                    ![c].slow = FALSE, ![c].waited = FALSE]
          /\ UNCHANGED breaker
     ELSE Finish(c, FALSE)
  /\ UNCHANGED <<token, up, troubles, healthy>>

Backoff(c) ==
  /\ c \in InFlight /\ calls[c].pc = "backoff"
  /\ Step(c, "token")
  /\ UNCHANGED <<breaker, token, up, troubles, healthy>>

\* The caller's context is canceled: an error like any other to the breaker.
Canceled(c) ==
  /\ troubles < MaxTroubles
  /\ c \in InFlight /\ calls[c].pc # "token"
  /\ Finish(c, FALSE)
  /\ troubles' = troubles + 1
  /\ healthy' = FALSE
  /\ UNCHANGED <<token, up>>

-----------------------------------------------------------------------------
(* The bank and the clock.                                                   *)

BankTurns ==
  /\ up' = ~up
  /\ healthy' = FALSE
  /\ UNCHANGED <<calls, breaker, token, troubles>>

\* The bank drops its tokens before the time the client computed (it may also
\* have stated none: 15 minutes are assumed then).
Revoke ==
  /\ troubles < MaxTroubles
  /\ token.real > 0
  /\ token' = [token EXCEPT !.real = 0]
  /\ calls' = [c \in Calls |-> IF c \in InFlight THEN [calls[c] EXCEPT !.token = 0] ELSE Idle]
  /\ troubles' = troubles + 1
  /\ healthy' = FALSE
  /\ UNCHANGED <<breaker, up>>

Minus(n) == IF n = 0 THEN 0 ELSE n - 1

Waiting == {c \in InFlight : calls[c].pc # "token"}
Later == [c \in Calls |-> IF c \in InFlight
            THEN [calls[c] EXCEPT !.waited = c \in Waiting, !.token = Minus(@)] ELSE Idle]

\* HTTP requests end within a tick and backoffs are shorter than one.
Tick ==
  /\ \A c \in Waiting : ~calls[c].waited
  /\ token' = [left |-> Minus(token.left), real |-> Minus(token.real), slow |-> token.slow]
  /\ \/ breaker.state = "closed" /\ breaker.left = 1 /\ SetState("closed", Interval, Later)
     \/ breaker.state = "open" /\ breaker.left = 1 /\ SetState("half-open", 0, Later)
     \/ /\ breaker.state = "half-open" \/ breaker.left # 1
        /\ breaker' = [breaker EXCEPT !.left = Minus(@)]
        /\ calls' = Later
  /\ UNCHANGED <<up, troubles, healthy>>

Work(c) == Token(c) \/ Issue(c) \/ Fetch(c) \/ FetchFails(c) \/ Answered(c) \/ Unavailable(c) \/ Backoff(c)

Next ==
  \/ \E c \in Calls :
       \/ \E order \in {"good", "refused"} : Do(c, order)
       \/ Work(c)
       \/ Canceled(c)
  \/ BankTurns
  \/ Revoke
  \/ Tick

Spec == Init /\ [][Next]_vars

\* Time passes, a goroutine in a call goes on, the token's mutex is handed over
\* (sync.Mutex starves nobody), and payments keep coming.
FairSpec ==
  /\ Spec
  /\ WF_vars(Tick)
  /\ \A c \in Calls : WF_vars(Do(c, "good")) /\ SF_vars(Work(c))

-----------------------------------------------------------------------------
(* Properties.                                                               *)

TypeOK ==
  /\ calls \in [Calls -> Call \cup {Idle}]
  /\ breaker \in Breaker
  /\ token \in CachedToken
  /\ up \in BOOLEAN /\ healthy \in BOOLEAN
  /\ troubles \in 0..MaxTroubles

\* The margin of Token covers one HTTP timeout, not two: while the bank keeps
\* its word, a request only carries an expired token if the answer that brought
\* the token was slow and the request is slow too, whatever goroutine fetched
\* the token and however long ago.
ValidOnArrival ==
  troubles = 0 =>
    \A c \in InFlight :
      calls[c].pc = "send" /\ ~(calls[c].slow /\ calls[c].waited) => calls[c].token > 0

\* The circuit never opens on a bank that works, issues its tokens promptly and
\* accepts its orders: token renewal, retries and the clearing of the counts
\* produce no failures of their own.
HealthyNeverOpens == healthy => breaker.state = "closed" /\ breaker.failures = 0

\* Every admitted call ends: nobody waits for ever for the token's mutex.
CallsEnd == \A c \in Calls : calls[c] # Idle ~> calls[c] = Idle

\* Once the bank stays up and no slow answer brings a token any more, and after
\* finitely many refusals, revocations and canceled calls, the circuit closes
\* and stays closed; a revoked token is not served for ever.
Recovers == <>[](up /\ ~token.slow) => <>[](breaker.state = "closed")

-----------------------------------------------------------------------------
(* Why the invariants hold.                                                  *)

Extra(slow) == IF slow THEN 1 ELSE 0

\* An open circuit has no call of its own; a token is as fresh as the margin,
\* less the tick it was on its way, when it is taken, and a request lasts a tick
\* at most.
CallOK(c) ==
  /\ breaker.state = "open" => ~calls[c].current
  /\ troubles = 0 /\ calls[c].pc = "send" =>
       calls[c].token + Extra(calls[c].slow) > IF calls[c].waited THEN 0 ELSE Margin
  /\ troubles = 0 /\ calls[c].pc = "issued" => calls[c].token + Extra(calls[c].waited) >= Lifetime
  /\ healthy => calls[c].order = "good" /\ calls[c].pc # "backoff" /\ ~calls[c].slow

\* The inductive invariant.
IInv ==
  /\ TypeOK
  /\ troubles = 0 => token.real + Extra(token.slow) >= token.left
  /\ healthy => /\ up /\ troubles = 0 /\ ~token.slow
               /\ breaker.state = "closed" /\ breaker.failures = 0
  /\ \A c \in InFlight : CallOK(c)
=============================================================================
