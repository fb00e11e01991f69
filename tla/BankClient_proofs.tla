-------------------------- MODULE BankClient_proofs --------------------------
(* Proofs about BankClient, for any number of goroutines, any limits of the  *)
(* retries and of the circuit breaker, and any lifetime and margin of the    *)
(* tokens.                                                                   *)
EXTENDS BankClient, TLAPS

Cells == [Calls -> Call \cup {Idle}]

LEMMA Constants ==
  /\ MaxRetries \in Nat \ {0} /\ TripAfter \in Nat \ {0} /\ HalfOpenRequests \in Nat \ {0}
  /\ Interval \in Nat \ {0} /\ OpenTime \in Nat \ {0} /\ Margin \in Nat \ {0}
  /\ Lifetime \in Nat /\ Lifetime > Margin /\ MaxTroubles \in Nat
BY ClientAssumption

LEMMA Running ==
  ASSUME TypeOK, NEW c \in Calls, calls[c] # Idle
  PROVE  /\ calls[c] \in Call /\ c \in InFlight
         /\ calls[c].attempt \in 1..MaxRetries /\ calls[c].token \in 0..Lifetime
<1>1. calls[c] \in Call
  BY DEF TypeOK
<1> QED BY <1>1 DEF Call, InFlight

(* A new generation only takes current away.                                 *)
LEMMA OutdatedCells ==
  ASSUME NEW cs \in Cells
  PROVE  /\ Outdated(cs) \in Cells
         /\ \A d \in Calls : Outdated(cs)[d] # Idle =>
              /\ cs[d] # Idle /\ ~Outdated(cs)[d].current
              /\ Outdated(cs)[d].order = cs[d].order /\ Outdated(cs)[d].pc = cs[d].pc
              /\ Outdated(cs)[d].token = cs[d].token /\ Outdated(cs)[d].waited = cs[d].waited
              /\ Outdated(cs)[d].slow = cs[d].slow
<1>1. ASSUME NEW d \in Calls
      PROVE  /\ Outdated(cs)[d] \in Call \cup {Idle}
             /\ Outdated(cs)[d] # Idle =>
                  /\ cs[d] # Idle /\ ~Outdated(cs)[d].current
                  /\ Outdated(cs)[d].order = cs[d].order /\ Outdated(cs)[d].pc = cs[d].pc
                  /\ Outdated(cs)[d].token = cs[d].token /\ Outdated(cs)[d].waited = cs[d].waited
                  /\ Outdated(cs)[d].slow = cs[d].slow
  <2>1. CASE cs[d] = Idle
    BY <2>1 DEF Outdated
  <2>2. CASE cs[d] # Idle
    <3>1. cs[d] \in Call
      BY <2>2 DEF Cells
    <3>2. Outdated(cs)[d] = [cs[d] EXCEPT !.current = FALSE]
      BY <2>2 DEF Outdated
    <3> QED BY <2>2, <3>1, <3>2 DEF Call
  <2> QED BY <2>1, <2>2
<1>2. Outdated(cs) = [d \in Calls |-> Outdated(cs)[d]]
  BY DEF Outdated
<1> QED BY <1>1, <1>2 DEF Cells

LEMMA CountsTyped ==
  ASSUME NEW state \in {"closed", "open", "half-open"}, NEW left \in 0..(Interval + OpenTime)
  PROVE  /\ Counts(state, left) \in Breaker
         /\ Counts(state, left).state = state /\ Counts(state, left).failures = 0
BY Constants DEF Counts, Breaker

(* What the end of a call does to the other calls and to the breaker.        *)
LEMMA FinishDoes ==
  ASSUME TypeOK, NEW c \in InFlight, NEW ok \in BOOLEAN, Finish(c, ok),
         breaker.state = "open" => ~calls[c].current
  PROVE  /\ calls' \in Cells /\ breaker' \in Breaker
         /\ \A d \in Calls : calls'[d] # Idle =>
              /\ d # c /\ calls[d] # Idle /\ (calls'[d].current => calls[d].current)
              /\ calls'[d].order = calls[d].order /\ calls'[d].pc = calls[d].pc
              /\ calls'[d].token = calls[d].token /\ calls'[d].waited = calls[d].waited /\ calls'[d].slow = calls[d].slow
              /\ breaker'.state = "open" => breaker.state = "open" \/ ~calls'[d].current
         /\ ok /\ breaker.state = "closed" /\ breaker.failures = 0 =>
              breaker'.state = "closed" /\ breaker'.failures = 0
<1> DEFINE cs == [calls EXCEPT ![c] = Idle]
<1>1. c \in Calls /\ calls[c] # Idle /\ calls[c] \in Call /\ breaker \in Breaker
  BY Running DEF InFlight, TypeOK
<1>2. cs \in Cells /\ cs[c] = Idle /\ \A d \in Calls \ {c} : cs[d] = calls[d]
  BY <1>1 DEF TypeOK, Cells
<1>3. calls[c].current \in BOOLEAN /\ breaker.state \in {"closed", "open", "half-open"}
  BY <1>1 DEF Call, Breaker
<1>4. ASSUME NEW state \in {"closed", "open", "half-open"}, NEW left \in 0..(Interval + OpenTime),
             SetState(state, left, cs)
      PROVE  /\ calls' \in Cells /\ breaker' \in Breaker /\ breaker'.state = state /\ breaker'.failures = 0
             /\ \A d \in Calls : calls'[d] # Idle =>
                  /\ d # c /\ calls[d] # Idle /\ ~calls'[d].current
                  /\ calls'[d].order = calls[d].order /\ calls'[d].pc = calls[d].pc
                  /\ calls'[d].token = calls[d].token /\ calls'[d].waited = calls[d].waited /\ calls'[d].slow = calls[d].slow
  <2>1. calls' = Outdated(cs) /\ breaker' = Counts(state, left)
    BY <1>4 DEF SetState
  <2> HIDE DEF cs
  <2> QED BY <1>2, <2>1, OutdatedCells, CountsTyped
<1>5. CASE ~calls[c].current
  <2>1. calls' = cs /\ breaker' = breaker
    BY <1>5 DEF Finish
  <2> QED BY <1>1, <1>2, <2>1
<1>6. CASE calls[c].current /\ ok /\ breaker.state = "half-open" /\ breaker.successes + 1 >= HalfOpenRequests
  <2>1. SetState("closed", Interval, cs)
    BY <1>6 DEF Finish
  <2>2. Interval \in 0..(Interval + OpenTime)
    BY Constants
  <2> HIDE DEF cs
  <2> QED BY <1>4, <2>1, <2>2
<1>7. CASE calls[c].current /\ ok /\ ~(breaker.state = "half-open" /\ breaker.successes + 1 >= HalfOpenRequests)
  <2> DEFINE n == IF breaker.state = "half-open" THEN breaker.successes + 1 ELSE 0
  <2>1. calls' = cs /\ breaker' = [breaker EXCEPT !.failures = 0, !.successes = n]
    BY <1>1, <1>7 DEF Finish, Breaker
  <2>2. n \in 0..(HalfOpenRequests - 1) /\ 0 \in 0..(TripAfter - 1)
    BY <1>1, <1>7, Constants DEF Breaker
  <2>3. breaker' \in Breaker /\ breaker'.state = breaker.state /\ breaker'.failures = 0
    <3> HIDE DEF n
    <3> QED BY <1>1, <2>1, <2>2 DEF Breaker
  <2> HIDE DEF cs
  <2> QED BY <1>2, <2>1, <2>3
<1>8. CASE calls[c].current /\ ~ok /\ (breaker.state = "half-open" \/ breaker.failures + 1 >= TripAfter)
  <2>1. SetState("open", OpenTime, cs)
    BY <1>8 DEF Finish
  <2>2. OpenTime \in 0..(Interval + OpenTime)
    BY Constants
  <2> HIDE DEF cs
  <2> QED BY <1>4, <1>8, <2>1, <2>2
<1>9. CASE calls[c].current /\ ~ok /\ ~(breaker.state = "half-open" \/ breaker.failures + 1 >= TripAfter)
  <2>0. breaker.failures + 1 \in 0..(TripAfter - 1) /\ 0 \in 0..(HalfOpenRequests - 1)
    BY <1>1, <1>9, Constants DEF Breaker
  <2>1. calls' = cs /\ breaker' = [breaker EXCEPT !.failures = breaker.failures + 1, !.successes = 0]
    BY <1>1, <1>9 DEF Finish, Breaker
  <2>2. breaker' \in Breaker /\ breaker'.state = breaker.state
    BY <1>1, <1>9, <2>0, <2>1 DEF Breaker
  <2> HIDE DEF cs
  <2> QED BY <1>2, <1>9, <2>1, <2>2
<1> QED BY <1>3, <1>5, <1>6, <1>7, <1>8, <1>9

(* An ending call: only a failing one may count as a trouble.                *)
LEMMA FinishPreserves ==
  ASSUME IInv, NEW c \in InFlight, NEW ok \in BOOLEAN, Finish(c, ok), UNCHANGED <<token, up>>,
         troubles' \in 0..MaxTroubles, troubles' = 0 => troubles = 0,
         healthy' \in BOOLEAN, healthy' => healthy /\ ok /\ troubles' = troubles
  PROVE  IInv'
<1>1. TypeOK /\ CallOK(c) /\ c \in Calls
  BY DEF IInv, InFlight
<1>2. /\ calls' \in Cells /\ breaker' \in Breaker
      /\ \A d \in Calls : calls'[d] # Idle =>
           /\ d # c /\ calls[d] # Idle /\ (calls'[d].current => calls[d].current)
           /\ calls'[d].order = calls[d].order /\ calls'[d].pc = calls[d].pc
           /\ calls'[d].token = calls[d].token /\ calls'[d].waited = calls[d].waited /\ calls'[d].slow = calls[d].slow
           /\ breaker'.state = "open" => breaker.state = "open" \/ ~calls'[d].current
      /\ ok /\ breaker.state = "closed" /\ breaker.failures = 0 =>
           breaker'.state = "closed" /\ breaker'.failures = 0
  BY <1>1, FinishDoes DEF CallOK
<1>3. TypeOK'
  BY <1>1, <1>2 DEF TypeOK, Cells
<1>4. ASSUME NEW d \in InFlight' PROVE CallOK(d)'
  <2>1. d \in Calls /\ calls'[d] # Idle /\ calls[d] # Idle /\ CallOK(d)
    BY <1>2 DEF InFlight, IInv
  <2> QED BY <1>2, <2>1 DEF CallOK
<1>5. troubles' = 0 => token'.real + Extra(token'.slow) >= token'.left
  BY DEF IInv
<1>6. healthy' => /\ up' /\ troubles' = 0 /\ ~token'.slow
                  /\ breaker'.state = "closed" /\ breaker'.failures = 0
  BY <1>2 DEF IInv
<1> QED BY <1>3, <1>4, <1>5, <1>6 DEF IInv

(* One call goes on, the breaker unmoved.                                    *)
LEMMA OnePreserves ==
  ASSUME IInv, NEW c \in Calls, NEW k \in Call, calls' = [calls EXCEPT ![c] = k],
         breaker' \in Breaker, breaker'.state = breaker.state, breaker'.failures = breaker.failures,
         up' = up, troubles' \in 0..MaxTroubles, troubles' = 0 => troubles = 0,
         healthy' \in BOOLEAN, healthy' => healthy /\ troubles' = troubles /\ ~token'.slow,
         token' \in CachedToken,
         troubles' = 0 => token'.real + Extra(token'.slow) >= token'.left,
         CallOK(c)'
  PROVE  IInv'
<1>1. TypeOK'
  BY DEF IInv, TypeOK
<1>2. ASSUME NEW d \in InFlight' PROVE CallOK(d)'
  <2>1. CASE d = c
    BY <2>1
  <2>2. CASE d # c
    <3>1. calls'[d] = calls[d] /\ d \in InFlight
      BY <2>2 DEF InFlight, IInv, TypeOK
    <3> QED BY <3>1 DEF CallOK, IInv
  <2> QED BY <2>1, <2>2
<1>3. healthy' => /\ up' /\ troubles' = 0 /\ ~token'.slow
                  /\ breaker'.state = "closed" /\ breaker'.failures = 0
  BY DEF IInv
<1> QED BY <1>1, <1>2, <1>3 DEF IInv

LEMMA DoPreserves ==
  ASSUME IInv, NEW c \in Calls, NEW order \in {"good", "refused"}, Do(c, order)
  PROVE  IInv'
<1> DEFINE k == [order |-> order, pc |-> "token", attempt |-> 1, token |-> 0, slow |-> FALSE,
                current |-> TRUE, waited |-> FALSE]
<1>1. k \in Call
  BY Constants DEF Call
<1>2. /\ Admits /\ (order = "refused" => troubles < MaxTroubles)
      /\ troubles' = IF order = "refused" THEN troubles + 1 ELSE troubles
      /\ healthy' = (healthy /\ order = "good")
      /\ breaker' = IF breaker.state = "half-open"
                    THEN [breaker EXCEPT !.requests = breaker.requests + 1] ELSE breaker
      /\ calls' = [calls EXCEPT ![c] = k]
      /\ UNCHANGED <<token, up>>
  BY DEF Do, IInv, TypeOK, Breaker
<1>3. breaker' \in Breaker /\ breaker'.state = breaker.state /\ breaker'.failures = breaker.failures
  <2>1. breaker \in Breaker
    BY DEF IInv, TypeOK
  <2>2. CASE breaker.state = "half-open"
    <3>1. breaker.requests + 1 \in 0..HalfOpenRequests
      BY <1>2, <2>1, <2>2, Constants DEF Admits, Breaker
    <3> QED BY <1>2, <2>1, <2>2, <3>1 DEF Breaker
  <2> QED BY <1>2, <2>1, <2>2
<1>4. troubles' \in 0..MaxTroubles /\ (troubles' = 0 => troubles = 0) /\ healthy' \in BOOLEAN
      /\ (healthy' => healthy /\ troubles' = troubles)
  <2>1. troubles \in 0..MaxTroubles /\ healthy \in BOOLEAN
    BY DEF IInv, TypeOK
  <2>2. healthy' \in BOOLEAN /\ (healthy' => healthy /\ order # "refused")
    BY <1>2, <2>1
  <2>3. CASE order = "refused"
    BY <1>2, <2>1, <2>2, <2>3, Constants
  <2>4. CASE order # "refused"
    BY <1>2, <2>1, <2>2, <2>4
  <2> QED BY <2>3, <2>4
<1>5. CallOK(c)'
  <2>1. calls'[c] = k
    BY <1>2 DEF IInv, TypeOK
  <2>2. breaker.state # "open"
    BY <1>2 DEF Admits
  <2>3. healthy' => order = "good"
    BY <1>2 DEF IInv, TypeOK
  <2> QED BY <1>3, <2>1, <2>2, <2>3 DEF CallOK
<1>6. /\ token' \in CachedToken
      /\ troubles' = 0 => token'.real + Extra(token'.slow) >= token'.left
      /\ healthy' => ~token'.slow
  BY <1>2, <1>4 DEF IInv, TypeOK
<1> HIDE DEF k
<1> QED BY <1>1, <1>2, <1>3, <1>4, <1>5, <1>6, OnePreserves

(* A call goes on and nothing else changes but, perhaps, the token.          *)
LEMMA StepPreserves ==
  ASSUME IInv, NEW c \in InFlight, NEW k \in Call, calls' = [calls EXCEPT ![c] = k],
         UNCHANGED <<breaker, up, troubles>>,
         healthy' \in BOOLEAN, healthy' => healthy /\ ~token'.slow /\ ~k.slow /\ k.pc # "backoff",
         token' \in CachedToken,
         troubles = 0 => token'.real + Extra(token'.slow) >= token'.left,
         k.current = calls[c].current, k.order = calls[c].order,
         troubles = 0 /\ k.pc = "send" => k.token + Extra(k.slow) > IF k.waited THEN 0 ELSE Margin,
         troubles = 0 /\ k.pc = "issued" => k.token + Extra(k.waited) >= Lifetime
  PROVE  IInv'
<1>1. c \in Calls /\ CallOK(c)
  BY DEF InFlight, IInv
<1>2. calls'[c] = k
  BY <1>1 DEF IInv, TypeOK
<1>3. CallOK(c)'
  BY <1>1, <1>2 DEF CallOK
<1>4. breaker' \in Breaker /\ troubles' \in 0..MaxTroubles
  BY DEF IInv, TypeOK
<1> QED BY <1>1, <1>3, <1>4, OnePreserves

(* The same, when the token stays as it is too.                              *)
LEMMA MovePreserves ==
  ASSUME IInv, NEW c \in InFlight, NEW k \in Call, calls' = [calls EXCEPT ![c] = k],
         UNCHANGED <<breaker, token, up, troubles, healthy>>,
         healthy => ~k.slow /\ k.pc # "backoff",
         k.current = calls[c].current, k.order = calls[c].order,
         troubles = 0 /\ k.pc = "send" => k.token + Extra(k.slow) > IF k.waited THEN 0 ELSE Margin,
         troubles = 0 /\ k.pc = "issued" => k.token + Extra(k.waited) >= Lifetime
  PROVE  IInv'
<1>1. /\ healthy' \in BOOLEAN /\ token' \in CachedToken /\ (healthy' => healthy /\ ~token'.slow)
      /\ troubles = 0 => token'.real + Extra(token'.slow) >= token'.left
  BY DEF IInv, TypeOK
<1> QED BY <1>1, StepPreserves

LEMMA TokenPreserves ==
  ASSUME IInv, NEW c \in Calls, Token(c)
  PROVE  IInv'
<1>1. c \in InFlight /\ calls[c].pc = "token" /\ UNCHANGED <<breaker, token, up, troubles, healthy>>
  BY DEF Token
<1>2. calls[c] \in Call /\ token \in CachedToken /\ CallOK(c)
  BY <1>1, Running DEF InFlight, IInv, TypeOK
<1>3. CASE Fresh
  <2> DEFINE k == [calls[c] EXCEPT !.pc = "send", !.token = token.real, !.slow = token.slow, !.waited = FALSE]
  <2>1. calls' = [calls EXCEPT ![c] = k]
    BY <1>1, <1>3 DEF Token, IInv, TypeOK
  <2>2. /\ k \in Call /\ k.current = calls[c].current /\ k.order = calls[c].order
        /\ k.pc = "send" /\ k.token = token.real /\ k.slow = token.slow /\ ~k.waited
    BY <1>2 DEF Call, CachedToken
  <2>3. troubles = 0 => token.real + Extra(token.slow) > Margin
    <3>1. token.left > Margin /\ (troubles = 0 => token.real + Extra(token.slow) >= token.left)
      BY <1>3 DEF Fresh, IInv
    <3>2. token.left \in Nat /\ token.real \in Nat /\ Extra(token.slow) \in Nat
      BY <1>2, Constants DEF CachedToken, Extra
    <3> QED BY <3>1, <3>2, Constants
  <2>4. healthy => ~token.slow
    BY DEF IInv
  <2> HIDE DEF k
  <2> QED BY <1>1, <2>1, <2>2, <2>3, <2>4, MovePreserves
<1>4. CASE ~Fresh
  <2> DEFINE k == [calls[c] EXCEPT !.pc = "fetch", !.waited = FALSE]
  <2>1. calls' = [calls EXCEPT ![c] = k]
    BY <1>1, <1>4 DEF Token, Step, IInv, TypeOK
  <2>2. /\ k \in Call /\ k.current = calls[c].current /\ k.order = calls[c].order /\ k.pc = "fetch"
        /\ k.slow = calls[c].slow
    BY <1>2 DEF Call
  <2>3. healthy => ~k.slow
    BY <1>2, <2>2 DEF CallOK
  <2> HIDE DEF k
  <2> QED BY <1>1, <2>1, <2>2, <2>3, MovePreserves
<1> QED BY <1>3, <1>4

LEMMA IssuePreserves ==
  ASSUME IInv, NEW c \in Calls, Issue(c)
  PROVE  IInv'
<1> DEFINE k == [calls[c] EXCEPT !.pc = "issued", !.token = Lifetime]
<1>1. c \in InFlight /\ UNCHANGED <<breaker, token, up, troubles, healthy>>
  BY DEF Issue
<1>2. calls[c] \in Call /\ CallOK(c)
  BY <1>1, Running DEF InFlight, IInv
<1>3. calls' = [calls EXCEPT ![c] = k]
  BY <1>1 DEF Issue, IInv, TypeOK
<1>4. /\ k \in Call /\ k.current = calls[c].current /\ k.order = calls[c].order
      /\ k.pc = "issued" /\ k.token = Lifetime /\ k.slow = calls[c].slow
  <2>1. Lifetime \in 0..Lifetime
    BY Constants
  <2> QED BY <1>2, <2>1 DEF Call
<1>5. Lifetime + Extra(k.waited) >= Lifetime /\ (healthy => ~k.slow)
  <2>1. Extra(k.waited) \in 0..1
    BY DEF Extra
  <2> HIDE DEF k
  <2> QED BY <1>2, <1>4, <2>1, Constants DEF CallOK
<1> HIDE DEF k
<1> QED BY <1>1, <1>3, <1>4, <1>5, MovePreserves

LEMMA FetchPreserves ==
  ASSUME IInv, NEW c \in Calls, Fetch(c)
  PROVE  IInv'
<1> DEFINE n == calls[c].token
<1>1. /\ c \in InFlight /\ calls[c].pc = "issued" /\ UNCHANGED <<breaker, up, troubles>>
      /\ calls[c] \in Call /\ CallOK(c) /\ n \in 0..Lifetime
  BY Running DEF Fetch, InFlight, IInv
<1>2. PICK slow \in BOOLEAN : slow <=> n < Lifetime
  <2> (n < Lifetime) \in BOOLEAN
    OBVIOUS
  <2> QED OBVIOUS
<1> DEFINE k == [calls[c] EXCEPT !.pc = "send", !.slow = slow, !.waited = FALSE]
<1>3. slow = (n < Lifetime)
  BY <1>2
<1>4. /\ token' = [left |-> Lifetime, real |-> n, slow |-> slow]
      /\ healthy' = (healthy /\ ~slow)
      /\ calls' = [calls EXCEPT ![c] = k]
  BY <1>1, <1>3 DEF Fetch, IInv, TypeOK
<1>5. /\ k \in Call /\ k.current = calls[c].current /\ k.order = calls[c].order
      /\ k.pc = "send" /\ k.token = n /\ k.slow = slow /\ ~k.waited
  BY <1>1 DEF Call
<1>6. token' \in CachedToken /\ token'.left = Lifetime /\ token'.real = n /\ token'.slow = slow
  BY <1>1, <1>4, Constants DEF CachedToken
<1>7. troubles = 0 => n + Extra(slow) >= Lifetime /\ n + Extra(slow) > Margin
  <2> SUFFICES ASSUME troubles = 0 PROVE n + Extra(slow) >= Lifetime
    BY <1>1, Constants DEF Extra
  <2>1. n + Extra(calls[c].waited) >= Lifetime
    BY <1>1 DEF CallOK
  <2>2. n + 1 >= Lifetime
    BY <1>1, <2>1, Constants DEF Extra
  <2> QED BY <1>1, <1>2, <2>2, Constants DEF Extra
<1>8. healthy' \in BOOLEAN /\ (healthy' => healthy /\ ~slow)
  BY <1>4 DEF IInv, TypeOK
<1> HIDE DEF k
<1> QED BY <1>1, <1>4, <1>5, <1>6, <1>7, <1>8, StepPreserves

LEMMA BackoffPreserves ==
  ASSUME IInv, NEW c \in Calls, Backoff(c)
  PROVE  IInv'
<1> DEFINE k == [calls[c] EXCEPT !.pc = "token", !.waited = FALSE]
<1>1. c \in InFlight /\ UNCHANGED <<breaker, token, up, troubles, healthy>>
  BY DEF Backoff
<1>2. calls[c] \in Call
  BY <1>1, Running DEF InFlight, IInv
<1>3. calls' = [calls EXCEPT ![c] = k]
  BY <1>1 DEF Backoff, Step, IInv, TypeOK
<1>4. /\ k \in Call /\ k.current = calls[c].current /\ k.order = calls[c].order /\ k.pc = "token"
      /\ k.slow = calls[c].slow
  BY <1>2 DEF Call
<1>5. healthy => ~k.slow
  BY <1>1, <1>4 DEF IInv, CallOK
<1> HIDE DEF k
<1> QED BY <1>1, <1>3, <1>4, <1>5, MovePreserves

LEMMA FetchFailsPreserves ==
  ASSUME IInv, NEW c \in Calls, FetchFails(c)
  PROVE  IInv'
<1>1. /\ c \in InFlight /\ ~up /\ Finish(c, FALSE) /\ UNCHANGED <<token, up, troubles, healthy>>
  BY DEF FetchFails, Fetching
<1>2. troubles' \in 0..MaxTroubles /\ healthy' \in BOOLEAN /\ ~healthy'
  BY <1>1 DEF IInv, TypeOK
<1>3. FALSE \in BOOLEAN
  OBVIOUS
<1> QED BY <1>1, <1>2, <1>3, FinishPreserves

LEMMA AnsweredPreserves ==
  ASSUME IInv, NEW c \in Calls, Answered(c)
  PROVE  IInv'
<1> DEFINE ok == calls[c].order = "good" /\ calls[c].token > 0
<1>1. /\ c \in InFlight /\ calls[c].pc = "send" /\ Finish(c, ok)
      /\ UNCHANGED <<token, up, troubles, healthy>>
  BY DEF Answered
<1>2. troubles' \in 0..MaxTroubles /\ healthy' \in BOOLEAN
  BY <1>1 DEF IInv, TypeOK
<1>3. healthy' => healthy /\ ok
  <2>1. CallOK(c) /\ calls[c].token \in 0..Lifetime
    BY <1>1, Running DEF IInv, InFlight
  <2> QED BY <1>1, <2>1, Constants DEF CallOK, IInv, Extra
<1>4. ok \in BOOLEAN
  OBVIOUS
<1> HIDE DEF ok
<1>5. PICK verdict \in BOOLEAN : verdict = ok
  BY <1>4
<1>6. Finish(c, verdict) /\ (healthy' => verdict)
  BY <1>1, <1>3, <1>5
<1> QED BY <1>1, <1>2, <1>3, <1>6, FinishPreserves

LEMMA UnavailablePreserves ==
  ASSUME IInv, NEW c \in Calls, Unavailable(c)
  PROVE  IInv'
<1>1. c \in InFlight /\ ~up /\ UNCHANGED <<token, up, troubles, healthy>>
  BY DEF Unavailable
<1>2. calls[c] \in Call /\ calls[c].attempt \in 1..MaxRetries
  BY <1>1, Running DEF InFlight, IInv
<1>3. ~healthy /\ troubles' \in 0..MaxTroubles /\ healthy' \in BOOLEAN /\ ~healthy'
  BY <1>1 DEF IInv, TypeOK
<1>4. CASE calls[c].attempt < MaxRetries
  <2> DEFINE k == [calls[c] EXCEPT !.pc = "backoff", !.attempt = calls[c].attempt + 1, !.token = 0,
                                   !.slow = FALSE, !.waited = FALSE]
  <2>1. calls' = [calls EXCEPT ![c] = k] /\ UNCHANGED breaker
    BY <1>1, <1>2, <1>4 DEF Unavailable, IInv, TypeOK, Call
  <2>2. calls[c].attempt + 1 \in 1..MaxRetries
    BY <1>2, <1>4, Constants
  <2>3. k \in Call /\ k.current = calls[c].current /\ k.order = calls[c].order /\ k.pc = "backoff"
        /\ ~k.slow
    <3>1. 0 \in 0..Lifetime
      BY Constants
    <3> QED BY <1>2, <2>2, <3>1 DEF Call
  <2> HIDE DEF k
  <2> QED BY <1>1, <1>3, <2>1, <2>3, MovePreserves
<1>5. CASE ~(calls[c].attempt < MaxRetries)
  <2>1. Finish(c, FALSE)
    BY <1>5 DEF Unavailable
  <2>2. FALSE \in BOOLEAN
    OBVIOUS
  <2> QED BY <1>1, <1>3, <2>1, <2>2, FinishPreserves
<1> QED BY <1>4, <1>5

LEMMA CanceledPreserves ==
  ASSUME IInv, NEW c \in Calls, Canceled(c)
  PROVE  IInv'
<1>1. /\ c \in InFlight /\ Finish(c, FALSE) /\ troubles < MaxTroubles /\ troubles' = troubles + 1
      /\ healthy' = FALSE /\ UNCHANGED <<token, up>>
  BY DEF Canceled
<1>2. troubles' \in 0..MaxTroubles /\ troubles' # 0
  BY <1>1, Constants DEF IInv, TypeOK
<1>3. FALSE \in BOOLEAN
  OBVIOUS
<1> QED BY <1>1, <1>2, <1>3, FinishPreserves

LEMMA BankTurnsPreserves ==
  ASSUME IInv, BankTurns
  PROVE  IInv'
<1>1. up' = ~up /\ healthy' = FALSE /\ UNCHANGED <<calls, breaker, token, troubles>>
  BY DEF BankTurns
<1>2. TypeOK'
  BY <1>1 DEF IInv, TypeOK
<1> QED BY <1>1, <1>2 DEF IInv, CallOK, InFlight

LEMMA RevokePreserves ==
  ASSUME IInv, Revoke
  PROVE  IInv'
<1>1. /\ troubles < MaxTroubles /\ troubles' = troubles + 1 /\ healthy' = FALSE /\ UNCHANGED <<breaker, up>>
      /\ token' = [token EXCEPT !.real = 0]
      /\ calls' = [d \in Calls |-> IF d \in InFlight THEN [calls[d] EXCEPT !.token = 0] ELSE Idle]
  BY DEF Revoke
<1>2. troubles' \in 0..MaxTroubles /\ troubles' # 0
  BY <1>1, Constants DEF IInv, TypeOK
<1>3. ASSUME NEW d \in Calls
      PROVE  /\ calls'[d] \in Call \cup {Idle}
             /\ calls'[d] # Idle => d \in InFlight /\ calls'[d].current = calls[d].current
  <2>1. CASE d \in InFlight
    <3>1. calls[d] \in Call /\ 0 \in 0..Lifetime
      BY <2>1, Running, Constants DEF IInv, InFlight
    <3>2. calls'[d] = [calls[d] EXCEPT !.token = 0]
      BY <1>1, <2>1
    <3> QED BY <2>1, <3>1, <3>2 DEF Call
  <2>2. CASE d \notin InFlight
    BY <1>1, <2>2
  <2> QED BY <2>1, <2>2
<1>4. TypeOK'
  <2>1. calls' \in [Calls -> Call \cup {Idle}]
    <3>1. calls' = [d \in Calls |-> calls'[d]]
      BY <1>1
    <3> QED BY <1>3, <3>1
  <2>2. token' \in CachedToken
    BY <1>1, Constants DEF IInv, TypeOK, CachedToken
  <2> QED BY <1>1, <1>2, <2>1, <2>2 DEF IInv, TypeOK
<1>5. ASSUME NEW d \in InFlight' PROVE CallOK(d)'
  <2>1. d \in InFlight /\ calls'[d].current = calls[d].current
    BY <1>3 DEF InFlight
  <2> QED BY <1>1, <1>2, <2>1 DEF CallOK, IInv
<1> QED BY <1>1, <1>2, <1>4, <1>5 DEF IInv

LEMMA TickPreserves ==
  ASSUME IInv, Tick
  PROVE  IInv'
<1>1. /\ \A d \in Waiting : ~calls[d].waited
      /\ token' = [left |-> Minus(token.left), real |-> Minus(token.real), slow |-> token.slow]
      /\ UNCHANGED <<up, troubles, healthy>>
  BY DEF Tick
<1>2. \/ breaker.state = "closed" /\ SetState("closed", Interval, Later)
      \/ breaker.state = "open" /\ SetState("half-open", 0, Later)
      \/ breaker' = [breaker EXCEPT !.left = Minus(breaker.left)] /\ calls' = Later
  BY DEF Tick
<1>3. \A n \in Nat : Minus(n) \in Nat /\ Minus(n) <= n /\ (n > 0 => Minus(n) = n - 1)
  BY DEF Minus
<1>4. token \in CachedToken /\ breaker \in Breaker
  BY DEF IInv, TypeOK
<1>5. ASSUME NEW d \in Calls
      PROVE  /\ Later[d] \in Call \cup {Idle}
             /\ Later[d] # Idle =>
                  /\ d \in InFlight /\ Later[d].current = calls[d].current
                  /\ Later[d].order = calls[d].order /\ Later[d].pc = calls[d].pc
                  /\ Later[d].pc # "token" => ~calls[d].waited
                  /\ Later[d].token = Minus(calls[d].token) /\ Later[d].slow = calls[d].slow
                  /\ Later[d].pc # "token" => Later[d].waited
  <2>1. CASE d \in InFlight
    <3>1. calls[d] \in Call /\ calls[d].token \in 0..Lifetime
      BY <2>1, Running DEF IInv, InFlight
    <3>2. Minus(calls[d].token) \in 0..Lifetime
      BY <1>3, <3>1, Constants
    <3>3. (d \in Waiting) \in BOOLEAN /\ (d \in Waiting <=> calls[d].pc # "token")
      BY <2>1 DEF Waiting
    <3>4. Later[d] = [calls[d] EXCEPT !.waited = d \in Waiting, !.token = Minus(calls[d].token)]
      BY <2>1, <3>1 DEF Later, Call
    <3>5. d \in Waiting => ~calls[d].waited
      BY <1>1
    <3> QED BY <2>1, <3>1, <3>2, <3>3, <3>4, <3>5 DEF Call
  <2>2. CASE d \notin InFlight
    BY <2>2 DEF Later
  <2> QED BY <2>1, <2>2
<1>6. Later \in Cells
  <2>1. Later = [d \in Calls |-> Later[d]]
    BY DEF Later
  <2> QED BY <1>5, <2>1 DEF Cells
<1>7. /\ calls' \in Cells
      /\ \A d \in Calls : calls'[d] # Idle =>
           /\ Later[d] # Idle /\ (calls'[d].current => Later[d].current)
           /\ calls'[d].order = Later[d].order /\ calls'[d].pc = Later[d].pc
           /\ calls'[d].token = Later[d].token /\ calls'[d].waited = Later[d].waited
           /\ calls'[d].slow = Later[d].slow
  <2>1. CASE calls' = Later
    BY <1>6, <2>1
  <2>2. CASE calls' = Outdated(Later)
    BY <1>6, <2>2, OutdatedCells
  <2> QED BY <1>2, <2>1, <2>2 DEF SetState
<1>8. /\ breaker' \in Breaker
      /\ breaker'.state = "open" => breaker.state = "open" /\ calls' = Later
      /\ breaker.state = "closed" /\ breaker.failures = 0 => breaker'.state = "closed" /\ breaker'.failures = 0
  <2>1. CASE breaker.state = "closed" /\ SetState("closed", Interval, Later)
    <3>1. Interval \in 0..(Interval + OpenTime)
      BY Constants
    <3> QED BY <2>1, <3>1, CountsTyped DEF SetState
  <2>2. CASE breaker.state = "open" /\ SetState("half-open", 0, Later)
    <3>1. 0 \in 0..(Interval + OpenTime)
      BY Constants
    <3> QED BY <2>2, <3>1, CountsTyped DEF SetState
  <2>3. CASE breaker' = [breaker EXCEPT !.left = Minus(breaker.left)] /\ calls' = Later
    <3>1. breaker.left \in 0..(Interval + OpenTime)
      BY <1>4 DEF Breaker
    <3>2. Minus(breaker.left) \in 0..(Interval + OpenTime)
      BY <1>3, <3>1, Constants
    <3> QED BY <1>4, <2>3, <3>2 DEF Breaker
  <2> QED BY <1>2, <2>1, <2>2, <2>3
<1>9. TypeOK'
  <2>1. token' \in CachedToken
    <3>1. token.left \in 0..Lifetime /\ token.real \in 0..Lifetime
      BY <1>4 DEF CachedToken
    <3>2. Minus(token.left) \in 0..Lifetime /\ Minus(token.real) \in 0..Lifetime
      BY <1>3, <3>1, Constants
    <3> QED BY <1>1, <1>4, <3>2 DEF CachedToken
  <2> QED BY <1>1, <1>7, <1>8, <2>1 DEF IInv, TypeOK, Cells
<1>10. ASSUME NEW d \in InFlight' PROVE CallOK(d)'
  <2>1. d \in Calls /\ calls'[d] # Idle /\ Later[d] # Idle
    BY <1>7 DEF InFlight
  <2>2. CallOK(d) /\ calls[d].token \in 0..Lifetime
    BY <1>5, <2>1, Running DEF IInv, InFlight
  <2>3. breaker'.state = "open" => ~calls'[d].current
    BY <1>5, <1>7, <1>8, <2>1, <2>2 DEF CallOK
  <2>4. ASSUME troubles' = 0, calls'[d].pc \in {"send", "issued"}
        PROVE  /\ calls'[d].waited
               /\ calls'[d].pc = "send" => calls'[d].token + Extra(calls'[d].slow) > 0
               /\ calls'[d].pc = "issued" => calls'[d].token + 1 >= Lifetime
    <3>1. /\ calls[d].pc = calls'[d].pc /\ ~calls[d].waited /\ calls'[d].waited
          /\ calls'[d].token = Minus(calls[d].token) /\ calls'[d].slow = calls[d].slow
      BY <1>5, <1>7, <2>1, <2>4
    <3>2. /\ calls[d].pc = "send" => calls[d].token + Extra(calls[d].slow) > Margin
          /\ calls[d].pc = "issued" => calls[d].token >= Lifetime
      BY <1>1, <2>2, <2>4, <3>1 DEF CallOK, Extra
    <3>3. Extra(calls[d].slow) \in {0, 1}
      BY DEF Extra
    <3>4. ASSUME NEW n \in 0..Lifetime, NEW e \in {0, 1}, n + e > Margin
          PROVE  Minus(n) + e > 0
      BY <1>3, <3>4, Constants
    <3>5. ASSUME NEW n \in 0..Lifetime, n >= Lifetime
          PROVE  Minus(n) + 1 >= Lifetime
      BY <1>3, <3>5, Constants
    <3> QED BY <2>2, <3>1, <3>2, <3>3, <3>4, <3>5
  <2>5. healthy' => calls'[d].order = "good" /\ calls'[d].pc # "backoff" /\ ~calls'[d].slow
    BY <1>1, <1>5, <1>7, <2>1, <2>2 DEF CallOK
  <2>6. Extra(TRUE) = 1
    BY DEF Extra
  <2>7. calls'[d].waited \in BOOLEAN
    BY <1>7, <2>1 DEF Cells, Call
  <2>8. /\ troubles' = 0 /\ calls'[d].pc = "send" => calls'[d].waited
        /\ troubles' = 0 /\ calls'[d].pc = "issued" => calls'[d].token + Extra(calls'[d].waited) >= Lifetime
    BY <2>4, <2>6, <2>7
  <2> QED BY <2>3, <2>4, <2>5, <2>8 DEF CallOK
<1>11. troubles' = 0 => token'.real + Extra(token'.slow) >= token'.left
  <2> SUFFICES ASSUME troubles = 0 PROVE token'.real + Extra(token'.slow) >= token'.left
    BY <1>1
  <2>1. /\ token.left \in Nat /\ token.real \in Nat /\ Extra(token.slow) \in {0, 1}
        /\ token.real + Extra(token.slow) >= token.left
    BY <1>4, Constants DEF IInv, CachedToken, Extra
  <2>2. token'.left = Minus(token.left) /\ token'.real = Minus(token.real) /\ token'.slow = token.slow
    BY <1>1, <1>4 DEF CachedToken
  <2>3. Minus(token.real) + Extra(token.slow) >= Minus(token.left)
    BY <2>1 DEF Minus
  <2> QED BY <2>2, <2>3
<1>12. healthy' => /\ up' /\ troubles' = 0 /\ ~token'.slow
                   /\ breaker'.state = "closed" /\ breaker'.failures = 0
  BY <1>1, <1>4, <1>8 DEF IInv, CachedToken
<1> QED BY <1>9, <1>10, <1>11, <1>12 DEF IInv

LEMMA Initially == Init => IInv
<1> SUFFICES ASSUME Init PROVE IInv
  OBVIOUS
<1>1. TypeOK
  <2>1. breaker \in Breaker
    <3>1. Interval \in 0..(Interval + OpenTime)
      BY Constants
    <3> QED BY <3>1, CountsTyped DEF Init
  <2>2. 0 \in 0..Lifetime /\ 0 \in 0..MaxTroubles
    BY Constants
  <2>3. token \in CachedToken
    BY <2>2 DEF Init, CachedToken
  <2> QED BY <2>1, <2>2, <2>3 DEF Init, TypeOK
<1> QED BY <1>1 DEF Init, IInv, InFlight, Counts, Extra

LEMMA NextPreserves ==
  ASSUME IInv, [Next]_vars
  PROVE  IInv'
<1>1. CASE UNCHANGED vars
  BY <1>1 DEF vars, IInv, TypeOK, InFlight, CallOK
<1>2. ASSUME NEW c \in Calls, Work(c) PROVE IInv'
  BY <1>2, TokenPreserves, IssuePreserves, FetchPreserves, FetchFailsPreserves, AnsweredPreserves, UnavailablePreserves,
     BackoffPreserves DEF Work
<1>3. CASE Next
  BY <1>2, <1>3, DoPreserves, CanceledPreserves, BankTurnsPreserves, RevokePreserves, TickPreserves DEF Next
<1> QED BY <1>1, <1>3

(* The inductive invariant: an open circuit has no call of its own in        *)
(* flight, the client believes a token one tick fresher than the bank at     *)
(* most, and a bank that works gives the breaker nothing to count.           *)
THEOREM ClientInvariant == Spec => []IInv
<1>1. IInv /\ [Next]_vars => IInv'
  BY NextPreserves
<1> QED BY <1>1, Initially, PTL DEF Spec

(* The margin of TokenSource.Token covers one HTTP timeout: while the bank   *)
(* keeps its word, only a slow request with a token whose own answer was     *)
(* slow can find it expired (ValidOnArrival).                                *)
THEOREM TokensAreValid == Spec => []ValidOnArrival
<1>1. IInv => ValidOnArrival
  <2> SUFFICES ASSUME IInv, troubles = 0, NEW c \in InFlight, calls[c].pc = "send",
                      ~(calls[c].slow /\ calls[c].waited)
               PROVE  calls[c].token > 0
    BY DEF ValidOnArrival
  <2>1. CallOK(c) /\ calls[c].token \in 0..Lifetime /\ calls[c] \in Call
    BY Running DEF IInv, InFlight
  <2> QED BY <2>1, Constants DEF CallOK, Call, Extra
<1> QED BY <1>1, ClientInvariant, PTL

(* A bank that works, issues tokens promptly and accepts its orders never    *)
(* finds the circuit opened.                                                 *)
THEOREM HealthyStaysClosed == Spec => []HealthyNeverOpens
<1>1. IInv => HealthyNeverOpens
  BY DEF IInv, HealthyNeverOpens
<1> QED BY <1>1, ClientInvariant, PTL
=============================================================================
