SPECIFICATION FairSpec
CONSTANTS
  Tenants = {t1}
  Banks = {"341", "999"}
  Conns = {c1}
  Requests = {r1, r2}
  Payloads <- MCPayloads
  MaxValidationAttempts = 3
  MaxFaults = 1
  NoRow = NoRow
  Idle = Idle
INVARIANTS IInv ActiveWasTested AttemptsAreCounted
PROPERTIES ValidatingEnds
CHECK_DEADLOCK FALSE
