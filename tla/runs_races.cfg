SPECIFICATION Spec
CONSTANTS
  Payments = {p1, p2}
  Runs = {r1}
  Operators = {o1, o2}
  Crons = {c1}
  CreatedAt <- MCCreatedAt
  ListLimit = 2
  Endpoints = {"create", "attach", "detach", "approve", "submit", "reschedule", "group", "ON_HOLD"}
  MaxFaults = 1
  NoRun = NoRun
  NoPay = NoPay
INVARIANTS UndisturbedIInv TotalsMatchItems SubmittedOnce
SYMMETRY RacesSymmetry
CHECK_DEADLOCK FALSE
