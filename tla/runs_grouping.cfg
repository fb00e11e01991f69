SPECIFICATION FairSpec
CONSTANTS
  Payments = {p1, p2}
  Runs = {r1, r2, r3}
  Operators = {o1}
  Crons = {c1}
  CreatedAt <- MCCreatedAt
  ListLimit = 2
  Endpoints = {"group", "attach", "detach", "CANCELED"}
  MaxFaults = 0
  NoRun = NoRun
  NoPay = NoPay
PROPERTIES EventuallyGrouped
CHECK_DEADLOCK FALSE
