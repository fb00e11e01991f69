SPECIFICATION Spec
CONSTANTS
  c1 = c1
  d1 = d1
  Payments = {p1, p2}
  Clients = {c1}
  Documents = {d1}
  Requests <- MCRequests
  LimitSettings <- MCLimits
  RuleSettings <- MCRules
  Day = 1
  Month = 2
  MaxTime = 1
  MaxFaults = 1
  MaxChanges = 2
  NoClient = NoClient
  NoPayee = NoPayee
  Everyone = Everyone
  NoRow = NoRow
  NoLimits = NoLimits
  NoRule = NoRule
INVARIANTS LimitsIInv LimitsHold TwinsAreFlagged BlacklistHolds
SYMMETRY Symmetry
CHECK_DEADLOCK FALSE
