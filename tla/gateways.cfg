SPECIFICATION Spec
CONSTANTS
  Payments = {p1}
  Amounts = {1, 10, 105, 12345}
  MaxFaults = 2
  NoRef = NoRef
  NoOrder = NoOrder
  NoReply = NoReply
INVARIANTS IInv AmountIsExact
PROPERTIES AdaptersKeepPayout
CHECK_DEADLOCK FALSE
