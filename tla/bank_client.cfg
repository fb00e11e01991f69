SPECIFICATION FairSpec
CONSTANTS
  Calls = {a, b}
  MaxRetries = 2
  TripAfter = 2
  HalfOpenRequests = 2
  Interval = 2
  OpenTime = 1
  Margin = 1
  Lifetime = 3
  MaxTroubles = 1
  Idle = Idle
INVARIANTS IInv ValidOnArrival
PROPERTIES CallsEnd Recovers
CHECK_DEADLOCK FALSE
