SPECIFICATION Spec
CONSTANTS
  Payments = {p1}
  Keys = {k1, k2}
  KeyOf <- MCKeyOf
  Handlers = {h1, h2}
  Workers = {w1}
  Endpoints = {"prevalidate", "approve", "submit", "webhook"}
  MaxAttempts = 2
  MaxFaults = 0
  NoPay = NoPay
  NoRef = NoRef
INVARIANTS NotificationAppliedOnce
CHECK_DEADLOCK FALSE
