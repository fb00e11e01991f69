SPECIFICATION FairSpec
CONSTANTS
  Payments = {p1}
  Keys = {k1, k2}
  KeyOf <- MCKeyOf
  Handlers = {h1}
  Workers = {w1}
  Endpoints = {"approve", "hold", "unhold", "reject", "cancel", "reschedule", "submitRun", "reconcile", "submit", "prevalidate"}
  MaxAttempts = 2
  MaxFaults = 0
  NoPay = NoPay
  NoRef = NoRef
PROPERTIES VerdictIsNoticed
CHECK_DEADLOCK FALSE
