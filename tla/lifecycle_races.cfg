SPECIFICATION Spec
CONSTANTS
  Payments = {p1}
  Keys = {k1, k2}
  KeyOf <- MCKeyOf
  Handlers = {h1}
  Workers = {w1, w2}
  Endpoints = {"cancel", "unhold", "approve", "webhook", "reconcile", "prevalidate", "submit"}
  MaxAttempts = 2
  MaxFaults = 1
  NoPay = NoPay
  NoRef = NoRef
INVARIANTS IInv OrderWasGranted StatusAgreesWithBank OneOrderPerPayment SentIsTraceable
PROPERTIES ImplementsPayout
SYMMETRY Symmetry
CHECK_DEADLOCK FALSE
