SPECIFICATION Spec
CONSTANTS
  Requests = {a1, a2, a3}
  Keys = {k1, k2}
  Bodies = {b1, b2}
  Ids = {i1, i2, i3}
  MaxFaults = 1
  NoBody = NoBody
  NoId = NoId
INVARIANTS IInv SameKeySamePayment AckedIsWhole
SYMMETRY Symmetry
CHECK_DEADLOCK FALSE
