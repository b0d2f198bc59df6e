CONSTANTS
  a = a
  b = b
  r1 = r1
  r2 = r2
  Files = {f}
  Records = {r1, r2}
  NoSource = NoSource
  Contents = {a, b}
  MaxEdits = 1
  MaxFaults = 1
  MaxExpiries = 1
  Pages <- MCPages
  HashOf <- MCHashOf
  Malformed = {}
  Passes = {p1}
SPECIFICATION Spec
INVARIANTS AppliedIsWritten EndsAreReported CursorBehindDelivery
PROPERTY AllSettles
CHECK_DEADLOCK FALSE
