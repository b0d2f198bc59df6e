CONSTANTS
  d1 = d1
  d2 = d2
  e1 = e1
  e2 = e2
  obj = obj
  p1 = p1
  p2 = p2
  Dispatchers = {d1, d2}
  Envelopes = {e1, e2}
  Objects = {obj}
  Payloads = {p1, p2}
  ObjectOf <- MCObjectOf
  PayloadOf <- MCPayloadOf
  NeedsApproval = {e1, e2}
  Preexisting = {obj}
  ClientIds = FALSE
  Ambiguous = TRUE
  StoreFaults = TRUE
  MaxTime = 1
  MaxObjects = 2
  MaxCrashes = 1
SPECIFICATION Spec
CHECK_DEADLOCK FALSE
SYMMETRY Symm
INVARIANTS TypeOK OneCreator NoDuplicateObject LedgerIsTruthful
PROPERTIES ForeignUntouched
