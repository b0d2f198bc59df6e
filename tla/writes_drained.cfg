CONSTANTS
  drain = drain
  s1 = s1
  e1 = e1
  e2 = e2
  obj = obj
  p1 = p1
  p2 = p2
  Dispatchers = {drain}
  Drain = drain
  Armed = {e1, e2}
  Envelopes = {e1, e2}
  Objects = {obj}
  Payloads = {p1, p2}
  ObjectOf <- MCObjectOf
  PayloadOf <- MCPayloadOf
  NeedsApproval = {e1, e2}
  Preexisting = {}
  ClientIds = TRUE
  Ambiguous = FALSE
  StoreFaults = FALSE
  MaxTime = 1
  MaxObjects = 2
  MaxCrashes = 1
SPECIFICATION FairWrites
CHECK_DEADLOCK FALSE
PROPERTIES ApprovedIsSettled NoStaleOverwrite
