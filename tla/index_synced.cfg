CONSTANTS
  a = a
  b = b
  Revisions = {a, b}
  NoRevision = NoRevision
  Underivable = {}
  Pages = {p}
  Text <- MCText
  NoText = NoText
  Triggers = {t1, t2}
  Drain = Drain
  MaxTime = 2
  MaxCommits = 3
  MaxEdits = 1
  MaxFaults = 1
SPECIFICATION SyncSpec
INVARIANTS IndexHoldsCommitted IndexedIsTruthful
PROPERTY HeldIsSettled
