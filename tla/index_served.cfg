CONSTANTS
  a = a
  b = b
  p = p
  text = text
  Revisions = {a, b}
  NoRevision = NoRevision
  Underivable = {}
  Pages = {p}
  Text <- MCText
  NoText = NoText
  Planted = Planted
  Quarantined = {}
  Triggers = {t1}
  Drain = Drain
  MaxTime = 0
  MaxCommits = 1
  MaxEdits = 1
  MaxFaults = 1
  MaxId = 2
SPECIFICATION Spec
INVARIANTS TypeOK ProvenIsSigned ProvenIsReconciled
