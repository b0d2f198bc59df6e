CONSTANTS
  n1 = n1
  n2 = n2
  copilot = copilot
  ingest = ingest
  meeting = meeting
  e1 = e1
  e2 = e2
  NoPlan = NoPlan
  Notes = {n1, n2}
  Edits = {e1}
  Plans = {copilot, ingest}
  Creates <- MCCreates
  Patches <- MCPatches
  Semantic = {copilot}
  Pinned = {}
  Writers = {w1}
  Unreadable = {n1, n2}
  Faults = {}
  MaxAttempts = 1
  MaxCrashes = 0
SPECIFICATION Spec
CHECK_DEADLOCK FALSE
INVARIANTS NeverClobbered
