CONSTANTS
  n1 = n1
  n2 = n2
  copilot = copilot
  ingest = ingest
  meeting = meeting
  e1 = e1
  e2 = e2
  NoPlan = NoPlan
  Notes = {n1, n2}
  Edits = {e1}
  Plans = {copilot, ingest, meeting}
  Creates <- MCCreates
  Patches <- MCPatches
  Semantic = {copilot}
  Pinned = {meeting}
  Writers = {w1}
  Unreadable = {n2}
  Faults = {"stage", "rename", "store", "fence"}
  MaxAttempts = 2
  MaxCrashes = 1
SPECIFICATION Spec
CHECK_DEADLOCK FALSE
INVARIANTS TypeOK EditsKept EvidenceIsTruthful RecordsInOrder FailureRestores
