CONSTANTS
  c1 = c1
  c2 = c2
  f1 = f1
  f2 = f2
  Commands = {c1, c2}
  Flows = {f1}
  CommandDecisions = {"approved", "deferred"}
  FlowDecisions = {"approved", "rejected"}
  Ticks = TRUE
  SnoozeWindow = 1
  ExpiryWindow = 2
  MaxTime = 2
  MaxRetries = 1
  MaxCrashes = 1
SPECIFICATION Spec
CHECK_DEADLOCK FALSE
SYMMETRY Symm
INVARIANTS TypeOK DispatchedOnce
PROPERTIES TerminalIsFrozen
