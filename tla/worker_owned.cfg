CONSTANTS
  Pids = {p1, p2, p3}
  NoChild = NoChild
  NoLock = NoLock
  Threshold = 2
  MaxLaunches = 2
  MaxFaults = 2
SPECIFICATION Spec
INVARIANTS OneStanding LockIsOwn
PROPERTY OwnershipSettles
CHECK_DEADLOCK FALSE
