CONSTANTS
  Builds = {1, 2}
  Target <- MCTarget
  MinReadable <- MCMinReadable
  Keep = 2
  Interval = 1
  MaxTime = 3
  MaxWrites = 2
  MaxFaults = 2
  MaxInstalls = 2
SPECIFICATION Scheduled
INVARIANTS TypeOK MarkerIsEarned KeptAreWhole BackupCovers
PROPERTY DueIsTaken
CHECK_DEADLOCK FALSE
