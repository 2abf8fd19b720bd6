CONSTANTS
  a1 = a1
  a2 = a2
  a3 = a3
  Boot = Boot
  Torn = Torn
  Absent = Absent
  Attempt <- ThreeAttempts
  Faults <- CleanFaults
SPECIFICATION FairSpec
INVARIANT DirectoryClean
PROPERTY LockReleased
PROPERTY CandidateRemoved
CHECK_DEADLOCK FALSE
