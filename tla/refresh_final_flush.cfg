CONSTANTS
  a1 = a1
  a2 = a2
  a3 = a3
  Boot = Boot
  Torn = Torn
  Absent = Absent
  Attempt <- TwoAttempts
  Faults <- OnlyFinalFlush
SPECIFICATION Spec
INVARIANT PostSwapFailureRestored
CHECK_DEADLOCK FALSE
