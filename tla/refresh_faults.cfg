CONSTANTS
  a1 = a1
  a2 = a2
  a3 = a3
  Boot = Boot
  Torn = Torn
  Absent = Absent
  Attempt <- ThreeAttempts
  Faults <- AllButFinalFlush
SPECIFICATION Spec
SYMMETRY AttemptSymmetry
INVARIANT TypeOK
INVARIANT PromotionExclusive
INVARIANT SnapshotStillCurrent
INVARIANT TokenRecoverable
INVARIANT UnlockedTokenTrusted
PROPERTY CompareAndSwap
PROPERTY ImplementsRegister
CHECK_DEADLOCK FALSE
