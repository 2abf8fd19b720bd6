CONSTANTS
  r1 = r1
  r2 = r2
  Nothing = Nothing
  Boot = Boot
  Fresh = Fresh
  Torn = Torn
  Absent = Absent
  Refreshing = FALSE
  Run <- TwoRuns
  Faults <- FaultKinds
  Sent <- Callbacks
  Synthetic <- None
SPECIFICATION Spec
SYMMETRY RunSymmetry
INVARIANT TypeOK
INVARIANT ExchangesOwnCode
INVARIANT NothingLeftBehind
INVARIANT AcceptedIsCandidate
CHECK_DEADLOCK FALSE
