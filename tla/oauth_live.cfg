CONSTANTS
  r1 = r1
  r2 = r2
  Nothing = Nothing
  Boot = Boot
  Fresh = Fresh
  Torn = Torn
  Absent = Absent
  Refreshing = TRUE
  Run <- OneRun
  Faults <- FaultKinds
  Sent <- AnyRequest
  Synthetic <- AnyRequest
SPECIFICATION FairSpec
INVARIANT SwapLosesNothing
PROPERTY OneDisposition
PROPERTY RunReturns
PROPERTY ListenerCloses
CHECK_DEADLOCK FALSE
