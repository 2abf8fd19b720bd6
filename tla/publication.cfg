CONSTANTS
  s1 = s1
  s2 = s2
  i1 = i1
  e1 = e1
  NoId = NoId
  NoEvent = NoEvent
  Syncer <- TwoSyncers
  Id <- OneId
  Event <- OneEvent
  Body <- Bodies
  Initial <- Contents
  Files <- ThreeFiles
  MaxRows = 2
  Second <- Seconds
  MaxChanges = 2
  MaxRuns = 2
SPECIFICATION Spec
SYMMETRY SyncerSymmetry
INVARIANT TypeOK
INVARIANT PublishedWasReleased
INVARIANT CompleteRunIsFresh
INVARIANT TakenBackIsHidden
INVARIANT DryRunAccounts
CHECK_DEADLOCK FALSE
