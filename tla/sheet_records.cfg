CONSTANTS
  w1 = w1
  w2 = w2
  x1 = x1
  x2 = x2
  g1 = g1
  f1 = f1
  f2 = f2
  v1 = v1
  v2 = v2
  None = None
  Worker <- TwoWorkers
  MaxLive = 3
  Fresh <- OneFresh
  Names <- OwnNames
  Numberer <- OneWorker
  Field <- TwoFields
  Value <- TwoValues
  Change <- Changes
  Logged <- Shown
  Optional <- OneField
  Window = 2
  Reach = 2
  MaxRows = 2
  Faults <- FailingCalls
SPECIFICATION Spec
INVARIANT TypeOK
INVARIANT OneRowPerId
INVARIANT NewRecordKept
INVARIANT Audited
PROPERTY ImplementsTable
CONSTRAINT ShortLog
CHECK_DEADLOCK FALSE
