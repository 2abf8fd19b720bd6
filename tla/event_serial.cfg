CONSTANTS
  d1 = d1
  d2 = d2
  s1 = s1
  s2 = s2
  p1 = p1
  p2 = p2
  None = None
  Draft <- TwoDrafts
  Scope <- OneScope
  Editor <- One
  Promoter <- One
  Form <- Forms
  Edit <- Edits
  MaxRows = 2
  MaxIssued = 1
  Failing = TRUE
SPECIFICATION Spec
INVARIANT TypeOK
INVARIANT OneInsertPerAuthorization
INVARIANT OneRowPerDraft
PROPERTY CalendarIdKept
PROPERTY InsertGated
CHECK_DEADLOCK FALSE
