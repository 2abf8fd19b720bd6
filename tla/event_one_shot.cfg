CONSTANTS
  d1 = d1
  d2 = d2
  s1 = s1
  s2 = s2
  p1 = p1
  p2 = p2
  None = None
  Draft <- OneDraft
  Scope <- OneScope
  Editor <- One
  Promoter <- Two
  Form <- Forms
  Edit <- Edits
  MaxRows = 1
  MaxIssued = 1
  Failing = FALSE
SPECIFICATION Spec
INVARIANT OneInsertPerAuthorization
CHECK_DEADLOCK FALSE
