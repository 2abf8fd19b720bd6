CONSTANTS
  p1 = p1
  s1 = s1
  s2 = s2
  r1 = r1
  r2 = r2
  n1 = n1
  None = None
  Torn = Torn
  Process <- One
  Scope <- TwoScopes
  Draft <- SerialDrafts
  KindOf <- Kinds
  FollowUps <- Mixed
  Drafted <- NewStatuses
  Dying = TRUE
SPECIFICATION Spec
SYMMETRY RouterSymmetry
INVARIANT TypeOK
INVARIANT Remembered
PROPERTY OwnDraftsOnly
CHECK_DEADLOCK FALSE
