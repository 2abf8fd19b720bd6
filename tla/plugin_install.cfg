CONSTANTS
  i1 = i1
  i2 = i2
  g1 = g1
  g2 = g2
  v1 = v1
  v2 = v2
  n1 = n1
  n2 = n2
  Absent = Absent
  Installer <- Two
  Plugin <- BothPlugins
  Order <- TwoPlugins
  Revision <- Revisions
  Name <- Names
  Checkouts <- SomeCheckouts
  AllowDirty = TRUE
  MaxWrites = 1
  Failing = TRUE
SPECIFICATION Spec
SYMMETRY InstallSymmetry
INVARIANT TypeOK
INVARIANT MutableSurvives
INVARIANT TargetAvailable
PROPERTY InstalledPassesCheck
CHECK_DEADLOCK FALSE
