SPECIFICATION FairSpec
CONSTANTS
  s1 = s1
  v1 = v1
  v2 = v2
  scA = scA
  scB = scB
  vscA = vscA
  vscB = vscB
  Snaps = {s1}
  Vols = {v1, v2}
  ClassOf <- ClassOfTwo
  SnapClasses = {vscA, vscB}
  None = None
  Reject = Reject
  AllowAll = FALSE
  AllowDefault = FALSE
  AllowList = {scA, scB}
  Mapping <- GroupPerClass
  Size = 1
INVARIANTS
  TypeOK
  CutIsFaithful
  ClassIsMapped
PROPERTIES
  ForeignUntouched
  CreateCompletes
CHECK_DEADLOCK FALSE
