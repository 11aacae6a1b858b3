SPECIFICATION Spec
CONSTANTS
  a = a
  b = b
  fast = fast
  default = default
  s1 = s1
  blank = blank
  Names = {a, b}
  Prefixed = {a, b}
  AdminNames = {b}
  Sizes = {1, 2}
  Expandable = {a}
  GrownSizes = {2, 3}
  Classes = {fast}
  NoClass = default
  CapLists <- OneCap
  AllowAll = FALSE
  AllowDefault = FALSE
  AllowList = {fast}
  Snapshots = {s1}
  Blank = blank
  MaxUid = 3
INVARIANTS
  TypeOK
  BoundIsBacked
  RecordedIsProvisioned
  GoneIsDeleted
  PolicyHolds
PROPERTIES
  ForeignUntouched
CHECK_DEADLOCK FALSE
