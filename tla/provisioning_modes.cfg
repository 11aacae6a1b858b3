SPECIFICATION Spec
CONSTANTS
  a = a
  b = b
  fast = fast
  default = default
  s1 = s1
  blank = blank
  Names = {a}
  Prefixed = {a}
  AdminNames = {}
  Sizes = {1, 2}
  Expandable = {}
  GrownSizes = {2, 3}
  Classes = {fast}
  NoClass = default
  CapLists <- TwoCaps
  AllowAll = FALSE
  AllowDefault = FALSE
  AllowList = {fast}
  Snapshots = {s1}
  Blank = blank
  MaxUid = 3
INVARIANTS
  SharedIsBlock
CHECK_DEADLOCK FALSE
