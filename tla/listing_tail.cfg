SPECIFICATION ListSpec
CONSTANTS
  s1 = s1
  nopvc = nopvc
  Ids = {1, 2, 3}
  Sources = {s1}
  NoPVC = nopvc
  Shapes <- Plain
  PageSizes = {1, 2}
INVARIANTS
  PagesCoverList
