SPECIFICATION FairSpec
CONSTANTS
  s1 = s1
  nopvc = nopvc
  Ids = {1, 2, 3}
  Sources = {s1}
  NoPVC = nopvc
  Shapes <- SomeShapes
  PageSizes = {0, 1}
  Half = 4
  BlockSizes <- SomeBlockSizes
  Configs <- SomeConfigs
  NodeObjects <- SomeNodes
INVARIANTS
  TypeOK
  ServingIsConfigured
  RegisteredIsNamed
  PagesFitTogether
  PanicsExplained
  ReportsExact
PROPERTIES
  ServesAgain
