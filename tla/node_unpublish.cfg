SPECIFICATION FairSpec
CONSTANTS
  fsv = fsv
  blk = blk
  t1 = t1
  t2 = t2
  c1 = c1
  c2 = c2
  Vols = {fsv}
  Targets = {t1}
  VolOf <- PodVols
  Block = {}
  Calls = {c1}
  NoCall = NoCall
  MaxSize = 2
PROPERTIES
  UnpublishCompletes
