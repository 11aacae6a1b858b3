SPECIFICATION FairSpec
CONSTANTS
  n1 = n1
  n2 = n2
  n3 = n3
  v1 = v1
  Vols = {v1}
  VMs = {n1}
  RWX = {}
  Carried <- NoPairs
  Static <- NoPairs
  Restartable = {}
  Deletable = {n1}
  BackoffSteps = 2
PROPERTIES
  OrphanReleased
