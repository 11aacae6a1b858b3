SPECIFICATION FairSpec
CONSTANTS
  n1 = n1
  n2 = n2
  n3 = n3
  v1 = v1
  Vols = {v1}
  VMs = {n1, n2}
  RWX = {v1}
  Carried <- CarriedOnOne
  Static <- StaticOnTwo
  Restartable = {n1, n2}
  Deletable = {}
  BackoffSteps = 2
PROPERTIES
  DetachCompletes
  AttachCompletes
