SPECIFICATION Spec
CONSTANTS
  n1 = n1
  n2 = n2
  n3 = n3
  v1 = v1
  Vols = {v1}
  VMs = {n1, n2, n3}
  RWX = {}
  Carried <- CarriedOnOne
  Static <- StaticOnTwo
  Restartable = {n1, n2, n3}
  Deletable = {n1, n2, n3}
  BackoffSteps = 5
INVARIANTS
  TypeOK
  DetachedIsReleased
  SingleAttach
  RemovesOnlyHotplugs
PROPERTIES
  ImplementsContract
  NoFalseDetach
