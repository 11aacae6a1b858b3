SPECIFICATION Spec
CONSTANTS
  Namespace = "infra"
  OtherNamespace = "other"
  Called = {"a"}
  Bystander = "b"
INVARIANTS
  TypeOK
  FakeFaithful
PROPERTIES
  OwnObjectsOnly
