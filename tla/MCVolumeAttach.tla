--------------------------- MODULE MCVolumeAttach ---------------------------
(* Small instances of VolumeAttach for TLC.                                *)
EXTENDS VolumeAttach

CONSTANTS n1, n2, n3, v1

CarriedOnOne == {<<n1, v1>>}
StaticOnTwo == {<<n2, v1>>}
NoPairs == {}
=============================================================================
