--------------------------- MODULE MCProvisioning ---------------------------
(* Small instances of Provisioning for TLC.                                *)
EXTENDS Provisioning

CONSTANTS a, b, fast, default, s1, blank

FS(mode) == [block |-> FALSE, mode |-> mode]
Block(mode) == [block |-> TRUE, mode |-> mode]

\* One capability per request, as PVCs with one access mode lead to.
OneCap == {<<FS("multi")>>, <<Block("multi")>>}

\* A PVC with accessModes [ReadWriteMany, ReadWriteOnce] gives two.
TwoCaps == {<<FS("multi")>>, <<FS("multi"), FS("single")>>}
=============================================================================
