--------------------------- MODULE MCNodeService ---------------------------
(* Small instances of NodeService for TLC.                                 *)
EXTENDS NodeService

CONSTANTS fsv, blk, t1, t2, c1, c2

\* One pod uses the file system volume, another one the block volume.
PodVols == [t \in Targets |-> IF t = t2 THEN blk ELSE fsv]
=============================================================================
