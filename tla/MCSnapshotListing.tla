------------------------- MODULE MCSnapshotListing --------------------------
(* A small instance of SnapshotListing for TLC.                            *)
EXTENDS SnapshotListing

CONSTANTS s1, nopvc

Mine(src) == [src |-> src, labelled |-> TRUE]
Plain == [n \in 1..3 |-> {Mine(s1)}]
=============================================================================
