------------------------- MODULE MCSnapshotCreation -------------------------
(* Small instances of SnapshotCreation for TLC.                            *)
EXTENDS SnapshotCreation

CONSTANTS s1, v1, v2, scA, scB, vscA, vscB

ClassOfTwo == [v \in Vols |-> IF v = v1 THEN scA ELSE scB]

\* The example of docs/snapshot-driver-config.md: one class in each group.
GroupPerClass == <<[storage |-> {scA}, snap |-> {vscA}],
                   [storage |-> {scB}, snap |-> {vscB}]>>
=============================================================================
