-------------------------- MODULE MCSnapshotHandoff -------------------------
(* A small instance of SnapshotHandoff for TLC. *)
EXTENDS SnapshotHandoff, TLC

CONSTANTS r1, r2

TwoReaders == {r1, r2}
=============================================================================
