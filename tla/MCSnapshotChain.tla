--------------------------- MODULE MCSnapshotChain ---------------------------
(* Small instances of SnapshotChain for TLC. *)
EXTENDS SnapshotChain, TLC

(* Disks are only compared for equality. *)
Symmetry == Permutations(Disks)
=============================================================================
