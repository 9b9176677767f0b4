-------------------------- MODULE MCRequestWorkflow --------------------------
(* Small instances of RequestWorkflow for TLC. *)
EXTENDS RequestWorkflow, TLC

(* Identifiers and hostnames are only compared for equality. *)
Symmetry == Permutations(Ids) \cup Permutations(Names)
=============================================================================
