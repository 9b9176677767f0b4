---------------------------- MODULE MCResizeFlow ----------------------------
(* Small instances of ResizeFlow for TLC; IInv is checked before it is proved. *)
EXTENDS ResizeFlow

(* A bound on what surrounds a VM that is astray: any two of its snapshots and *)
(* plans, and not two snapshots that were both taken since.                    *)
Surroundings ==
  Cardinality(active) + Cardinality(manual) + Cardinality(pending) + Cardinality(failed)
AstrayBound ==
  astray => /\ Surroundings <= 2
            /\ active # {} => \A m \in manual : ~ m.astray
=============================================================================
