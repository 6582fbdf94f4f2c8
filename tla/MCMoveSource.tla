----------------------------- MODULE MCMoveSource -----------------------------
(* Instances of MoveSource for TLC: the passes are interchangeable.        *)
EXTENDS MoveSource, TLC

Symmetry == Permutations(Passes)

=============================================================================
