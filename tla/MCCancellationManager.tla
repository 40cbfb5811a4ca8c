------------------------ MODULE MCCancellationManager ------------------------
(* CancellationManager with model values, for TLC. *)
EXTENDS CancellationManager, TLC

Symmetry == Permutations(Cancellers) \cup Permutations(Ops)
=============================================================================
