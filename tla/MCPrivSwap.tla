----------------------------- MODULE MCPrivSwap ------------------------------
(* Symmetry of the small instance of PrivSwap. *)
EXTENDS PrivSwap, TLC

ProcSymmetry == Permutations(Proc)
=============================================================================
