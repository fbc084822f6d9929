------------------------------ MODULE MCPrivMm -------------------------------
(* Symmetry of the small instances of PrivMm. *)
EXTENDS PrivMm, TLC

Symmetric == Permutations(Proc) \cup Permutations(Area) \cup Permutations(Ctx)
=============================================================================
