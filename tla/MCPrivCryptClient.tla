-------------------------- MODULE MCPrivCryptClient --------------------------
(* Two processes, two devices, two contexts over two control files. *)
EXTENDS PrivCryptClient
=============================================================================
