------------------------------ MODULE MCPrivUsb ------------------------------
(* A keyboard and a mouse, and contexts for two QEMU's. *)
EXTENDS PrivUsb
=============================================================================
