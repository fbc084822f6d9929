----------------------------- MODULE MCPrivInput -----------------------------
(***************************************************************************)
(* The input switch for TLC: a keyboard, a mouse and a controller.         *)
(***************************************************************************)
EXTENDS PrivInput

\* Two USB devices, and a controller with the two behind it.
MCConfigs == {<<Mouse, Kbd>>, <<Bus, Mouse, Kbd>>}
=============================================================================
