-------------------------------- MODULE MCGc --------------------------------
(***************************************************************************)
(* Gc, with its constants given in the configurations.                     *)
(***************************************************************************)
EXTENDS Gc
=============================================================================
