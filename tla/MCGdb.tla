-------------------------------- MODULE MCGdb --------------------------------
(* Instances of GdbEngine. *)
EXTENDS GdbEngine
=============================================================================
