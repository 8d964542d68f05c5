--------------------------------- MODULE MCOsk ---------------------------------
(* Instances of Osk for TLC. *)
EXTENDS Osk
=============================================================================
