----------------------------- MODULE MCReceiver -----------------------------
(* Instances of IptsReceiver for TLC. *)
EXTENDS IptsReceiver
=============================================================================
