----------------------------- MODULE MCLifecycle -----------------------------
(* Instances of IptsLifecycle for TLC. *)
EXTENDS IptsLifecycle

CONSTANTS core, a, b
=============================================================================
