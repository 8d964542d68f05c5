-------------------------------- MODULE MCMei --------------------------------
(* Instances of IptsMei for TLC. *)
EXTENDS IptsMei, TLC

CONSTANTS control, thread

\* The task that starts and stops the driver, and the receiver thread.
OwnCodes == (control :> "QUIESCE_IO") @@ (thread :> "FEEDBACK")
=============================================================================
