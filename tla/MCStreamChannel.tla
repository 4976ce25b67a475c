-------------------------- MODULE MCStreamChannel --------------------------
(* The stream channels on a small instance.                                *)
EXTENDS StreamChannel
=============================================================================
