--------------------------- MODULE MCStopManager ---------------------------
(* TLC instances of StopManager.                                           *)
EXTENDS StopManager
=============================================================================
