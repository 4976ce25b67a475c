---------------------------- MODULE MCTunDevice ----------------------------
(* TLC instances of TunDevice.                                             *)
EXTENDS TunDevice
=============================================================================
