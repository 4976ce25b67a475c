---------------------------- MODULE MCHolePunch ----------------------------
(* Two or three clients on a relay that may lose a message.                *)
EXTENDS HolePunch
=============================================================================
