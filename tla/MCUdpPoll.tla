----------------------------- MODULE MCUdpPoll -----------------------------
(* TLC instances of UdpPoll.                                               *)
EXTENDS UdpPoll
=============================================================================
