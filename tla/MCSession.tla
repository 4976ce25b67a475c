----------------------------- MODULE MCSession -----------------------------
(* TLC instances of Session.                                               *)
EXTENDS Session
=============================================================================
