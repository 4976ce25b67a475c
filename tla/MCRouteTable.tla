---------------------------- MODULE MCRouteTable ----------------------------
(* TLC instances of RouteTable.  The keys are interchangeable.             *)
EXTENDS RouteTable, TLC

KeySymmetry == Permutations(Keys)
=============================================================================
