------------------------------ MODULE MCRelay ------------------------------
(* Three clients in a row and their server.                                *)
EXTENDS Relay

RowOfLinks == {<<1, 2>>, <<2, 1>>, <<2, 3>>, <<3, 2>>}
FirstLink == {<<1, 2>>}
=============================================================================
